# RunSigil in TLA+

RunSigil lets callers ask for *governed actions*: an intent is checked against a
policy, its cost is reserved in every applicable budget, a person may have to approve
it, and only then a worker sends it, through a gateway that authorizes it once more, to
an external provider. Durable workflows are built on top. This directory holds TLA+
modules for the parts whose correctness depends on the order in which concurrent
transactions, messages, crashes and clocks happen, TLC configurations that check them
on small instances, and TLAPS proofs for every size of them.

`CA` below is `src/apps/control-api/runsigil_control_api`, `W` is
`src/apps/worker/runsigil_worker` and `G` is `src/apps/gateway/runsigil_gateway`.

## The system

| Part | State | Operations | Talks to |
| --- | --- | --- | --- |
| Control API (`CA/services`) | PostgreSQL rows: runs, intents, actions, approvals, budgets, reservations, outbox, dead letters, traces, audit | create, decide, cancel, redrive, authorize; one database transaction each | callers, gateway |
| Action worker (`W/service.py`) | a claim in memory, the claim's rows in the database | `claim_ready`, `claim_reconciliation`, `dispatch`, `settle` in a loop | database, gateway |
| Model-call worker (`W/model_calls.py`) | the same for model calls | the same four | database, gateway |
| Workflow engine (`CA/services/workflow_engine.py`) | executions, node attempts, checkpoints, outbox | claim, advance one node, seal, fail, cancel | database |
| Tool calls, model calls, waits, subworkflows (`CA/services/workflow_*.py`) | one row per call, a timeout event, a resume event | create, settle, expire, cancel | engine, workers |
| Definitions, deployments (`CA/services/workflows.py`, `packages/contracts`) | versions, deployments | validate, deploy, start, fork, cancel | engine |
| Gateway (`G/main.py`) | none | authorize, then send or look up | control API, provider |
| Provider (`examples/demo-provider`) | effects by idempotency key | create, look up | gateway |
| Releases: replays, evaluations, simulation profiles, node policies (`CA/services/workflow_replays.py`, `evaluations.py`, `workflow_simulation.py`, `workflow_policies.py`) | replays, evaluations, results, annotations, decisions | start, settle when an execution ends, annotate, decide | engine |
| Policy engine, evidence, contracts | none | evaluate, sign, digest | control API, worker |

Hard behaviours: two workers claiming the same row; a lease that expires while the
request it covers is still on its way; answers that are lost or arrive after their
worker stopped waiting; a worker that dies between claim, dispatch and settlement; an
approval, a denial and a cancellation of the same request; redrives racing each other;
a timeout event racing a settlement, a claim, a decision and a cancellation; totals that
are kept beside the rows they sum; a provider that reports more usage than was reserved;
deployments that overlap; the last two results of an evaluation arriving together; a
policy that changes while a node waits.

What must be true, whatever the interleaving: an execution is sent at most once, and
only after approval; an ambiguous outcome is never called success or failure; budgets
are never overspent and always settled; stale claims settle nothing; final states stay
final; a workflow that waits for a tool or a model is woken, once, and goes on only with
an outcome that is true; a release verdict is complete, earned and final; nothing but a
live run has an effect; with live workers everything comes to an end.

## Modules

| Module | Models |
| --- | --- |
| `Budgets` | the ledger of `CA/services/budgets.py` |
| `GovernedActions` | the life of actions across the control API, worker, gateway and provider; extends `Budgets` |
| `WorkflowGraph` | definitions: node types, edges, the deployment rules, and the scheduler's reading of them |
| `WorkflowRuns` | what the engine promises: each execution is a sequential run of its definition |
| `WorkflowEngine` | executions, workers, the outbox, waits, subworkflows, cancellation and evidence; implements `WorkflowRuns` |
| `WorkflowToolCalls` | tool nodes: the call, its parent and its events, composed with every handler of `GovernedActions`; implements it |
| `ModelCalls` | agent nodes: the model call, its worker, gateway, provider and parent, on the ledger of `Budgets` with actual usage |
| `Deployments` | versions, reference checks and concurrent deployments |
| `Policy` | the policy engine and the decisions of nodes |
| `Experiments` | runs, forks, replays, evaluations and their gate; extends `Deployments` and `Policy` |
| `MCGovernedActions`, `MCWorkflowToolCalls`, `MCModelCalls`, `MCWorkflowEngine`, `MCExperiments` | constants of the model-checked instances |
| `WorkflowRefinement` | the mapping of the engine's state to that of `WorkflowRuns` |
| `GovernedActionsProofs` | the ledger's theorems; the inductive invariant of actions, what it implies, action properties, refinement of the ledger, the redrive allowance |
| `WorkflowToolCallsProofs` | the composition implements `GovernedActions`; its inductive invariant and what it implies |
| `ModelCallsProofs` | the inductive invariant of model calls, what it implies, and the bound on overspending |
| `WorkflowEngineProofs`, `WorkflowEngineSteps`, `WorkflowEngineEffects` | lemmas: every step of the engine keeps its invariant, and what a step may do to progress |
| `WorkflowEngineTheorems` | the engine's invariant, what it implies, refinement of `WorkflowRuns`, evidence, joins |
| `ExperimentsProofs` | the inductive invariant of deployments, experiments and verdicts, and what it implies |

### Budgets

`reserved`, `spent` and `reservation` are `budgets.reserved_value`, `budgets.spent_value`
and the status of an action's reservation row in a budget. `ReserveBudgets` is
`reserve_budgets` (coverage of every resource, room in every applicable budget, one row
each), `ReleaseActionReservations` and `SettleActionReservations` the functions of those
names. Where the code raises, the step is disabled: the exception rolls back the whole
transaction of the caller. `Releasable` resources (concurrent runs) are held, not
consumed. The rows are locked in a fixed order, so a call is one atomic step.

### GovernedActions

One action of the module is one database transaction, one message or one tick.

| Action | Code |
| --- | --- |
| `CreateGovernedAction` | `create_governed_action` |
| `Approve`, `Deny` | `decide_approval` |
| `CancelRun` | `cancel_run` |
| `LeaveRunAuthorizing` | `create_governed_action` called by the engine, which commits what was flushed before the budgets refused |
| `ExpireBeforeEffect` | what `expire_workflow_tool_call` does to the action |
| `LoadDeadLetter`, `RedriveDeadLetter` | the unlocked read of `redrive_dead_letter`, and the rest of it |
| `ClaimReady`, `ClaimReconciliation`, `Dispatch`, `Settle`, `SettleStale` | the methods of `ActionWorker` |
| `OutcomeUnknown` | a timeout, network error, 5xx or unreadable body |
| `WorkerFails` | a crash, or an exception that reaches `run_forever` |
| `GatewayAuthorizes`, `GatewayDenies` | `_authorize` and `authorize_gateway_action` |
| `ProviderCommits`, `ProviderRejects`, `ProviderLooksUp` | the provider and the gateway's reading of its answer |
| `LeaseExpires`, `ReconciliationDue`, `Lapse` | the database clock passing a column |

Time is abstracted to what the code compares it with. A lease is live or expired, a
reconciliation is due or not, an approval or the governance an execution rechecks has
lapsed or not; each may lapse at any moment, which covers every relation between the
configured durations. A claim token is the number of the claim that issued it. Digests,
ciphertexts, traces and audit rows are left out: no guard depends on them once the rows
they bind are immutable.

`redrive_dead_letter` is two steps because its first read takes no lock, and the ORM
hands the same object back, unrefreshed, for the locked select that follows. The other
handlers read what they check under the lock.

The variables `sent` and `redriven` are history: they count what the gateway sent and
what redrives were accepted, for properties to speak about.

### WorkflowToolCalls

A tool node suspends its workflow (the *parent*) until the governed action it requested
has an outcome. Action `a` is the one that parent `a` requests; the parent is followed
from the moment it is queued at the node until it leaves it. `toolCall` is
`workflow_tool_calls.status`, and `event` holds the three `workflow.ready` events the
parent may be woken by: the one that brought it to the node, the timeout scheduled with
the call, and the resume a settlement publishes. A subworkflow may not contain tool or
agent nodes, so the parent is always a root execution.

| Action | Code |
| --- | --- |
| `ClaimParent` | `claim_ready` of the engine |
| `RequestTool`, `RefuseTool` | `create_workflow_tool_call` with `create_governed_action`; any refusal, which `advance` turns into `_fail` |
| `TimeOutTool`, `KeepWaiting` | `expire_workflow_tool_call`, before and after a dispatch was possible |
| `ResumeParent` | `advance` with the settlement's event: the result's lineage is verified |
| `CancelWorkflow` | `cancel_workflow_run` with `cancel_pending_workflow_tool_call` |
| `ToolApproved`, `ToolDenied` | `decide_approval` with `reject_workflow_tool_call` |
| `ToolClaimed`, `ToolReconciled`, `ToolSettled` | the worker's transactions with `settle_workflow_tool_call` |
| `ToolRedriven` | `redrive_dead_letter` |
| `ChildRunCancelled` | `cancel_run` of the action's own run, which ignores the call |
| `ActionOnly` | steps of `GovernedActions` that touch no call |

Each of these is a step of `GovernedActions` joined with what the same transaction does
to the call, or leaves the action alone; `PROPERTY Spec` checks it and
`ToolCallsImplementActions` proves it. Every writer of a call locks its timeout event, or
the parent's execution, before it reads the call, so each handler is one step. Only the
latest claim of the parent is kept: an earlier one fails the token check of `advance`.
`advance` skips the node policy when it is woken at a tool or agent node with a call, so a
policy can only refuse the request.

### ModelCalls

The same for agent nodes, with the worker of `W/model_calls.py`, the gateway's model
routes and the provider's model endpoints in one module. It differs from actions where the
code does: `expire_model_call` takes a live claim away (`KeepWaiting`), a call whose
lookups are exhausted fails and is charged its estimate (`SettleUnresolved`), a completed
one is charged what the provider reported (`ChargeUsage`), and a workflow with a model
call cannot be cancelled. `LeaveCallQueued` is `create_workflow_model_call` refused by the
budgets after the row was flushed: `advance` commits, and a `queued` call stays that
nothing claims. `OtherAction` is a governed action that shares the budgets.

### Deployments, Policy and Experiments

A version stands for its deployment in one environment. `ReadPrior` and `Deploy` are the
two halves of `deploy_workflow_version`, between which another deployment may commit;
`ReferencesSound` is `_subworkflow_reference_issues`. `overlapped` is history.

`Policy` has `evaluate` (`Effect`, `Evaluates`) and `evaluate_workflow_node_policy`
(`Decision`, `Permits`): the latest decision of the step is reused unless ten minutes
passed or the document changed.

| Action of `Experiments` | Code |
| --- | --- |
| `StartRun`, `CopyRun`, `StartEvaluation` | `start_workflow_run`; `fork_workflow_run` and `create_workflow_replay`; `start_evaluation` |
| `CreateProfile`, `ProfileFits` | `create_simulation_profile`, `require_simulation_profile` |
| `SuspendNode`, `AnswerWait`, `CompleteNode`, `FailNode`, `TimeOutWait` | `advance`, one node per transaction |
| `CommitEnd` | `settle_evaluation_execution` under the lock on the evaluation, and the commit |
| `End`, `ReplayStatus` | the end of an execution with `settle_workflow_replay` |
| `CancelRun`, `FinalizeCancelled` | `cancel_workflow_run`, `finalize_cancelled_once` |
| `Annotate` | `create_evaluation_annotation` |
| `ChangeBundle` | an operator stores another bundle (external) |

The engine is reduced to what these services see of it: claims and leases are in
`WorkflowEngine`. The transaction that ends a scenario is two steps, because it queues
for the evaluation row; what it counts is read after that. A subworkflow is one step of
its parent. The five graders are booleans over output, path, version, policy decisions and
forbidden nodes, and the scores are the integers of the code.

### WorkflowGraph and WorkflowRuns

A definition is a set of typed nodes with labelled edges; several share the constant
`Node`, and each is what its entry reaches. `DeploymentAssumption` is the structural part
of `validate_workflow_definition` and of the reference check of deployments, so an
instance TLC accepts is one the API would deploy. `NodeReady`, `NextNodes` and `LoopCount`
are `_node_ready` and `_next_nodes`; a condition may take either branch, since the state it
reads is data.

`WorkflowRuns` is the abstract specification: a run starts at an entry or at a checkpoint,
completes the first ready node at each step, and ends. It knows no workers or events.

### WorkflowEngine

| Action | Code |
| --- | --- |
| `StartWorkflow`, `ForkWorkflow` | `start_workflow_run`, `fork_workflow_run`, `_create_execution_records` |
| `ClaimReady` | `claim_ready` |
| `AdvanceStale` | `advance` with a processed event or an old claim |
| `BeginAdvance` | the part of `advance` up to the read of the parent's call; a child given up is cancelled (`_cancel_claimed_execution`) |
| `AdvanceRefused` | deadline, step limit, no ready node, mismatched wake (`_fail`) |
| `PolicyDenies` | the node's policy, evaluated at every wake |
| `CreateWait`, `WaitExpires` | `create_workflow_wait`, and a wait that ran out |
| `CreateSubworkflow`, `CallTimesOut`, `CallEnded` | `create_subworkflow_call`, and a call that ran out or failed |
| `CompleteNode` | the rest of `advance`: successors, checkpoint, completion or requeue |
| `ResolveWait` | `resolve_workflow_wait` |
| `CancelWorkflow`, `FinalizeCancelled` | `cancel_workflow_run`, `finalize_cancelled_once` |
| `WorkerFails` | a crash, or an exception that rolls the transaction back |
| `LeaseExpires`, `WaitDue`, `CallDue`, `DeadlinePasses` | the database clock passing a column |

`outbox` holds the unprocessed `workflow.ready` and `workflow.finalize` events, named by
their deduplication keys, and `dispatched` those a worker has taken. `advance` is one step
for a root execution and two for a child: the child's parent call is read without a lock
at the beginning and the ORM returns that same object, unrefreshed, for the locked select
of `settle_parent_subworkflow_call`. In between the parent may settle the call. What then
keeps the two consistent is the single-use trigger of migration 0009, which aborts the
child's transaction (`SettlementRefused`, `RollBack`).

Branches of `advance` that no state reaches are left out: a wake that finds its row
pending and not due (events become available when the row is due), digest mismatches and
malformed payloads (the engine writes both sides). Each `_fail` code for a mismatched wake
is one code here.

## Runs

| Run | Instance | Shows |
| --- | --- | --- |
| `tool_calls` | 1 action under a tool node, 2 workers, 1 operator, 2 reconciliations per cycle, 1 redrive | at most one execution, approval, true outcomes; cancellation only before dispatch; the inductive invariants of actions and of calls, from which the other properties of both modules are proved; ended is ended; refinement of `GovernedActions`; and that the parent leaves its node |
| `actions_two` | 2 actions, 2 workers, budgets of 3 scopes, a concurrency budget with room for one at a time | limits, reservations and settlements of the shared ledger, and refinement of `LedgerSpec` |
| `model_calls` | 1 model call and 1 governed action on shared budgets, 2 workers, 2 lookups; the provider reports twice the estimate | at most one generation, what was served is charged, overspending bounded by what is reported, the inductive invariant (claims, charges, wakes), ended is ended, and that the parent leaves its node |
| `releases` | 4 versions of 2 workflows (with a tool, with a reference, with a reference to the tool), 1 run, 1 copy, 2 evaluations of 2 scenarios, the second with the first as baseline, 3 policy bundles | the inductive invariant `ReleasesInv`; some version serves, only live runs have effects, verdicts complete, earned, final and coming, decisions from the current policy |
| `orphaned_reconciliation` | 1 action, 2 workers | finding 1 |
| `denied_reconciliation` | 1 action, 1 worker | finding 2 |
| `stale_redrive` | 1 action, 1 worker, 2 operators | finding 3 |
| `stranded_tool_call` | 1 action under a tool node | finding 4 |
| `workflow_mixed` | 2 executions, 2 workers, 1 root; a fan-out, a loop around a timer, or a parent and child | the inductive invariant `EngineInv` and what follows from it, joins, refinement of `WorkflowRuns` |
| `workflow_nested` | 3 executions, 1 worker, 1 root; three levels of subworkflows, an approval in the last | results going up meet cancellations and timeouts going down; evidence |
| `workflow_liveness` | 2 executions, 1 worker, 2 roots; a parent and a child that waits for an event | every run and fork ends, orphans stop |
| `looped_join` | 1 execution, 1 worker; a fan-out inside a loop | finding 5 |

Bounds. Two workers suffice for every pair of claims of an action: a third can only
repeat what a second does, since a claim is identified by its token and not by its
worker. Two reconciliations per cycle let a cycle both continue and end; one redrive lets
a dead letter be opened, redriven, reopened and resolved, and the second redrive be
refused. Two actions let one starve the other of budget. Nothing else is bounded: the
state spaces are finite because the code's own limits (`max_reconciliation_attempts`,
`max_dlq_redrives`) are. The same goes for model calls, where the limit lets the call or the
action reserve first, or both, and the reported usage then exceed it. One tool call is
enough: calls share nothing but workers and budgets, which `actions_two` has two actions
compete for. The proofs of the safety properties remove all of these bounds.

`MaxRequests` of `releases` bounds the versions, runs, copies, evaluations, annotations and
changes of the bundle made in one behaviour. Three of them are a version, an evaluation and
one compared with it; a version, a run and its replay or fork; two versions that overlap or
refer to each other and a run or an evaluation; or a version, a run and a change of the
policy under it. Deploying is not counted.

For workflows, `MaxRoots` bounds what callers start or fork; the other executions can
only be children. Two executions are a parent and its child, or a run and its fork, and two
workers are a claim and its recovery, or parent and child advanced at once. Three
executions make one of them parent and child at the same time; there a single worker is
affordable, and a dead worker's claim and its recovery are two claims anyway. What two
nested children advancing together add, one waiting for the other's lock on a timeout
event (`SettlementBlocked`), only delays a step. `MaxSteps` is the length of the longest path,
except for the loop of `workflow_mixed`, which it cuts short on one of two ways.

Deadlock is not checked where the system may come to rest with every action final.

Fairness. `run_forever` repeats `process_once` and swallows exceptions, so a worker that
has claimed goes on to dispatch and settle (weak fairness; `WorkerFails` may still take
the claim away), and its HTTP client has a timeout, so it does not wait for ever. A ready
or due action is claimed if it is claimable again and again (strong fairness): workers
are busy with other actions in between, and the outbox query takes the oldest event
first. Leases and delays run out. The same holds of workflow workers: `process_once`
finalizes before it claims, and an execution that is claimable, or claimed and advanced,
again and again is advanced in the end, since a worker does not die in every transaction
(strong fairness per execution, and at a tool or agent node). Callers, operators, the
gateway and the provider owe nothing. `releases` states no fairness: `VerdictIsComing` is
the invariant that an unfinished evaluation or replay has an execution still to end.

## Findings

1. **A reconciliation claim is never recovered.** `claim_reconciliation` selects expired
   leases of `executing` actions only. A worker that dies between claiming a
   reconciliation and settling it leaves the action `reconciling`, its run open and its
   budget reserved, for ever. `ARCHITECTURE.md:214` promises "Lease expires; reconcile
   provider state". Run `orphaned_reconciliation`; `ParentLeavesNode` exempts this
   case for actions (as it does the dead-letter queue and finding 4) and for model calls,
   whose query is the same.
2. **A denied reconciliation releases the budget.** `dispatch` maps every 4xx of the
   gateway to a failure in both modes, so a lease that expired before the recheck of a
   reconciliation fails an action whose execution was sent. ADR 0007 keeps reservations
   "until provider reconciliation becomes unambiguous". Run `denied_reconciliation`.
   For a denied *execution* the mapping is right: `DeniedExecutionSentNothing`.
3. **Concurrent redrives pass the allowance.** The checks of `redrive_dead_letter` are
   made on the row as it was before the locks. ADR 0008 says that concurrent redrives
   fail. Run `stale_redrive`; with one operator at a time the allowance is proved.
4. **Cancelling the run of a tool call strands its workflow.** `cancel_run` rejects the
   action and does not look at the tool call. The timeout finds an action it can neither
   cancel nor wait for, marks the call `reconciliation_required` and is used up. ADR 0014
   keeps a parent suspended only "once execution could have reached the provider". Run
   `stranded_tool_call`; the properties of tool calls name the case (`Stranded`).
5. **A join inside a loop stops waiting.** `_node_ready` looks for a join's predecessors
   in `completed_nodes_json`, which keeps the nodes of earlier iterations. In the second
   iteration a join whose id sorts before one of its branches runs first.
   `ARCHITECTURE.md:105` promises that branches "join only after every predecessor has
   completed". Run `looped_join`; the property holds as long as no join runs a second time
   (`JoinsWaitTheFirstTime`, for every definition).

Noted without a run: a join also runs a second time, without a loop, behind a node of a
fan-out that is no join and has two incoming edges, which the deployment rules allow and
`_next_nodes` makes current after each of them; a lookup that overtakes the execution it asks about gets a 404, which
is final, and what the provider does afterwards is neither recorded nor charged (one of the
two exceptions `ServedIsCharged` names); nothing bounds the usage a provider reports, so a
budget can be overspent by the difference to the estimates (`OverspendIsReported`); two
overlapping deployments leave two active versions (`OneServesUnlessOverlapped`); and
deploying a superseded version again returns it superseded.

## Proofs

Every safety invariant, action property and refinement of a passing run has a theorem
that states it for all values of the constants; `JoinsWaitForAll`, which is not true of
all definitions (finding 5), has one with the condition under which it is. The
assumptions are the named ones of the modules:

| Assumption | Says |
| --- | --- |
| `BudgetAssumption`, `ScopeAssumption` | finitely many actions; positive estimates; natural limits; scopes of known types |
| `ActionsAssumption`, `ModelAssumption` | `MaxReconciliation > 0`; any `MaxRedrives`; any reported usage |
| `DeploymentAssumption`, `EngineAssumption` | the definitions satisfy the structural rules a deployment checks; any `MaxSteps` |
| `DefinitionAssumption` | definitions are non-empty sequences of typed nodes, and subworkflow nodes are the ones that refer to a version |
| `DatasetAssumption`, `BundleAssumption` | finitely many scenarios, at least one; minimum and allowed regression are scores; the first bundle is one of the bundles |
| `IdentityAssumption` | executions of different kinds have different identifiers |

*Ledger.* `LedgerInv` is types, limits and balance; balance is what makes it inductive,
because a settlement must find at least its own estimate reserved. From it:
`NeverOverspent`, `TotalsMatchRows`, `NeverStuck`.

*Actions.* `IndInv` (at the end of `GovernedActions`, and an invariant of
`tool_calls`) has three parts, proved separately for every action of the module:

- `TypeOK`;
- `RowsInv`: approval, run, outbox, reservations, dead letter and evidence of an action
  are functions of its state. `RowOK(a)` says it for one action and `OneRowChanges`
  reduces a step to the action it writes;
- `FlightInv`: every claim a worker or request carries was issued (`ClaimsIssued`), the
  first claim and no other executes, and an execution is with its worker, or in one
  request, or sent, but never in two places (`ExecutionIsOnePlace`). This is the
  strengthening `ExecutedAtMostOnce` needs: the count alone does not exclude a second
  request in flight. `AnswersAreTrue` ties an answer in a worker's memory to the effect
  it reports, for `CommittedHasEffect`.

`StepInv` assembles them, with one case per action. From it: the invariants of actions,
`FinalStaysFinal` (each step writes one action, found in a non-final state),
`ActionsImplementLedger` (`Spec => LedgerSpec`, so the ledger's theorems carry over:
`ActionsNeverOverspend`), and `LoneOperatorStaysWithinAllowance`.

*Tool calls.* `ToolCallsImplementActions` maps every step of the composition to a step of
`GovernedActions` or a stutter, so every theorem above holds of actions under tool nodes.
`CallsInv` says, for one call, which of the three events is open given the call, the action
and the parent (`CallOK`). It is inductive only beside `IndInv`: the timeout may reject an
action because `ready` there means that no worker has claimed it. `OneCallChanges` reduces a
step to the call it writes. From the two invariants: `CallsFollowActions`,
`NothingCancelledAfterDispatch`, `ParentsWaitForOutcomes`, `WakesAreNotLost`,
`EndedStaysEnded`.

*Model calls.* `IndInv` of `ModelCalls` is kept in five parts, each step proved once for
each: types (`StepTypes`); claims, requests and what answers prove (`StepFlight`, the
argument of actions again, but with a timeout that takes the claim away while its execution
is in flight); call, parent and events (`StepCalls`); reservations and charges
(`StepCharges`, which needs the second part, because only a call that was never sent may
time out); and that what is still held is not charged yet (`StepUncharged`). From it:
`NeverGeneratedTwice`, `ChargesAreKept`, `ServedCallsAreCharged`, `ModelWakesAreNotLost`,
`ModelEndedStaysEnded`.

`OverspendingIsReported` bounds each budget by its limit and a sum over all actions.
`StepLedger` reduces a step to what it may do to the ledger: reserve for one holder, or
settle one holder's rows. A reservation is checked against the limit; a settlement gives
the estimate back and spends at most that and the overrun it records, because the row it
settles was uncharged (`UnchargedWhileHeld`). That changing one term changes the sum by the
difference (`OneChargeChanges`) is shown by the smallest counterexample: the subsets of a
finite set are well-founded, and a smallest set for which two tables of partial sums
disagree would have a smaller one.

*Engine.* `EngineInv` says what each live execution awaits: the event of its step, or of
its open wait or call, and that exactly this event is in the outbox or with the claim that
took it (`EventsFit`); that calls and children agree (`CallFits`), waits belong to the step
they were made for (`WaitFits`), each step has at most one call (`OneCallAStep`), and a
worker between the two halves of `advance` still has its claim (`ClaimFits`). None of the
conjuncts is inductive alone: a wake finds the row it expects because the row's event was
the only one open, and a child's settlement is safe because the trigger refuses it when the
parent has settled the call in between. `EngineIsConsistent` has one case per action. From it:
`NoExecutionIsStranded`, `NoEventSurprises`, `CallsAgreeWithChildren`, `NoStepIsSkipped`.
`EveryShape` reduces each step to one of four effects on progress (nothing, an end, a
completed node, a new execution), from which `RunsAreSequential` (the refinement of
`WorkflowRuns`), `EvidenceIsFinal` and `PredecessorsRunFirst` follow.
`JoinsWaitTheFirstTime` is `JoinsWaitForAll` where no join runs twice.

*Releases.* `ReleasesInv` relates deployments under way to the rows they read
(`DeploymentsFit`), every execution's row to its version, kind and policy decision
(`RowsFit`), uncommitted last transactions to the rows they will replace (`EndingsFit`),
evaluations to results and to unfinished executions (`EvaluationsFit`) and replays to
theirs (`ReplaysFit`). The uncommitted end is what makes the rest necessary: two scenarios
may both have ended before either has locked the evaluation, and each must then count what
the other committed. `Sound` names the versions whose references pass the checks;
definitions are immutable, so a version once deployed stays sound, and no subworkflow of an
experiment reaches a tool. From it: `DeployedWorkflowsServe`, `OnlyOverlapsShareAWorkflow`,
`ExperimentsHaveNoEffects`, `TheLastResultCompletes`, `NoVerdictIsForgotten`,
`GatesAreEarned`, `NoVerdictIsRevised`, `PoliciesAreCurrent`. `GatesAreEarned` undoes the
rounding: a mean at the minimum means a total at the minimum times the number of scenarios.

Most leaves name Zenon, which needs no arithmetic encoding of the state; arithmetic is done
in steps of its own over names for the numbers involved.

Only model-checked: the liveness properties (`ParentLeavesNode` of tool calls and of model
calls, `EveryRunEnds`, `OrphansStop`), because liveness under fairness is out of the
prover's reach; `JoinsWaitForAll` without its condition, on the definitions of
`workflow_mixed`; and the counterexamples of the findings.

## Not modelled, and why

- Authentication and row-level security: credential checks and filters, no protocol of
  steps. Cryptography, digests and canonical form: abstracted to equality of what they bind.
- Traces and audit events: written by every handler and read by no guard. The audit chain is
  numbered under an advisory lock, so its order is the order of the commits.
- The stateless MCP and A2A translation, telemetry, CLI, SDK, adapters, web UI and seed
  data: clients without state of their own.
- The catalogue of tools, model routes and policy bundles: operators change it, and the
  handlers' checks of it appear as refusals (`RefuseTool`, `RefuseModel`) and, for bundles, as
  `ChangeBundle`.
- Lock order: a transaction the database aborts is a step that does not happen.
- The engine at full detail with tool and agent nodes in one graph: their modules reduce the
  engine to one node and `WorkflowEngine` has every other kind of node. The events of a tool
  or agent node are named by its call and only wake its parent at that node, so what the
  two views share is the claim, which both have.
