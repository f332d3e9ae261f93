-------------------------- MODULE GovernedActions --------------------------
(***************************************************************************)
(* The life of governed actions: creation with a policy decision and       *)
(* budget reservations, one-use approval, the action.ready outbox event,   *)
(* the worker's claim, dispatch and settlement, the gateway's final        *)
(* authorization, the provider, reconciliation, dead letters and redrive.  *)
(*                                                                         *)
(* One step is one database transaction or one message.  Clocks are        *)
(* abstracted to what the code compares them with: a lease is live or      *)
(* expired, a reconciliation is due or not, an approval or a policy        *)
(* decision has lapsed or not, and each may lapse at any moment.  A claim  *)
(* token is the number of the claim that issued it, so two claims of one   *)
(* action never share a token.  Digests, encryption, traces, audit rows    *)
(* and evidence contents are data no guard of these handlers depends on    *)
(* once the rows are immutable, and are left out.                          *)
(***************************************************************************)
EXTENDS Budgets

CONSTANTS
    Worker,             \* worker processes
    Operator,           \* callers of the redrive endpoint
    MaxReconciliation,  \* max_reconciliation_attempts
    MaxRedrives         \* max_dlq_redrives

ASSUME ActionsAssumption ==
    /\ MaxReconciliation \in Nat \ {0}
    /\ MaxRedrives \in Nat

VARIABLES
    run,          \* [Action -> runs.status]
    state,        \* [Action -> actions.state, "none" before creation]
    approval,     \* [Action -> approval_requests.status, "none" without one]
    ready,        \* [Action -> where its action.ready outbox event stands]
    claim,        \* [Action -> the token of its latest claim, 0 before any]
    lease,        \* [Action -> lease_expires_at against now]
    due,          \* [Action -> next_reconcile_at is null or reached]
    attempts,     \* [Action -> execute_attempts]
    cycle,        \* [Action -> reconcile_cycle_attempts]
    errorCode,    \* [Action -> actions.error_code]
    deadLetter,   \* [Action -> its dead_letters row]
    evidence,     \* [Action -> what its signed evidence bundle says]
    lapsed,       \* [Action -> which of its expiries have passed]
    worker,       \* [Worker -> what process_once holds in memory]
    redrive,      \* [Operator -> the dead-letter row redrive_dead_letter loaded]
    request,      \* requests inside the gateway
    effect,       \* [Action -> the provider has its effect]
    sent,         \* history: [Action -> execution requests sent to the provider]
    redriven      \* history: [Action -> redrives accepted]

rowVars == <<run, state, approval, ready, claim, lease, due, attempts, cycle,
             errorCode, deadLetter, evidence>>
historyVars == <<sent, redriven>>
vars == <<rowVars, lapsed, worker, redrive, request, effect, historyVars, ledgerVars>>

ActionStates == {"none", "proposed", "approved", "rejected", "executing",
    "reconciling", "reconciliation_required", "dead_lettered", "committed", "failed"}
RunStates == {"none", "authorizing", "waiting_for_approval", "queued", "running",
    "reconciliation_required", "dead_lettered", "completed", "failed", "cancelled"}
Modes == {"execute", "reconcile"}
Replies == {"committed", "rejected", "absent", "denied", "unknown"}
ErrorCodes == {"none", "provider_rejected", "provider_confirmed_absent",
    "gateway_denied", "outcome_unknown", "dlq_redrive_reconciliation_pending",
    "workflow_tool_timed_out_before_effect"}

\* The states in which the provider may or may not hold the effect.
Uncertain == {"executing", "reconciling", "reconciliation_required", "dead_lettered"}

ClaimState(mode) == IF mode = "execute" THEN "executing" ELSE "reconciling"

IdleWorker == [pc |-> "idle", action |-> "none", claim |-> 0, mode |-> "execute",
               reply |-> "unknown"]
NoDeadLetter == [status |-> "none", redrives |-> 0, version |-> 0]
NoEvidence == [sealed |-> FALSE]
NoRedrive == [action |-> "none", row |-> NoDeadLetter, expected |-> 0]

Init ==
    /\ LedgerInit
    /\ run = [a \in Action |-> "none"]
    /\ state = [a \in Action |-> "none"]
    /\ approval = [a \in Action |-> "none"]
    /\ ready = [a \in Action |-> "none"]
    /\ claim = [a \in Action |-> 0]
    /\ lease = [a \in Action |-> "none"]
    /\ due = [a \in Action |-> TRUE]
    /\ attempts = [a \in Action |-> 0]
    /\ cycle = [a \in Action |-> 0]
    /\ errorCode = [a \in Action |-> "none"]
    /\ deadLetter = [a \in Action |-> NoDeadLetter]
    /\ evidence = [a \in Action |-> NoEvidence]
    /\ lapsed = [a \in Action |-> {}]
    /\ worker = [w \in Worker |-> IdleWorker]
    /\ redrive = [o \in Operator |-> NoRedrive]
    /\ request = {}
    /\ effect = [a \in Action |-> FALSE]
    /\ sent = [a \in Action |-> 0]
    /\ redriven = [a \in Action |-> 0]
-----------------------------------------------------------------------------
(* Control API.                                                            *)

\* Mutant: a key is forgotten once its action is final.
FreshOnceFinal(a) ==
    run[a] = "authorizing" \/ state[a] \in {"none", "rejected", "committed", "failed"}

\* The idempotency key is new; a replayed key returns the run it made.
FreshKey(a) == run[a] = "none" /\ state[a] = "none"

\* Every other decision of the policy is refused, and so is a missing, invalid
\* or mismatched bundle.
ExecutableEffects == {"allow", "require_approval"}

\* create_governed_action with an ALLOW decision commits an executable action
\* and its outbox event; with REQUIRE_APPROVAL a proposed one and its request.
\* Exhausted budgets change nothing.
CreateGovernedAction(a, effectOfPolicy) ==
    /\ FreshKey(a)
    /\ ReserveBudgets(a)
    /\ \/ /\ effectOfPolicy = "require_approval"
          /\ state' = [state EXCEPT ![a] = "proposed"]
          /\ approval' = [approval EXCEPT ![a] = "pending"]
          /\ run' = [run EXCEPT ![a] = "waiting_for_approval"]
          /\ UNCHANGED ready
       \/ /\ effectOfPolicy = "allow"
          /\ state' = [state EXCEPT ![a] = "approved"]
          /\ run' = [run EXCEPT ![a] = "queued"]
          /\ ready' = [ready EXCEPT ![a] = "ready"]
          /\ UNCHANGED approval
    /\ UNCHANGED <<claim, lease, due, attempts, cycle, errorCode, deadLetter,
                   evidence, lapsed, worker, redrive, request, effect, historyVars>>

\* The workflow engine calls create_governed_action for a tool node, catches
\* what it raises and commits: after an exhausted budget the run flushed before
\* the reservation stays, without an action.
LeaveRunAuthorizing(a) ==
    /\ FreshKey(a)
    /\ ~(Covered(a) /\ HasRoom(a))
    /\ run' = [run EXCEPT ![a] = "authorizing"]
    /\ UNCHANGED <<state, approval, ready, claim, lease, due, attempts, cycle, errorCode,
                   deadLetter, evidence, lapsed, worker, redrive, request, effect,
                   historyVars, ledgerVars>>

\* Mutant: the request is decided more than once.
DecidableAgain(a) == approval[a] # "none" /\ "approval" \notin lapsed[a]

\* The approval row is locked and still pending, and its expiry not reached.
\* Past the expiry the handler marks the row expired and then raises, so the
\* rollback leaves it pending.
Decidable(a) == approval[a] = "pending" /\ "approval" \notin lapsed[a]

Approve(a) ==
    /\ Decidable(a)
    /\ approval' = [approval EXCEPT ![a] = "approved"]
    /\ state' = [state EXCEPT ![a] = "approved"]
    /\ run' = [run EXCEPT ![a] = "queued"]
    /\ ready' = [ready EXCEPT ![a] = "ready"]
    /\ UNCHANGED <<claim, lease, due, attempts, cycle, errorCode, deadLetter,
                   evidence, lapsed, worker, redrive, request, effect, historyVars, ledgerVars>>

\* What a denial and a cancellation both write.
RejectBeforeEffect(a) ==
    /\ approval' = [approval EXCEPT ![a] = "denied"]
    /\ state' = [state EXCEPT ![a] = "rejected"]
    /\ run' = [run EXCEPT ![a] = "cancelled"]
    /\ ReleaseActionReservations(a)
    /\ UNCHANGED <<ready, claim, lease, due, attempts, cycle, errorCode, deadLetter,
                   evidence, lapsed, worker, redrive, request, effect, historyVars>>

Deny(a) == Decidable(a) /\ RejectBeforeEffect(a)

\* cancel_run checks the three rows but not the approval's expiry.
CancelRun(a) ==
    /\ run[a] = "waiting_for_approval"
    /\ state[a] = "proposed"
    /\ approval[a] = "pending"
    /\ RejectBeforeEffect(a)

\* What expire_workflow_tool_call does to the action of a tool node whose time
\* is up, while nobody can have dispatched it: the request is still pending, or
\* the outbox event not yet claimed.
ExpireBeforeEffect(a) ==
    /\ \/ /\ state[a] = "proposed"
          /\ approval[a] = "pending"
          /\ approval' = [approval EXCEPT ![a] = "expired"]
          /\ UNCHANGED ready
       \/ /\ state[a] = "approved"
          /\ ready[a] = "ready"
          /\ ready' = [ready EXCEPT ![a] = "processed"]
          /\ UNCHANGED approval
    /\ state' = [state EXCEPT ![a] = "rejected"]
    /\ run' = [run EXCEPT ![a] = "cancelled"]
    /\ errorCode' = [errorCode EXCEPT ![a] = "workflow_tool_timed_out_before_effect"]
    /\ ReleaseActionReservations(a)
    /\ UNCHANGED <<claim, lease, due, attempts, cycle, deadLetter, evidence, lapsed,
                   worker, redrive, request, effect, historyVars>>

\* redrive_dead_letter reads the dead-letter row before it takes any lock.
\* The locked SELECT that follows returns the same identity-mapped object, so
\* status, version and redrive_count are checked as they were first read; the
\* action and run rows are first read under their locks.  A row loaded in any
\* other status is refused whatever happens next.
LoadDeadLetter(o, a) ==
    /\ redrive[o] = NoRedrive
    /\ deadLetter[a].status = "open"
    /\ \E v \in 1 .. deadLetter[a].version :
        redrive' = [redrive EXCEPT ![o] =
            [action |-> a, row |-> deadLetter[a], expected |-> v]]
    /\ UNCHANGED <<rowVars, lapsed, worker, request, effect, historyVars, ledgerVars>>

Redrivable(a, row, expected) ==
    /\ row.status = "open"
    /\ row.version = expected
    /\ row.redrives < MaxRedrives
    /\ state[a] = "dead_lettered"
    /\ run[a] = "dead_lettered"
    /\ lease[a] = "none"

\* The counters are incremented as they were first read.
AcceptRedrive(a, row) ==
    /\ deadLetter' = [deadLetter EXCEPT ![a] =
            [status |-> "redriven", redrives |-> row.redrives + 1, version |-> row.version + 1]]
    /\ state' = [state EXCEPT ![a] = "reconciliation_required"]
    /\ run' = [run EXCEPT ![a] = "reconciliation_required"]
    /\ cycle' = [cycle EXCEPT ![a] = 0]
    /\ due' = [due EXCEPT ![a] = TRUE]
    /\ errorCode' = [errorCode EXCEPT ![a] = "dlq_redrive_reconciliation_pending"]
    /\ redriven' = [redriven EXCEPT ![a] = @ + 1]
    /\ UNCHANGED <<approval, ready, claim, lease, attempts, evidence, lapsed,
                   worker, request, effect, sent, ledgerVars>>

RedriveDeadLetter(o) ==
    LET a == redrive[o].action
        row == redrive[o].row
    IN  /\ redrive[o] # NoRedrive
        /\ redrive' = [redrive EXCEPT ![o] = NoRedrive]
        /\ \/ Redrivable(a, row, redrive[o].expected) /\ AcceptRedrive(a, row)
           \/ /\ ~Redrivable(a, row, redrive[o].expected)
              /\ UNCHANGED <<rowVars, lapsed, worker, request, effect, historyVars, ledgerVars>>
-----------------------------------------------------------------------------
(* Worker.  process_once claims, dispatches and settles one action at a    *)
(* time; what it holds between the three lives in memory only.             *)

\* Mutant: a claim keeps the token of the one before it.
TakeAgain(w, a, mode) ==
    /\ claim' = [claim EXCEPT ![a] = 1]
    /\ lease' = [lease EXCEPT ![a] = "live"]
    /\ worker' = [worker EXCEPT ![w] =
            [IdleWorker EXCEPT !.pc = "claimed", !.action = a, !.claim = 1, !.mode = mode]]

\* Both claims issue a fresh token and a lease before any network call.
Take(w, a, mode) ==
    /\ claim' = [claim EXCEPT ![a] = @ + 1]
    /\ lease' = [lease EXCEPT ![a] = "live"]
    /\ worker' = [worker EXCEPT ![w] =
            [IdleWorker EXCEPT !.pc = "claimed", !.action = a,
                               !.claim = claim[a] + 1, !.mode = mode]]

\* Mutant: an execution whose lease expired is executed again.
ReadyOrExpired(a) ==
    \/ ready[a] = "ready" /\ state[a] = "approved"
    \/ state[a] = "executing" /\ lease[a] = "expired"

\* The event of an action that is no longer approved is discarded by the code;
\* ReadyMeansApproved shows that branch is never taken.
ReadyToExecute(a) == ready[a] = "ready" /\ state[a] = "approved"

ClaimReady(w, a) ==
    /\ worker[w].pc = "idle"
    /\ ReadyToExecute(a)
    /\ state' = [state EXCEPT ![a] = "executing"]
    /\ ready' = [ready EXCEPT ![a] = "dispatched"]
    /\ run' = [run EXCEPT ![a] = "running"]
    /\ attempts' = [attempts EXCEPT ![a] = @ + 1]
    /\ Take(w, a, "execute")
    /\ UNCHANGED <<approval, due, cycle, errorCode, deadLetter, evidence, lapsed,
                   redrive, request, effect, historyVars, ledgerVars>>

\* Only an expired execution and a due ambiguity are selected: an expired
\* reconciliation claim is not.
NeedsReconciliation(a) ==
    \/ state[a] = "executing" /\ lease[a] = "expired"
    \/ state[a] = "reconciliation_required" /\ due[a]

ClaimReconciliation(w, a) ==
    /\ worker[w].pc = "idle"
    /\ NeedsReconciliation(a)
    /\ state' = [state EXCEPT ![a] = "reconciling"]
    /\ cycle' = [cycle EXCEPT ![a] = @ + 1]
    /\ Take(w, a, "reconcile")
    /\ UNCHANGED <<run, approval, ready, due, attempts, errorCode, deadLetter,
                   evidence, lapsed, redrive, request, effect, historyVars, ledgerVars>>

Dispatch(w) ==
    /\ worker[w].pc = "claimed"
    /\ worker' = [worker EXCEPT ![w].pc = "waiting"]
    /\ request' = request \cup
            {[action |-> worker[w].action, claim |-> worker[w].claim,
              mode |-> worker[w].mode, stage |-> "received"]}
    /\ UNCHANGED <<rowVars, lapsed, redrive, effect, historyVars, ledgerVars>>

\* Requests survive the worker that made them.  A lookup nobody waits for
\* changes nothing and is dropped.
StopWaiting(w) ==
    request' = {r \in request : r.mode = "reconcile" =>
        <<r.action, r.claim>> # <<worker[w].action, worker[w].claim>>}

\* Mutant: a timeout is taken for success.
TimeoutIsSuccess(w) ==
    /\ worker[w].pc = "waiting"
    /\ worker' = [worker EXCEPT ![w].pc = "answered", ![w].reply = "committed"]
    /\ StopWaiting(w)
    /\ UNCHANGED <<rowVars, lapsed, redrive, effect, historyVars, ledgerVars>>

\* A timeout, a network error, a 5xx or an unreadable body, at the worker or
\* reported by the gateway.  The request may still be on its way.
OutcomeUnknown(w) ==
    /\ worker[w].pc = "waiting"
    /\ worker' = [worker EXCEPT ![w].pc = "answered", ![w].reply = "unknown"]
    /\ StopWaiting(w)
    /\ UNCHANGED <<rowVars, lapsed, redrive, effect, historyVars, ledgerVars>>

\* The process dies, or an exception reaches run_forever, between two steps.
WorkerFails(w) ==
    /\ worker[w].pc # "idle"
    /\ worker' = [worker EXCEPT ![w] = IdleWorker]
    /\ StopWaiting(w)
    /\ UNCHANGED <<rowVars, lapsed, redrive, effect, historyVars, ledgerVars>>

\* settle ignores a claim whose action has moved on: the state must be the
\* claim's and the token the latest.  The lease is not consulted.
HoldsClaim(w) ==
    LET a == worker[w].action
    IN  /\ worker[w].pc # "idle"
        /\ state[a] = ClaimState(worker[w].mode)
        /\ claim[a] = worker[w].claim

\* _create_evidence reads the rows after every update of the settlement.
CreateEvidence(a) ==
    [sealed |-> TRUE, run |-> run'[a], state |-> state'[a],
     approval |-> approval[a], reservation |-> reservation'[a],
     deadLetter |-> deadLetter'[a], attempts |-> attempts[a]]

Resolved(row) ==
    IF row.status \in {"none", "resolved"} THEN row
    ELSE [status |-> "resolved", redrives |-> row.redrives, version |-> row.version + 1]

\* The rows a terminal settlement closes: the outbox event, the dead letter if
\* there is one, and the evidence bundle.
CloseAction(a) ==
    /\ ready' = [ready EXCEPT ![a] = "processed"]
    /\ deadLetter' = [deadLetter EXCEPT ![a] = Resolved(@)]
    /\ evidence' = [evidence EXCEPT ![a] = CreateEvidence(a)]
    /\ UNCHANGED <<due, cycle>>

SettleCommitted(a) ==
    /\ state' = [state EXCEPT ![a] = "committed"]
    /\ run' = [run EXCEPT ![a] = "completed"]
    /\ errorCode' = [errorCode EXCEPT ![a] = "none"]
    /\ SettleActionReservations(a, TRUE)
    /\ CloseAction(a)

\* dispatch turns every 4xx of the gateway, in either mode, into a failure.
FailureCode(reply) ==
    CASE reply = "rejected" -> "provider_rejected"
      [] reply = "absent" -> "provider_confirmed_absent"
      [] reply = "denied" -> "gateway_denied"

SettleFailed(a, reply) ==
    /\ state' = [state EXCEPT ![a] = "failed"]
    /\ run' = [run EXCEPT ![a] = "failed"]
    /\ errorCode' = [errorCode EXCEPT ![a] = FailureCode(reply)]
    /\ SettleActionReservations(a, FALSE)
    /\ CloseAction(a)

\* _dead_letter creates the row, or reopens it keeping its redrive count.
Opened(row) == [status |-> "open", redrives |-> row.redrives, version |-> row.version + 1]

OpenDeadLetter(a) ==
    /\ state' = [state EXCEPT ![a] = "dead_lettered"]
    /\ run' = [run EXCEPT ![a] = "dead_lettered"]
    /\ deadLetter' = [deadLetter EXCEPT ![a] = Opened(@)]
    /\ due' = [due EXCEPT ![a] = TRUE]
    /\ ready' = [ready EXCEPT ![a] = "processed"]

RequireReconciliation(a) ==
    /\ state' = [state EXCEPT ![a] = "reconciliation_required"]
    /\ run' = [run EXCEPT ![a] = "reconciliation_required"]
    /\ due' = [due EXCEPT ![a] = FALSE]
    /\ UNCHANGED <<deadLetter, ready>>

Exhausted(a, mode) == mode = "reconcile" /\ cycle[a] >= MaxReconciliation

SettleAmbiguous(a, mode) ==
    /\ errorCode' = [errorCode EXCEPT ![a] = "outcome_unknown"]
    /\ \/ Exhausted(a, mode) /\ OpenDeadLetter(a)
       \/ ~Exhausted(a, mode) /\ RequireReconciliation(a)
    /\ UNCHANGED <<cycle, evidence, ledgerVars>>

Settle(w) ==
    LET a == worker[w].action
    IN  /\ worker[w].pc = "answered"
        /\ HoldsClaim(w)
        /\ worker' = [worker EXCEPT ![w] = IdleWorker]
        /\ lease' = [lease EXCEPT ![a] = "none"]
        /\ \/ worker[w].reply = "committed" /\ SettleCommitted(a)
           \/ /\ worker[w].reply \in {"rejected", "absent", "denied"}
              /\ SettleFailed(a, worker[w].reply)
           \/ worker[w].reply = "unknown" /\ SettleAmbiguous(a, worker[w].mode)
        /\ UNCHANGED <<approval, claim, attempts, lapsed, redrive, request, effect, historyVars>>

SettleStale(w) ==
    /\ worker[w].pc = "answered"
    /\ ~HoldsClaim(w)
    /\ worker' = [worker EXCEPT ![w] = IdleWorker]
    /\ UNCHANGED <<rowVars, lapsed, redrive, request, effect, historyVars, ledgerVars>>
-----------------------------------------------------------------------------
(* Gateway and provider.                                                   *)

\* authorize_gateway_action, on the rows as they are at that moment.  The
\* governance that can lapse is the policy decision, the policy bundle and the
\* reservations' expiry; only execution rechecks it.
Authorized(r) ==
    LET a == r.action
    IN  /\ state[a] = ClaimState(r.mode)
        /\ lease[a] = "live"
        /\ claim[a] = r.claim
        /\ \A b \in Applicable(a) : reservation[a][b] = "active"
        /\ approval[a] \in {"none", "approved"}
        /\ r.mode = "execute" => "governance" \notin lapsed[a]

\* The answer ends the request; it reaches the worker that still waits for
\* it, or nobody.
Answer(r, reply) ==
    /\ request' = request \ {r}
    /\ \/ UNCHANGED worker
       \/ \E w \in Worker :
            /\ worker[w].pc = "waiting"
            /\ worker[w].action = r.action
            /\ worker[w].claim = r.claim
            /\ worker' = [worker EXCEPT ![w].pc = "answered", ![w].reply = reply]
    /\ UNCHANGED <<rowVars, lapsed, redrive, redriven, ledgerVars>>

\* After the authorization the gateway sends to the provider.
GatewayAuthorizes(r) ==
    /\ r.stage = "received"
    /\ Authorized(r)
    /\ request' = (request \ {r}) \cup {[r EXCEPT !.stage = "egress"]}
    /\ sent' = IF r.mode = "execute" THEN [sent EXCEPT ![r.action] = @ + 1] ELSE sent
    /\ UNCHANGED <<rowVars, lapsed, worker, redrive, effect, redriven, ledgerVars>>

\* Any answer of the control API other than 200 is a 403 to the worker: a
\* refusal, an inactive workload identity or an error of its own.  No answer at
\* all is a 500 of the gateway, and so an unknown outcome.
GatewayDenies(r) ==
    /\ r.stage = "received"
    /\ Answer(r, "denied")
    /\ UNCHANGED <<effect, sent>>

\* The provider keys effects by the action's idempotency key.
ProviderCommits(r) ==
    /\ r.stage = "egress" /\ r.mode = "execute"
    /\ effect' = [effect EXCEPT ![r.action] = TRUE]
    /\ Answer(r, "committed")
    /\ UNCHANGED sent

ProviderRejects(r) ==
    /\ r.stage = "egress" /\ r.mode = "execute"
    /\ ~effect[r.action]
    /\ Answer(r, "rejected")
    /\ UNCHANGED <<effect, sent>>

ProviderLooksUp(r) ==
    /\ r.stage = "egress" /\ r.mode = "reconcile"
    /\ Answer(r, IF effect[r.action] THEN "committed" ELSE "absent")
    /\ UNCHANGED <<effect, sent>>
-----------------------------------------------------------------------------
(* The passage of time.                                                    *)

LeaseExpires(a) ==
    /\ lease[a] = "live"
    /\ lease' = [lease EXCEPT ![a] = "expired"]
    /\ UNCHANGED <<run, state, approval, ready, claim, due, attempts, cycle, errorCode,
                   deadLetter, evidence, lapsed, worker, redrive, request, effect,
                   historyVars, ledgerVars>>

ReconciliationDue(a) ==
    /\ ~due[a]
    /\ due' = [due EXCEPT ![a] = TRUE]
    /\ UNCHANGED <<run, state, approval, ready, claim, lease, attempts, cycle, errorCode,
                   deadLetter, evidence, lapsed, worker, redrive, request, effect,
                   historyVars, ledgerVars>>

Lapse(a, what) ==
    /\ state[a] \in (IF what = "approval" THEN {"proposed"}
                     ELSE {"proposed", "approved", "executing"})
    /\ what \notin lapsed[a]
    /\ lapsed' = [lapsed EXCEPT ![a] = @ \cup {what}]
    /\ UNCHANGED <<rowVars, worker, redrive, request, effect, historyVars, ledgerVars>>
-----------------------------------------------------------------------------
Caller ==
    \E a \in Action :
        \/ \E p \in ExecutableEffects : CreateGovernedAction(a, p)
        \/ LeaveRunAuthorizing(a)
        \/ Approve(a)
        \/ Deny(a)
        \/ CancelRun(a)
        \/ ExpireBeforeEffect(a)
        \/ \E o \in Operator : LoadDeadLetter(o, a)

WorkerStep(w) ==
    \/ \E a \in Action : ClaimReady(w, a) \/ ClaimReconciliation(w, a)
    \/ Dispatch(w)
    \/ OutcomeUnknown(w)
    \/ Settle(w)
    \/ SettleStale(w)

Network ==
    \E r \in request :
        \/ GatewayAuthorizes(r)
        \/ GatewayDenies(r)
        \/ ProviderCommits(r)
        \/ ProviderRejects(r)
        \/ ProviderLooksUp(r)

Clock ==
    \E a \in Action :
        \/ LeaseExpires(a)
        \/ ReconciliationDue(a)
        \/ \E what \in {"approval", "governance"} : Lapse(a, what)

Next ==
    \/ Caller
    \/ \E o \in Operator : RedriveDeadLetter(o)
    \/ \E w \in Worker : WorkerStep(w) \/ WorkerFails(w)
    \/ Network
    \/ Clock

Spec == Init /\ [][Next]_vars
-----------------------------------------------------------------------------
(* Scheduling.  Workers loop for ever, their client times out, leases and  *)
(* delays run down; callers, operators, the gateway, the provider and      *)
(* failures owe nothing.                                                   *)

Fairness ==
    /\ \A w \in Worker :
        /\ WF_vars(Dispatch(w))
        /\ WF_vars(OutcomeUnknown(w))
        /\ WF_vars(Settle(w) \/ SettleStale(w))
    /\ \A a \in Action :
        /\ SF_vars(\E w \in Worker : ClaimReady(w, a))
        /\ SF_vars(\E w \in Worker : ClaimReconciliation(w, a))
        /\ WF_vars(LeaseExpires(a))
        /\ WF_vars(ReconciliationDue(a))

FairSpec == Spec /\ Fairness
-----------------------------------------------------------------------------
(* Properties.                                                             *)

DeadLetterRows ==
    [status : {"none", "open", "redriven", "resolved"}, redrives : Nat, version : Nat]
ApprovalStates == {"none", "pending", "approved", "denied", "expired"}
EvidenceBundles ==
    [sealed : {TRUE}, run : RunStates, state : ActionStates, approval : ApprovalStates,
     reservation : [Budget -> ReservationStatus], deadLetter : DeadLetterRows, attempts : Nat]
WorkerMemory ==
    [pc : {"idle", "claimed", "waiting", "answered"}, action : Action \cup {"none"},
     claim : Nat, mode : Modes, reply : Replies]
LoadedRows == [action : Action \cup {"none"}, row : DeadLetterRows, expected : Nat]
Requests ==
    [action : Action \cup {"none"}, claim : Nat, mode : Modes, stage : {"received", "egress"}]

TypeOK ==
    /\ LedgerTypeOK
    /\ run \in [Action -> RunStates]
    /\ state \in [Action -> ActionStates]
    /\ approval \in [Action -> ApprovalStates]
    /\ ready \in [Action -> {"none", "ready", "dispatched", "processed"}]
    /\ claim \in [Action -> Nat]
    /\ lease \in [Action -> {"none", "live", "expired"}]
    /\ due \in [Action -> BOOLEAN]
    /\ attempts \in [Action -> Nat]
    /\ cycle \in [Action -> Nat]
    /\ errorCode \in [Action -> ErrorCodes]
    /\ deadLetter \in [Action -> DeadLetterRows]
    /\ evidence \in [Action -> {NoEvidence} \cup EvidenceBundles]
    /\ lapsed \in [Action -> SUBSET {"approval", "governance"}]
    /\ worker \in [Worker -> WorkerMemory]
    /\ redrive \in [Operator -> LoadedRows]
    /\ request \subseteq Requests
    /\ effect \in [Action -> BOOLEAN]
    /\ sent \in [Action -> Nat]
    /\ redriven \in [Action -> Nat]

\* ADR 0008: execution is never retried.  However workers crash, leases lapse
\* and operators redrive, at most one execution request of an action is ever
\* sent to the provider, whether or not the provider deduplicates.
ExecutedAtMostOnce == \A a \in Action : sent[a] <= 1

\* Nothing is sent for an action that was not approved, and an action that was
\* denied or cancelled never has an effect: a decision, a cancellation and the
\* worker's claim cannot all win.
EffectNeedsApproval ==
    \A a \in Action :
        (effect[a] \/ sent[a] > 0) =>
            /\ approval[a] \in {"none", "approved"}
            /\ state[a] \in Uncertain \cup {"committed", "failed"}

ReservationIn(s, b) ==
    CASE s = "none" -> "none"
      [] s \in {"proposed", "approved"} \cup Uncertain -> "active"
      [] s = "committed" /\ ResourceOf[b] \notin Releasable -> "committed"
      [] OTHER -> "released"

\* ADR 0007: the reservations stay active exactly as long as the outcome is
\* open, are charged when the effect is known to be committed, and are given
\* back otherwise.
ReservationsFollowAction ==
    \A a \in Action : \A b \in Applicable(a) : reservation[a][b] = ReservationIn(state[a], b)

\* ADR 0005: an indeterminate response is never labelled success.  A committed
\* action has its effect at the provider.
CommittedHasEffect == \A a \in Action : state[a] = "committed" => effect[a]

\* A gateway denial of the execution itself proves that nothing was sent, so
\* recording it as a failure and giving the budget back is sound.
DeniedExecutionSentNothing ==
    \A a \in Action :
        (state[a] = "failed" /\ errorCode[a] = "gateway_denied" /\ cycle[a] = 0) => sent[a] = 0

\* At most one worker can settle an action: a token outlived by a later claim
\* settles nothing.
OneClaimHolder ==
    \A v, w \in Worker :
        (HoldsClaim(v) /\ HoldsClaim(w) /\ worker[v].action = worker[w].action) => v = w

RunsIn(s) ==
    CASE s = "none" -> {"none", "authorizing"}
      [] s = "proposed" -> {"waiting_for_approval"}
      [] s = "approved" -> {"queued"}
      [] s = "rejected" -> {"cancelled"}
      [] s = "executing" -> {"running"}
      [] s = "reconciling" -> {"running", "reconciliation_required"}
      [] s = "committed" -> {"completed"}
      [] OTHER -> {s}

\* The run row, written by every handler beside the action row, tells the
\* caller the same story.
RunFollowsAction == \A a \in Action : run[a] \in RunsIn(state[a])

\* The dead letter is open exactly while its action is dead-lettered, and a
\* redriven one is either under reconciliation or, once settled, resolved.
DeadLetterFollowsAction ==
    \A a \in Action :
        /\ deadLetter[a].status = "open" <=> state[a] = "dead_lettered"
        /\ deadLetter[a].status = "redriven" =>
                state[a] \in {"reconciliation_required", "reconciling"}
        /\ deadLetter[a].status = "resolved" => state[a] \in {"committed", "failed"}

\* The signed evidence bundle exists exactly for settled actions and never
\* disagrees with the rows it was built from.
EvidenceMatchesRows ==
    \A a \in Action :
        /\ evidence[a].sealed <=> state[a] \in {"committed", "failed"}
        /\ evidence[a].sealed =>
            evidence[a] = [sealed |-> TRUE, run |-> run[a], state |-> state[a],
                           approval |-> approval[a], reservation |-> reservation[a],
                           deadLetter |-> deadLetter[a], attempts |-> attempts[a]]

\* An undispatched action.ready event always finds its action approved: the
\* worker never has to discard one.
ReadyMeansApproved == \A a \in Action : ready[a] = "ready" <=> state[a] = "approved"

\* ADR 0008: an action is redriven at most max_dlq_redrives times.
RedrivesBounded == \A a \in Action : redriven[a] <= MaxRedrives

KeepsFinal ==
    \A a \in Action :
        state[a] \in {"rejected", "committed", "failed"} =>
            UNCHANGED <<state[a], run[a], reservation[a], errorCode[a]>>

\* Rejected, committed and failed are final, for the action, its run and its
\* reservations alike, whatever a late worker or a second decision tries.
FinalIsFinal == [][KeepsFinal]_vars

\* A claimed reconciliation whose worker is gone.
Orphaned(a) ==
    state[a] = "reconciling" /\ ~\E w \in Worker : worker[w].action = a /\ HoldsClaim(w)

\* ARCHITECTURE.md: after a crash between claim and receipt the lease expires
\* and the provider state is reconciled.  So no claim keeps an action for ever.
ClaimsAreRecovered ==
    \A a \in Action :
        state[a] \in {"executing", "reconciling"} ~> state[a] \notin {"executing", "reconciling"}

\* ADR 0007: an ambiguous effect keeps its reservations until the provider
\* gives an unambiguous answer.  A denial by the gateway is no such answer once
\* an execution has been sent.
HeldUntilProviderAnswers ==
    \A a \in Action :
        (sent[a] > 0 /\ errorCode[a] = "gateway_denied") =>
            \A b \in Applicable(a) : reservation[a][b] = "active"
-----------------------------------------------------------------------------
(* The inductive invariant behind the safety properties.                   *)

\* What a worker or a request carries was issued by a claim, and the first
\* claim of an action, and no other, is to execute it.
Issued(t) ==
    /\ t.action \in Action
    /\ t.claim \in 1 .. claim[t.action]
    /\ t.mode = "execute" <=> t.claim = 1

ClaimsIssued ==
    /\ \A a \in Action :
        /\ claim[a] = 0 <=> state[a] \in {"none", "proposed", "approved", "rejected"}
        /\ state[a] = "reconciling" => cycle[a] > 0
    /\ \A w \in Worker : worker[w].pc # "idle" => Issued(worker[w])
    /\ \A r \in request : Issued(r)
    /\ \A v, w \in Worker :
        (/\ worker[v].pc # "idle" /\ worker[w].pc # "idle"
         /\ worker[v].action = worker[w].action /\ worker[v].claim = worker[w].claim) => v = w

\* An execution is still with the worker that claimed it, or is one request on
\* its way to the gateway, or was sent: never two of the three.
ExecutionIsOnePlace ==
    /\ \A a \in Action :
        /\ sent[a] <= 1
        /\ sent[a] > 0 => claim[a] > 0
        /\ effect[a] => sent[a] > 0
    /\ \A r \in request :
        r.mode = "execute" => (r.stage = "received" <=> sent[r.action] = 0)
    /\ \A w \in Worker :
        (worker[w].pc = "claimed" /\ worker[w].mode = "execute") =>
            /\ sent[worker[w].action] = 0
            /\ \A r \in request : ~(r.action = worker[w].action /\ r.mode = "execute")

\* What an answered worker is about to record.
AnswersAreTrue ==
    \A w \in Worker : worker[w].pc = "answered" =>
        /\ worker[w].reply = "committed" => effect[worker[w].action]
        /\ (worker[w].reply = "denied" /\ worker[w].mode = "execute") =>
            /\ sent[worker[w].action] = 0
            /\ \A r \in request : ~(r.action = worker[w].action /\ r.mode = "execute")

\* The decision and the reservations beside the action's state.
ApprovalFollowsAction ==
    \A a \in Action :
        /\ approval[a] = "pending" <=> state[a] = "proposed"
        /\ approval[a] \in {"denied", "expired"} => state[a] = "rejected"
        /\ \A b \in Budget \ Applicable(a) : reservation[a][b] = "none"

\* Each conjunct is kept by every step, given the others.
IndInv ==
    /\ TypeOK
    /\ ClaimsIssued
    /\ ExecutionIsOnePlace
    /\ AnswersAreTrue
    /\ ApprovalFollowsAction
    /\ ReservationsFollowAction
    /\ RunFollowsAction
    /\ ReadyMeansApproved
    /\ DeadLetterFollowsAction
    /\ CommittedHasEffect
    /\ DeniedExecutionSentNothing
    /\ EvidenceMatchesRows
=============================================================================
