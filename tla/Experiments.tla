---------------------------- MODULE Experiments ----------------------------
(***************************************************************************)
(* What deployments are run for: live runs, checkpoint forks, replays of   *)
(* completed runs, and evaluations of a dataset with a release gate; with  *)
(* simulation profiles, node policies and graders.                         *)
(*                                                                         *)
(* The engine is abstracted to what these services see of it: an execution *)
(* advances by one node of its definition per transaction, waits at an     *)
(* approval, ends, or is cancelled and finalized (WorkflowEngine has the   *)
(* rest).  A referenced subworkflow is one step of its parent; its own     *)
(* executions are live whatever the mode of the parent.  The transaction   *)
(* that ends an execution of an evaluation has two steps, because it       *)
(* queues behind the lock on the evaluation row.                           *)
(*                                                                         *)
(* state_json is the sequence of the results of the nodes on the path.     *)
(***************************************************************************)
EXTENDS Deployments, Policy, FiniteSetsExt

CONSTANTS
    Root,           \* live runs
    Copy,           \* forks and replays
    Evaluation,     \* evaluations, which are their idempotency keys
    BaselineOf,     \* [Evaluation -> baseline_evaluation_id, which the key is bound to]
    Scenario,       \* scenario keys of the dataset version
    Dataset,        \* [Scenario -> [output, path, required, forbidden, maximum]]
    Minimum,        \* minimum_score_milli
    MaxRegression,  \* maximum_regression_milli
    Context,        \* the PolicyContext of the nodes
    InitialBundle,  \* the policy bundle the definitions were deployed with
    Bundles,        \* what operators make of the policy bundle
    MaxRequests,    \* bound: versions, runs, copies, evaluations and annotations that
                    \* are made, and changes of the policy bundle
    None            \* no baseline, result, source or transaction

VARIABLES
    exec,         \* [Execution -> workflow_executions row]
    ending,       \* [Execution -> the row as its uncommitted last transaction has it]
    profile,      \* a simulation profile exists
    effects,      \* executions below which a governed tool action was created
    replay,       \* [Copy -> workflow_replays.status, "none" for a fork]
    evaluation,   \* [Evaluation -> evaluations row]
    results,      \* [Evaluation -> [Scenario -> evaluation_results row]]
    annotations,  \* [Evaluation \X Scenario that is annotated]
    bundle,       \* the policy bundle the nodes reference
    changes       \* how often it has changed

experimentVars == <<exec, ending, profile, effects, replay, evaluation, results,
                    annotations, bundle, changes>>
vars == <<deploymentVars, experimentVars>>

Execution == Root \cup Copy \cup (Evaluation \X Scenario)
Terminal == {"completed", "failed", "cancelled"}
Live == {"queued", "waiting"}

Points == 0..1000

Decisions ==
    [seq : Int, effect : {"none", "allow", "deny"},
     digest : {NoDocument} \cup {b.document : b \in Bundles}]
Rows ==
    [status : Live \cup Terminal \cup {"none"}, mode : {"live", "simulation"},
     purpose : {"none", "run", "fork", "replay", "evaluation"},
     version : Version \cup {NoVersion}, source : Execution \cup {None}, base : Nat,
     at : Nat, path : Seq(Nat \ {0}), data : Seq({"approved", "denied", "simulated", "receipt", "done"}),
     answer : {"none", "approved", "denied"},
     decision : Decisions, allowed : SUBSET Nat, finalized : BOOLEAN]
Endings == [row : Rows, seen : SUBSET Scenario]
EvaluationRows ==
    [status : {"none", "running", "completed"}, version : Version \cup {NoVersion},
     mode : {"live", "simulation"}, score : Points, gate : {"pending", "passed", "failed"},
     regression : {"none", "not_configured", "passed", "failed"}]
ResultRows == [score : Points, passed : BOOLEAN]

\* create_evaluation_dataset accepts the scenario.
Accepted(scenario) == scenario.required \cap scenario.forbidden = {}

ASSUME DatasetAssumption ==
    /\ Scenario # {}
    /\ BaselineOf \in [Evaluation -> Evaluation \cup {None}]
    /\ IsFiniteSet(Scenario)
    /\ \A s \in Scenario : Accepted(Dataset[s])
    /\ Minimum \in Points /\ MaxRegression \in Points
    /\ MaxRequests \in Nat

\* Executions of different kinds have different identifiers, and None is no row.
ASSUME IdentityAssumption ==
    /\ Root \cap Copy = {}
    /\ (Root \cup Copy) \cap (Evaluation \X Scenario) = {}
    /\ None \notin Endings /\ None \notin ResultRows

ASSUME BundleAssumption == InitialBundle \in Bundles

NoExecution ==
    [status |-> "none", purpose |-> "none", mode |-> "live", version |-> NoVersion,
     source |-> None, base |-> 0, at |-> 0, path |-> <<>>, data |-> <<>>,
     answer |-> "none", decision |-> NoDecision, allowed |-> {}, finalized |-> FALSE]
NoEvaluation ==
    [status |-> "none", version |-> NoVersion, mode |-> "live",
     score |-> 0, gate |-> "pending", regression |-> "none"]

Init ==
    /\ DeploymentsInit
    /\ exec = [e \in Execution |-> NoExecution]
    /\ ending = [e \in Execution |-> None]
    /\ profile = FALSE
    /\ effects = {}
    /\ replay = [c \in Copy |-> "none"]
    /\ evaluation = [v \in Evaluation |-> NoEvaluation]
    /\ results = [v \in Evaluation |-> [s \in Scenario |-> None]]
    /\ annotations = {}
    /\ bundle = InitialBundle
    /\ changes = 0

-----------------------------------------------------------------------------
\* Requests: _create_execution_records, from a start or a checkpoint.
MoreRequests ==
    Cardinality(versions) + Cardinality({e \in Root \cup Copy : exec[e].status # "none"})
        + Cardinality({ev \in Evaluation : evaluation[ev].status # "none"})
        + Cardinality(annotations) + changes < MaxRequests
Fresh(v, purpose, mode) ==
    [NoExecution EXCEPT !.status = "queued", !.purpose = purpose, !.mode = mode,
                        !.version = v, !.at = 1]

\* create_simulation_profile; profiles are immutable and stay active.  One is of no
\* consequence before some version has a tool, and the model waits for that.
CreateProfile ==
    /\ ~ profile
    /\ \E v \in versions : "tool" \in TypesIn(v)
    /\ profile' = TRUE
    /\ UNCHANGED <<deploymentVars, exec, ending, effects, replay, evaluation, results,
                   annotations, bundle, changes>>

\* deployment_contains_effectful_tools
Effectful(v) == \E u \in {v} \cup Descendants(v) : "tool" \in TypesIn(u)

\* Mutant: an effectful deployment runs live when no profile is named.
ProfileIfNamed(v, named) == named => Effectful(v) /\ profile

\* require_simulation_profile returns: a profile is named if and only if v has tools.
ProfileFits(v, named) == named = Effectful(v) /\ (named => profile)
ModeOf(named) == IF named THEN "simulation" ELSE "live"

StartRun(e, v) ==
    /\ e \in Root
    /\ exec[e].status = "none" /\ MoreRequests
    /\ Active(v)
    /\ exec' = [exec EXCEPT ![e] = Fresh(v, "run", "live")]
    /\ UNCHANGED <<deploymentVars, ending, profile, effects, replay, evaluation, results,
                   annotations, bundle, changes>>

\* run_checkpoints of e: one at its start and one after every node it completed.
Checkpoints(e) == exec[e].base .. Len(exec[e].path)
NodeAfter(e, k) == IF k = Len(exec[e].path) THEN exec[e].at ELSE exec[e].path[k + 1]
Terminates(e, k) == NodeAfter(e, k) > Len(Definition[exec[e].version])

FromCheckpoint(e, k, purpose, mode) ==
    [Fresh(exec[e].version, purpose, mode) EXCEPT
        !.source = e, !.base = k, !.at = NodeAfter(e, k),
        !.path = SubSeq(exec[e].path, 1, k), !.data = SubSeq(exec[e].data, 1, k)]

\* fork_workflow_run and create_workflow_replay, which takes completed sources only.
\* Deployments are active or superseded, and both will do.
CopyRun(c, e, k, named, purpose) ==
    /\ c \in Copy
    /\ exec[c].status = "none" /\ MoreRequests
    /\ exec[e].status # "none"
    /\ purpose = "replay" => exec[e].status = "completed"
    /\ ~ Terminates(e, k)
    /\ ProfileFits(exec[e].version, named)
    /\ exec' = [exec EXCEPT ![c] = FromCheckpoint(e, k, purpose, ModeOf(named))]
    /\ replay' = IF purpose = "replay" THEN [replay EXCEPT ![c] = "running"] ELSE replay
    /\ UNCHANGED <<deploymentVars, ending, profile, effects, evaluation, results,
                   annotations, bundle, changes>>

\* A baseline is complete and was run in the same mode.
BaselineFits(b, named) ==
    b # None => evaluation[b].status = "completed" /\ evaluation[b].mode = ModeOf(named)

StartEvaluation(ev, v, named) ==
    /\ evaluation[ev].status = "none" /\ MoreRequests
    /\ Active(v)
    /\ ProfileFits(v, named)
    /\ BaselineFits(BaselineOf[ev], named)
    /\ evaluation' = [evaluation EXCEPT ![ev] =
           [NoEvaluation EXCEPT !.status = "running", !.version = v, !.mode = ModeOf(named)]]
    /\ exec' = [e \in Execution |->
           IF e \in {ev} \X Scenario THEN Fresh(v, "evaluation", ModeOf(named)) ELSE exec[e]]
    /\ UNCHANGED <<deploymentVars, ending, profile, effects, replay, results, annotations,
                   bundle, changes>>

-----------------------------------------------------------------------------
\* Graders and the settlement of evaluations and replays.
Grades(s, x, ev) ==
    LET succeeded == x.status = "completed"
        want == Dataset[s]
    IN  <<succeeded /\ x.data = want.output,
          succeeded /\ (want.path = <<>> \/ x.path = want.path),
          succeeded /\ x.version = evaluation[ev].version,
          want.required \subseteq x.allowed,
          succeeded /\ Range(x.path) \cap want.forbidden = {} /\ Len(x.path) <= want.maximum>>

\* Mutant: the passing graders are counted and not averaged.
NotAveraged(grades) == 1000 * Cardinality({i \in DOMAIN grades : grades[i]})

Score(grades) == (1000 * Cardinality({i \in DOMAIN grades : grades[i]})) \div Len(grades)

ResultOf(s, x, ev) ==
    [score |-> Score(Grades(s, x, ev)),
     passed |-> \A i \in DOMAIN Grades(s, x, ev) : Grades(s, x, ev)[i]]

Total(rows) == MapThenSumSet(LAMBDA s : rows[s].score, Scenario)
Mean(rows) == Total(rows) \div Cardinality(Scenario)

\* Mutant: the improvement, not the regression, is bounded.
BoundsImprovement(ev, score) ==
    IF BaselineOf[ev] = None THEN "not_configured"
    ELSE IF score - evaluation[BaselineOf[ev]].score <= MaxRegression
         THEN "passed" ELSE "failed"

Regression(ev, score) ==
    IF BaselineOf[ev] = None THEN "not_configured"
    ELSE IF score - evaluation[BaselineOf[ev]].score >= - MaxRegression
         THEN "passed" ELSE "failed"

Verdict(ev, rows) ==
    LET score == Mean(rows)
        passes == score >= Minimum /\ Regression(ev, score) # "failed"
    IN  [evaluation[ev] EXCEPT !.status = "completed", !.score = score,
                               !.regression = Regression(ev, score),
                               !.gate = IF passes THEN "passed" ELSE "failed"]

Recorded(ev) == {s \in Scenario : results[ev][s] # None}

\* Mutant: the results are counted as they were before the evaluation was locked.
CountedEarly(e) == ending[e].seen

\* The scenarios whose results are counted with that of e: read under the lock.
Counted(e) == Recorded(e[1])

Completed(e, rows) ==
    IF Counted(e) \cup {e[2]} # Scenario THEN evaluation
    ELSE [evaluation EXCEPT ![e[1]] = Verdict(e[1], rows)]

\* settle_evaluation_execution and the commit, under the lock on the evaluation.
CommitEnd(e) ==
    /\ ending[e] # None
    /\ LET ev == e[1]
           s == e[2]
           x == ending[e].row
           rows == [results[ev] EXCEPT ![s] = ResultOf(s, x, ev)]
       IN  /\ exec' = [exec EXCEPT ![e] = x]
           /\ results' = [results EXCEPT ![ev] = rows]
           /\ evaluation' = Completed(e, rows)
    /\ ending' = [ending EXCEPT ![e] = None]
    /\ UNCHANGED <<deploymentVars, profile, effects, replay, annotations, bundle, changes>>

SameAsSource(x) == x.data = exec[x.source].data /\ x.path = exec[x.source].path

\* settle_workflow_replay
ReplayStatus(x) ==
    CASE x.status = "completed" -> IF SameAsSource(x) THEN "matched" ELSE "diverged"
      [] x.status = "cancelled" -> "cancelled"
      [] OTHER -> "failed"

Settles(e) == e \in Copy /\ replay[e] = "running"

\* The end of an execution: at once, or when the evaluation has been locked.
End(e, x) ==
    \/ /\ exec[e].purpose = "evaluation"
       /\ ending' = [ending EXCEPT ![e] = [row |-> x, seen |-> Recorded(e[1])]]
       /\ UNCHANGED <<exec, replay>>
    \/ /\ exec[e].purpose # "evaluation"
       /\ exec' = [exec EXCEPT ![e] = x]
       /\ replay' = IF Settles(e) THEN [replay EXCEPT ![e] = ReplayStatus(x)] ELSE replay
       /\ UNCHANGED ending

-----------------------------------------------------------------------------
\* The engine.
Queued(e) == exec[e].status = "queued" /\ ending[e] = None
Waiting(e) == exec[e].status = "waiting" /\ ending[e] = None
NodeOf(x) == Definition[x.version][x.at]
StepCount(x) == Len(x.path)

Permitted(x, expired) ==
    NodeOf(x).guarded => Permits(x.decision, bundle, Context, StepCount(x), expired)

\* The row once the policy of its node has allowed it.
Decided(x, expired) ==
    IF ~ NodeOf(x).guarded THEN x
    ELSE [x EXCEPT !.decision = Decision(x.decision, bundle, Context, StepCount(x), expired),
                   !.allowed = @ \cup {x.at}]

Suspends(x) == NodeOf(x).type = "approval" /\ x.answer = "none"

\* advance at an approval: the wait is created and the execution suspended.
SuspendNode(e, expired) ==
    /\ Queued(e)
    /\ Suspends(exec[e])
    /\ Permitted(exec[e], expired)
    /\ exec' = [exec EXCEPT ![e] = [Decided(exec[e], expired) EXCEPT !.status = "waiting"]]
    /\ UNCHANGED <<deploymentVars, ending, profile, effects, replay, evaluation, results,
                   annotations, bundle, changes>>

\* The approval is resolved.
AnswerWait(e, answer) ==
    /\ Waiting(e)
    /\ exec' = [exec EXCEPT ![e].status = "queued", ![e].answer = answer]
    /\ UNCHANGED <<deploymentVars, ending, profile, effects, replay, evaluation, results,
                   annotations, bundle, changes>>

\* What the node adds to the state.
Value(x) ==
    CASE NodeOf(x).type = "approval" -> x.answer
      [] NodeOf(x).type = "tool" -> IF x.mode = "simulation" THEN "simulated" ELSE "receipt"
      [] OTHER -> "done"

\* A tool node of a live execution, and any tool below a subworkflow node, whose
\* executions create_subworkflow_call makes live.
HasEffect(x) ==
    \/ NodeOf(x).type = "tool" /\ x.mode = "live"
    \/ NodeOf(x).type = "subworkflow" /\ Effectful(NodeOf(x).refers)

NextAt(x) ==
    IF NodeOf(x).type = "approval" /\ x.answer = "denied"
    THEN Len(Definition[x.version]) + 1 ELSE x.at + 1

Advanced(x, expired) ==
    LET next == NextAt(x)
        over == next > Len(Definition[x.version])
    IN  [Decided(x, expired) EXCEPT !.path = Append(@, x.at), !.data = Append(@, Value(x)),
                           !.at = next, !.answer = "none", !.decision = NoDecision,
                           !.status = IF over THEN "completed" ELSE "queued"]

\* advance at any other node, simulate_workflow_tool_call included.
CompleteNode(e, expired) ==
    /\ Queued(e)
    /\ ~ Suspends(exec[e])
    /\ Permitted(exec[e], expired)
    /\ LET x == Advanced(exec[e], expired)
       IN  IF x.status = "completed" THEN End(e, x)
           ELSE exec' = [exec EXCEPT ![e] = x] /\ UNCHANGED <<ending, replay>>
    /\ effects' = IF HasEffect(exec[e]) THEN effects \cup {e} ELSE effects
    /\ UNCHANGED <<deploymentVars, profile, evaluation, results, annotations, bundle, changes>>

\* The wait and the decision of the node at hand no longer matter.
Stopped(x, status) ==
    [x EXCEPT !.status = status, !.answer = "none", !.decision = NoDecision]
Failed(x) == Stopped(x, "failed")

\* advance fails the execution: the deadline, a limit or the policy of its node stops
\* it, or the policy allows it and the tool call or the subworkflow fails, perhaps
\* after its effect.
FailNode(e) ==
    /\ Queued(e)
    /\ \/ End(e, Failed(exec[e])) /\ UNCHANGED effects
       \/ /\ NodeOf(exec[e]).type \in {"tool", "subworkflow"}
          /\ \E expired \in BOOLEAN :
                 Permitted(exec[e], expired) /\ End(e, Failed(Decided(exec[e], expired)))
          /\ \E done \in BOOLEAN :
                 effects' = IF done /\ HasEffect(exec[e]) THEN effects \cup {e} ELSE effects
    /\ UNCHANGED <<deploymentVars, profile, evaluation, results, annotations, bundle, changes>>

\* The scheduled wake of the wait finds it expired.
TimeOutWait(e) ==
    /\ Waiting(e)
    /\ End(e, Failed(exec[e]))
    /\ UNCHANGED <<deploymentVars, profile, effects, evaluation, results, annotations,
                   bundle, changes>>

\* cancel_workflow_run refuses an execution whose tool call became dispatchable.
CancelRun(e) ==
    /\ Queued(e) \/ Waiting(e)
    /\ e \notin effects
    /\ exec' = [exec EXCEPT ![e] = Stopped(exec[e], "cancelled")]
    /\ UNCHANGED <<deploymentVars, ending, profile, effects, replay, evaluation, results,
                   annotations, bundle, changes>>

\* Mutant: the evaluation and the replay are not told of the cancellation.
FinalizeQuietly(e) ==
    /\ exec[e].status = "cancelled" /\ ~ exec[e].finalized /\ ending[e] = None
    /\ exec' = [exec EXCEPT ![e].finalized = TRUE]
    /\ UNCHANGED <<deploymentVars, ending, profile, effects, replay, evaluation, results,
                   annotations, bundle, changes>>

FinalizeCancelled(e) ==
    /\ exec[e].status = "cancelled" /\ ~ exec[e].finalized /\ ending[e] = None
    /\ End(e, [exec[e] EXCEPT !.finalized = TRUE])
    /\ UNCHANGED <<deploymentVars, profile, effects, evaluation, results, annotations,
                   bundle, changes>>

-----------------------------------------------------------------------------
\* Mutant: the annotation raises the score.
Override(ev, s) ==
    /\ results[ev][s] # None
    /\ annotations = {} /\ MoreRequests
    /\ annotations' = {<<ev, s>>}
    /\ results' = [results EXCEPT ![ev][s].score = 1000]
    /\ UNCHANGED <<deploymentVars, exec, ending, profile, effects, replay, evaluation, bundle, changes>>

\* create_evaluation_annotation, for one idempotency key.
Annotate(ev, s) ==
    /\ results[ev][s] # None
    /\ annotations = {} /\ MoreRequests
    /\ annotations' = {<<ev, s>>}
    /\ UNCHANGED <<deploymentVars, exec, ending, profile, effects, replay, evaluation, results,
                   bundle, changes>>

\* Operators replace, disable or outlive the bundle.
ChangeBundle(new) ==
    /\ MoreRequests
    /\ new # bundle
    /\ bundle' = new
    /\ changes' = changes + 1
    /\ UNCHANGED <<deploymentVars, exec, ending, profile, effects, replay, evaluation, results,
                   annotations>>

Requests ==
    \/ CreateProfile
    \/ \E e \in Root, v \in Version : StartRun(e, v)
    \/ \E c \in Copy, e \in Execution, named \in BOOLEAN, purpose \in {"fork", "replay"} :
           \E k \in Checkpoints(e) : CopyRun(c, e, k, named, purpose)
    \/ \E ev \in Evaluation, v \in Version, named \in BOOLEAN :
           StartEvaluation(ev, v, named)
    \/ \E e \in Execution : CancelRun(e)
    \/ \E e \in Execution, answer \in {"approved", "denied"} : AnswerWait(e, answer)
    \/ \E ev \in Evaluation, s \in Scenario : Annotate(ev, s)

EngineStep(e) ==
    \/ \E expired \in BOOLEAN : SuspendNode(e, expired) \/ CompleteNode(e, expired)
    \/ FailNode(e) \/ TimeOutWait(e) \/ FinalizeCancelled(e) \/ CommitEnd(e)

Operators == \E new \in Bundles : ChangeBundle(new)

Next ==
    \/ \E v \in Version : CreateVersion(v) /\ MoreRequests /\ UNCHANGED experimentVars
    \/ \E v \in Version : (ReadPrior(v) \/ Deploy(v) \/ DeployFails(v)) /\ UNCHANGED experimentVars
    \/ Requests \/ Operators
    \/ \E e \in Execution : EngineStep(e)

Spec == Init /\ [][Next]_vars

-----------------------------------------------------------------------------
\* Every variable holds a value of the columns it models.
TypeOK ==
    /\ versions \subseteq Version
    /\ deployment \in [Version -> {"none", "active", "superseded"}]
    /\ snapshot \in [Version -> SUBSET (Version \cup {NoVersion})]
    /\ overlapped \subseteq Workflow
    /\ exec \in [Execution -> Rows]
    /\ ending \in [Execution -> Endings \cup {None}]
    /\ profile \in BOOLEAN
    /\ effects \subseteq Execution
    /\ replay \in [Copy -> {"none", "running", "matched", "diverged", "cancelled", "failed"}]
    /\ evaluation \in [Evaluation -> EvaluationRows]
    /\ results \in [Evaluation -> [Scenario -> ResultRows \cup {None}]]
    /\ annotations \subseteq Evaluation \X Scenario
    /\ bundle \in Bundles
    /\ changes \in Nat

\* Forks, replays and evaluations never send a tool's effect: an effectful deployment
\* takes them only with a simulation profile, and a deployment that refers to a tool
\* through a subworkflow, which would run live, is refused (require_simulation_profile,
\* _subworkflow_reference_issues).
OnlyRunsHaveEffects == \A e \in effects : exec[e].purpose = "run"

\* However the ends of its executions interleave, an evaluation is complete exactly
\* when every scenario has a result: the settlement that records the last result sees
\* all of them (settle_evaluation_execution locks before it counts).
LastResultCompletes ==
    \A ev \in Evaluation :
        evaluation[ev].status = "completed" <=> Recorded(ev) = Scenario

\* A gate that passed is borne out by the results, however far back: the scenarios
\* reach the minimum, and fall behind those of the baseline by no more than the bound
\* and the rounding of the two means.
GateIsEarned ==
    \A ev \in Evaluation : evaluation[ev].gate = "passed" =>
        LET n == Cardinality(Scenario)
            total == Total(results[ev])
            b == BaselineOf[ev]
        IN  /\ total >= n * Minimum
            /\ b # None => total > Total(results[b]) - n * (MaxRegression + 1)

\* No step revises a recorded result, a completed evaluation, a settled replay or an
\* execution that has ended; later annotations included.
VerdictsAreFinal ==
    [][ /\ \A ev \in Evaluation : \A s \in Scenario :
              results[ev][s] # None => results'[ev][s] = results[ev][s]
        /\ \A ev \in Evaluation :
              evaluation[ev].status = "completed" => evaluation'[ev] = evaluation[ev]
        /\ \A c \in Copy : replay[c] \notin {"none", "running"} => replay'[c] = replay[c]
        /\ \A e \in Execution :
              exec[e].status \in Terminal => exec'[e].status = exec[e].status ]_vars

\* A node with a policy does its work only under a decision that was made on the
\* document the bundle now has, whatever happened while the execution waited
\* (evaluate_workflow_node_policy compares the digests before it reuses a decision).
PolicyIsCurrent ==
    [][ \A e \in Execution :
            LET x == exec[e]
                y == IF ending'[e] # None THEN ending'[e].row ELSE exec'[e]
            IN  x.status = "queued" /\ ending[e] = None /\ Len(y.path) > Len(x.path)
                    /\ NodeOf(x).guarded
                => /\ bundle.status = "active"
                   /\ Effect(bundle.document.rules, Context) = "allow" ]_vars

\* An execution the engine still has something to do for: it is live, its last
\* transaction is under way, or its finalization is in the outbox.
Unfinished(e) ==
    exec[e].status \in Live \/ ending[e] # None \/ (exec[e].status = "cancelled" /\ ~ exec[e].finalized)

\* No verdict is left to nobody: as long as an evaluation is running or a replay is not
\* settled, there is an unfinished execution whose end will settle it, whatever failed
\* or was cancelled on the way (finalize_cancelled_once settles both).
VerdictIsComing ==
    /\ \A ev \in Evaluation : evaluation[ev].status = "running" =>
           \E s \in Scenario : results[ev][s] = None /\ Unfinished(<<ev, s>>)
    /\ \A c \in Copy : replay[c] = "running" => Unfinished(c)

\* A decision is the one its document leads to.
DecisionFits(decision) ==
    decision = NoDecision \/ decision.effect = Effect(decision.digest.rules, Context)

\* A row of an execution that was started: its version passed the deployment checks, it
\* is at a node of it while it is live, its purpose is that of its kind, and it is
\* simulated if it is no run and its version has effects.
RowFits(e, x) ==
    /\ x.status # "none" /\ x.version \in Sound
    /\ x.at # 0 /\ Len(x.data) = Len(x.path)
    /\ x.status \in Live => x.at \in DOMAIN Definition[x.version] /\ ~ x.finalized
    /\ x.purpose = "evaluation" <=> e \in Evaluation \X Scenario
    /\ x.purpose # "run" /\ Effectful(x.version) => x.mode = "simulation"
    /\ DecisionFits(x.decision)

RowsFit == \A e \in Execution : exec[e] = NoExecution \/ RowFits(e, exec[e])

\* An uncommitted last transaction ends an execution of an evaluation, and does not
\* revise the status of one that was cancelled.
EndingsFit ==
    \A e \in Execution : ending[e] # None =>
        LET x == ending[e].row
        IN  /\ e \in Evaluation \X Scenario /\ exec[e].status # "none"
            /\ RowFits(e, x) /\ x.status \in Terminal
            /\ x.status = "cancelled" => x.finalized
            /\ exec[e].status \in Terminal => x.status = exec[e].status

\* Before an evaluation starts there is nothing of it.  From then on a scenario has a
\* result once its execution is finished, the baseline is complete, and a verdict is
\* reached with the last result, from all of them.
EvaluationFits(ev) ==
    LET x == evaluation[ev]
        b == BaselineOf[ev]
    IN  /\ x.status = "none" => \A s \in Scenario :
               results[ev][s] = None /\ exec[<<ev, s>>].status = "none"
        /\ x.status # "none" =>
               /\ \A s \in Scenario : results[ev][s] = None <=> Unfinished(<<ev, s>>)
               /\ b # None => evaluation[b].status = "completed"
        /\ x.status = "completed" <=> Recorded(ev) = Scenario
        /\ x.status = "completed" => x.score = Mean(results[ev])
        /\ x.gate = "passed" =>
               /\ x.status = "completed" /\ x.score >= Minimum
               /\ b # None => x.score - evaluation[b].score >= - MaxRegression

EvaluationsFit == \A ev \in Evaluation : EvaluationFits(ev)

ReplaysFit ==
    \A c \in Copy : /\ replay[c] # "none" => exec[c].status # "none"
                    /\ replay[c] = "running" => Unfinished(c)

\* The inductive invariant of releases: what deployments, executions, their uncommitted
\* ends, evaluations and replays say of each other, at every moment of
\* deploy_workflow_version, the engine and settle_evaluation_execution.
ReleasesInv ==
    /\ TypeOK
    /\ DeploymentsFit /\ SomeVersionServes /\ OneServesUnlessOverlapped
    /\ RowsFit /\ EndingsFit /\ EvaluationsFit /\ ReplaysFit
    /\ OnlyRunsHaveEffects
=============================================================================
