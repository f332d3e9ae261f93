---------------------- MODULE WorkflowEngineTheorems -----------------------
(***************************************************************************)
(* What the engine guarantees for any deployed definitions, any executions *)
(* and workers: its rows, events and claims always fit together, its runs  *)
(* are sequential walks of their graphs, and signed evidence stays true.   *)
(***************************************************************************)
EXTENDS WorkflowEngineSteps, WorkflowEngineEffects

\* Every step keeps the invariant.

\* Failing an execution keeps the invariant (_fail).
LEMMA FailStep ==
    ASSUME EngineInv, NEW w \in Worker, worker[w] # Idle, Turn(w),
           NEW code \in Errors, NEW lapsed \in BOOLEAN, Fail(w, code, lapsed)
    PROVE  EngineInv'
<1>1. PICK e : worker[w].exec = e
    BY Zenon
<1>2. CASE SettlementRefused(e) /\ RollBack(w)
    BY Zenon, <1>2, RollBackStep
<1>3. CASE /\ ~ SettlementRefused(e) /\ ~ SettlementBlocked(e)
           /\ Finish(w, "failed", code, lapsed) /\ UNCHANGED progressVars
  <2>1. ProgressTypes' /\ \A x \in Execution : path'[x] = path[x] /\ current'[x] = current[x]
    BY Zenon, <1>3 DEF EngineInv, TypeOK, ProgressTypes, progressVars
  <2>2. path'[e] = path[e]
    BY Zenon, <1>3 DEF progressVars
  <2>3. Valid(w) /\ (IsChild(e) => call[e].status = "pending")
    BY Zenon, <1>3 DEF Turn, SettlementRefused
  <2>4. "failed" \in Terminal
    BY Zenon DEF Terminal
  <2> QED BY Zenon, <1>1, <1>3, <2>1, <2>2, <2>3, <2>4, FinishStep
<1> QED BY Zenon, <1>1, <1>2, <1>3 DEF Fail

\* Every start of an advance keeps the invariant.
LEMMA BeginAdvanceStep ==
    ASSUME EngineInv, NEW w \in Worker, worker[w] # Idle, BeginAdvance(w)
    PROVE  EngineInv'
<1>1. PICK e : worker[w].exec = e
    BY Zenon
<1>2. CASE /\ call[e].status \in {"cancelled", "timed_out"}
           /\ Finish(w, "cancelled", "parent_subworkflow_cancelled", FALSE)
           /\ UNCHANGED progressVars
  <2>1. ProgressTypes' /\ \A x \in Execution : path'[x] = path[x] /\ current'[x] = current[x]
    BY Zenon, <1>2 DEF EngineInv, TypeOK, ProgressTypes, progressVars
  <2>2. path'[e] = path[e]
    BY Zenon, <1>2 DEF progressVars
  <2>3. Valid(w) /\ ~ SettlementBlocked(e)
    BY Zenon, <1>2 DEF BeginAdvance, SettlementBlocked
  <2>4. "cancelled" \in Terminal /\ "parent_subworkflow_cancelled" \in Errors
    BY Zenon DEF Terminal, Errors
  <2> QED BY Zenon, <1>1, <1>2, <2>1, <2>2, <2>3, <2>4, FinishStep
<1>3. CASE /\ call[e].status = "pending"
           /\ worker' = [worker EXCEPT ![w].phase = "advancing"]
           /\ UNCHANGED <<status, error, claimVars, overdue, progressVars, wait, call,
                          sealed, outbox, dispatched>>
  <2>1. Valid(w)
    BY Zenon DEF BeginAdvance
  <2> QED BY Zenon, <1>1, <1>3, <2>1, BeginStep
<1> QED BY Zenon, <1>1, <1>2, <1>3 DEF BeginAdvance

\* Completing a node, whether it goes on or ends the execution, keeps the invariant.
LEMMA CompleteStep ==
    ASSUME EngineInv, NEW w \in Worker, worker[w] # Idle, CompleteNode(w)
    PROVE  EngineInv'
<1>1. PICK e : worker[w].exec = e
    BY Zenon
<1> DEFINE now(n, b) == (current[e] \ {n}) \cup NextNodes(n, b)
<1>2. PICK n \in Node : \E b \in BranchesTaken(n, loops[e][n]) :
        /\ AtNode(w, n) /\ Fulfilled(e, n)
        /\ \/ RollBack(w)
           \/ /\ Walks(e, n, b)
              /\ \/ /\ now(n, b) = {} /\ ~ SettlementRefused(e) /\ ~ SettlementBlocked(e)
                    /\ Finish(w, "completed", "none", FALSE)
                 \/ /\ wait' = [wait EXCEPT ![e] = ResolvedWait(e, n)]
                    /\ Requeue(w, Len(Append(path[e], n)))
    BY <1>1, Zenon DEF CompleteNode, Walks
<1>3. PICK b \in BranchesTaken(n, loops[e][n]) :
        \/ RollBack(w)
        \/ /\ Walks(e, n, b)
           /\ \/ /\ now(n, b) = {} /\ ~ SettlementRefused(e) /\ ~ SettlementBlocked(e)
                 /\ Finish(w, "completed", "none", FALSE)
              \/ /\ wait' = [wait EXCEPT ![e] = ResolvedWait(e, n)]
                 /\ Requeue(w, Len(Append(path[e], n)))
    BY Zenon, <1>2
<1>4. AtNode(w, n) /\ Fulfilled(e, n)
    BY Zenon, <1>2
<1>5. CASE RollBack(w)
    BY Zenon, <1>5, RollBackStep
<1>6. CASE Walks(e, n, b)
  <2>1. GoesPast(w, e, n)
    BY Zenon, <1>1, <1>4, <1>6, WalkFacts
  <2>2. CASE /\ now(n, b) = {} /\ ~ SettlementRefused(e) /\ ~ SettlementBlocked(e)
             /\ Finish(w, "completed", "none", FALSE)
    <3>1. NextNodes(n, b) = {}
      BY Zenon, <2>2
    <3>2. TypeOf[n] # "timer"
      BY Zenon, <3>1, WaitsGoOn DEF WaitTypes
    <3>3. StepIsDone(e)
      BY Zenon, <2>1, <3>2 DEF GoesPast, StepIsDone
    <3>4. Valid(w) /\ (IsChild(e) => call[e].status = "pending")
      BY Zenon, <2>1, <2>2 DEF GoesPast, Turn, SettlementRefused
    <3>5. "completed" \in Terminal /\ "none" \in Errors
      BY Zenon DEF Terminal, Errors
    <3>6. /\ ProgressTypes' /\ Len(path'[e]) = Len(path[e]) + 1
          /\ \A x \in Execution \ {e} : path'[x] = path[x] /\ current'[x] = current[x]
      BY Zenon, <2>1 DEF GoesPast
    <3> HIDE DEF now
    <3> QED BY Zenon, <1>1, <2>2, <3>3, <3>4, <3>5, <3>6, FinishStep
  <2>3. CASE /\ wait' = [wait EXCEPT ![e] = ResolvedWait(e, n)]
             /\ Requeue(w, Len(Append(path[e], n)))
    BY Zenon, <1>1, <1>4, <1>6, <2>3, GoOnStep
  <2> QED BY Zenon, <1>3, <1>5, <2>2, <2>3
<1> QED BY Zenon, <1>3, <1>5, <1>6

\* Every end of an advance keeps the invariant.
LEMMA AdvanceStep ==
    ASSUME EngineInv, NEW w \in Worker, worker[w] # Idle, Advance(w)
    PROVE  EngineInv'
<1>1. PICK e : worker[w].exec = e
    BY Zenon
<1>2. CASE AdvanceStale(w)
    BY Zenon, <1>2, RollBackStep DEF AdvanceStale, RollBack
<1>3. CASE BeginAdvance(w)
    BY Zenon, <1>3, BeginAdvanceStep
<1>4. CASE AdvanceRefused(w)
  <2>1. PICK code : code = Refusal(worker[w].exec, worker[w].event)
    BY Zenon
  <2>2. code \in Errors
    BY Zenon, <2>1 DEF Refusal, Errors
  <2>3. Turn(w) /\ Fail(w, code, FALSE)
    BY Zenon, <1>4, <2>1 DEF AdvanceRefused
  <2> QED BY Zenon, <2>2, <2>3, FailStep
<1>5. CASE PolicyDenies(w)
  <2>1. Turn(w) /\ Fail(w, "policy_denied", FALSE) /\ "policy_denied" \in Errors
    BY Zenon, <1>5 DEF PolicyDenies, AtNode, Errors
  <2> QED BY Zenon, <2>1, FailStep
<1>6. CASE CreateWait(w)
  <2>1. PICK n \in Node :
          /\ AtNode(w, n) /\ TypeOf[n] \in WaitTypes /\ ~ WaitHere(e)
          /\ \/ Fail(w, "workflow_wait_exceeds_deadline", FALSE)
             \/ /\ wait' = [wait EXCEPT ![e] = [node |-> n, seq |-> StepCount(e),
                              status |-> "pending", resolution |-> "none", due |-> FALSE]]
                /\ Park(w, {}, {WaitEvent(e, "wake", StepCount(e))})
                /\ UNCHANGED <<progressVars, call>>
    BY <1>1, <1>6, Zenon DEF CreateWait
  <2>2. CASE Fail(w, "workflow_wait_exceeds_deadline", FALSE)
    <3>1. Turn(w) /\ "workflow_wait_exceeds_deadline" \in Errors
      BY Zenon, <2>1 DEF AtNode, Errors
    <3> QED BY Zenon, <2>2, <3>1, FailStep
  <2> QED BY Zenon, <1>1, <2>1, <2>2, ParkWaitStep
<1>7. CASE CreateSubworkflow(w)
  <2>1. PICK n \in Node :
          /\ AtNode(w, n) /\ TypeOf[n] = "subworkflow" /\ CallsHere(e) = {}
          /\ \/ Fail(w, "invalid_transition", FALSE)
             \/ \E c \in Execution :
                  /\ CreateExecution(c, Beginning(Referenced[n]))
                  /\ call' = [call EXCEPT ![c] = [parent |-> e, node |-> n, seq |-> StepCount(e),
                                  status |-> "pending", due |-> FALSE]]
                  /\ Park(w, {c}, {CallEvent(e, "timeout", c), ReadyEvent(c, 0)})
                  /\ UNCHANGED wait
    BY <1>1, <1>7, Zenon DEF CreateSubworkflow
  <2>2. CASE Fail(w, "invalid_transition", FALSE)
    <3>1. Turn(w) /\ "invalid_transition" \in Errors
      BY Zenon, <2>1 DEF AtNode, Errors
    <3> QED BY Zenon, <2>2, <3>1, FailStep
  <2> QED BY Zenon, <1>1, <2>1, <2>2, ParkCallStep
<1>8. CASE WaitExpires(w)
  <2>1. Turn(w) /\ Fail(w, "workflow_wait_expired", TRUE) /\ "workflow_wait_expired" \in Errors
    BY Zenon, <1>8 DEF WaitExpires, AtNode, Errors
  <2> QED BY Zenon, <2>1, FailStep
<1>9. CASE CallTimesOut(w)
  <2>1. Turn(w) /\ Fail(w, "workflow_subworkflow_timed_out", TRUE) /\ "workflow_subworkflow_timed_out" \in Errors
    BY Zenon, <1>9 DEF CallTimesOut, AtNode, Errors
  <2> QED BY Zenon, <2>1, FailStep
<1>10. CASE CallEnded(w)
  <2>1. Turn(w) /\ Fail(w, "workflow_subworkflow_ended", FALSE) /\ "workflow_subworkflow_ended" \in Errors
    BY Zenon, <1>10 DEF CallEnded, AtNode, Errors
  <2> QED BY Zenon, <2>1, FailStep
<1>11. CASE CompleteNode(w)
    BY Zenon, <1>11, CompleteStep
<1> QED
    BY Zenon, <1>2, <1>3, <1>4, <1>5, <1>6, <1>7, <1>8, <1>9, <1>10, <1>11 DEF Advance

\* Every step of the engine keeps the invariant.
LEMMA NextFits ==
    ASSUME EngineInv, [Next]_vars
    PROVE  EngineInv'
<1>1. ASSUME NEW e \in Execution, NEW entry \in Entry, StartWorkflow(e, entry)
      PROVE  EngineInv'
  <2>1. PICK k : k = Beginning(entry)
    BY Zenon
  <2>2. k \in CheckpointRow
    BY Zenon, <2>1, BeginningTypes, DeploymentAssumption
  <2>3. Len(k.path) = 0
    BY Zenon, <2>1 DEF Beginning, Checkpoint
  <2> QED BY Zenon, <1>1, <2>1, <2>2, <2>3, CreateRootStep DEF StartWorkflow
<1>2. ASSUME NEW e \in Execution, NEW origin \in Execution, ForkWorkflow(e, origin)
      PROVE  EngineInv'
  <2>1. checkpoints[origin] \in SUBSET CheckpointRow
    BY Zenon DEF EngineInv, TypeOK
  <2> QED BY Zenon, <1>2, <2>1, CreateRootStep DEF ForkWorkflow
<1>3. ASSUME NEW e \in Execution,
             \/ ResolveWait(e) \/ CancelWorkflow(e) \/ FinalizeCancelled(e)
             \/ LeaseExpires(e) \/ WaitDue(e) \/ CallDue(e) \/ DeadlinePasses(e)
      PROVE  EngineInv'
    BY Zenon, <1>3, ResolveStep, CancelStep, FinalizeStep, ClockStep
<1>4. ASSUME NEW w \in Worker, NEW ev \in outbox, ClaimReady(w, ev)
      PROVE  EngineInv'
    BY Zenon, <1>4, ClaimReadyStep
<1>5. ASSUME NEW w \in Worker, worker[w] # Idle, Advance(w)
      PROVE  EngineInv'
    BY Zenon, <1>5, AdvanceStep
<1>6. ASSUME NEW w \in Worker, WorkerFails(w)
      PROVE  EngineInv'
    BY Zenon, <1>6, RollBackStep DEF WorkerFails
<1>7. CASE UNCHANGED vars
  <2>1. TypeOK'
    BY Zenon, <1>7 DEF vars, EngineInv, TypeOK, progressVars, claimVars
  <2> QED BY Zenon, <1>7, <2>1, QuietStep DEF vars, claimVars
<1> QED
    BY Zenon, <1>1, <1>2, <1>3, <1>4, <1>5, <1>6, <1>7 DEF Next

\* The rows, the outbox and the workers' memory of the engine always fit together, for
\* any deployed definitions, executions, workers and step limit (advance, claim_ready).
THEOREM EngineIsConsistent == Spec => []EngineInv
<1>1. Init => EngineInv
    BY Zenon, InitFits
<1>2. EngineInv /\ [Next]_vars => EngineInv'
    BY Zenon, NextFits
<1> QED BY <1>1, <1>2, PTL DEF Spec

-----------------------------------------------------------------------------
\* What the invariant means.

\* Every live execution can still be woken or recovered, and every cancelled one is sealed
\* or about to be (claim_ready, finalize_cancelled_once).
THEOREM NoExecutionIsStranded == Spec => []NothingStranded
BY EngineIsConsistent, NothingIsStranded, PTL

\* No late, duplicated or reclaimed event meets rows it does not expect (advance).
THEOREM NoEventSurprises == Spec => []EventsMatchRows
BY EngineIsConsistent, EventsAreExpected, PTL

\* A call and its child execution never disagree (settle_parent_subworkflow_call).
THEOREM CallsAgreeWithChildren == Spec => []CallsTellTheTruth
BY EngineIsConsistent, CallsAreTrue, PTL

\* No execution goes past a call that has not completed or a wait without its resolution
\* (advance).
THEOREM NoStepIsSkipped == Spec => []NothingSkipped
BY EngineIsConsistent, NothingIsSkipped, PTL

-----------------------------------------------------------------------------
\* Progress, evidence and joins.

\* The engine implements sequential runs: whatever claims, crashes, lease losses,
\* timeouts and cancellations interleave, an execution only starts, forks, completes the
\* first ready node or ends (advance).
THEOREM RunsAreSequential == Spec => SequentialRuns
<1>1. Init => Runs!Init
    BY Zenon, InitRuns
<1>2. EngineInv /\ [Next]_vars => [Runs!Next]_(Runs!runVars)
    BY Zenon, EveryShape, StepRuns
<1> QED BY <1>1, <1>2, EngineIsConsistent, PTL DEF Spec, SequentialRuns, Runs!Spec

\* The signed evidence stays true, for any schedule of workers, callers and children
\* (_seal_workflow_evidence).
THEOREM EvidenceIsFinal == Spec => EvidenceStaysTrue
<1>1. EngineInv /\ [Next]_vars =>
        [\A e \in Execution : sealed[e] =>
          /\ status'[e] = status[e]
          /\ path'[e] = path[e]
          /\ wait'[e] = wait[e]
          /\ \A c \in Execution : call[c].parent = e => call'[c] = call[c]]_vars
    BY Zenon, EvidenceStep
<1> QED BY <1>1, EngineIsConsistent, PTL DEF Spec, EvidenceStaysTrue

\* A join runs only when every predecessor has run before it, in every execution and in
\* every fork of it (_node_ready reads the whole path).
THEOREM PredecessorsRunFirst == Spec => []PathsOrdered
<1>1. Init => PathsOrdered
  <2>1. Ordered(<<>>)
    BY DEF Ordered
  <2> QED BY Zenon, <2>1 DEF Init, PathsOrdered
<1>2. EngineInv /\ PathsOrdered /\ [Next]_vars => PathsOrdered'
    BY Zenon, EveryShape, StepKeepsOrder
<1> QED BY <1>1, <1>2, EngineIsConsistent, PTL DEF Spec

\* No path passes a join twice.  A bounded loop around a fan-out does, and so does a
\* node inside a fan-out that is no join and has two incoming edges: _next_nodes makes
\* it current after each of them.
JoinsRunOnce ==
    \A e \in Execution : \A i \in DOMAIN path[e] :
        TypeOf[path[e][i]] = "join" => \A k \in 1..(i - 1) : path[e][k] # path[e][i]

\* Where no join runs twice, every join waits for all its predecessors (_node_ready);
\* a join that runs again finds those of its first run in completed_nodes_json.
THEOREM JoinsWaitTheFirstTime == Spec => [](JoinsRunOnce => JoinsWaitForAll)
<1>1. ASSUME PathsOrdered, JoinsRunOnce PROVE JoinsWaitForAll
  <2> SUFFICES ASSUME NEW e \in Execution, NEW i \in DOMAIN path[e],
                      TypeOf[path[e][i]] = "join", NEW p \in Parents(path[e][i])
               PROVE  \E j \in 1..(i - 1) :
                          path[e][j] = p /\ \A k \in j..(i - 1) : path[e][k] # path[e][i]
    BY Zenon DEF JoinsWaitForAll
  <2>1. PICK j \in 1..(i - 1) : path[e][j] = p
    BY Zenon, <1>1 DEF PathsOrdered, Ordered
  <2>2. j..(i - 1) \subseteq 1..(i - 1)
    OBVIOUS
  <2> QED BY Zenon, <1>1, <2>1, <2>2 DEF JoinsRunOnce
<1> QED BY <1>1, PredecessorsRunFirst, PTL
=============================================================================
