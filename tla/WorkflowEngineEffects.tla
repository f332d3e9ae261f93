----------------------- MODULE WorkflowEngineEffects -----------------------
(***************************************************************************)
(* What a step of the engine may do to progress, to closed rows and to the *)
(* order of joins; and the engine's invariant is kept when an execution    *)
(* ends.                                                                   *)
(***************************************************************************)
EXTENDS WorkflowEngineProofs, WorkflowRefinement

\* What a step does to the progress of the executions: nothing, or one ends, one
\* completes a node, or one is created.

Goes == UNCHANGED progressVars /\ \A y \in Execution : StaysLive(y)

Ends(x) ==
    /\ UNCHANGED progressVars
    /\ status[x] \in Live
    /\ status'[x] \in {"failed", "cancelled"}
    /\ \A y \in Execution \ {x} : status'[y] = status[y]

Completes(x, n, b) ==
    /\ status[x] \in Live
    /\ First(ReadyNodes(x), n)
    /\ StepCount(x) < MaxSteps
    /\ b \in BranchesTaken(n, loops[x][n])
    /\ Walks(x, n, b)
    /\ status'[x] = IF (current[x] \ {n}) \cup NextNodes(n, b) = {} THEN "completed" ELSE "queued"
    /\ \A y \in Execution \ {x} : status'[y] = status[y]

Creates(c, k) ==
    /\ \/ \E entry \in Entry : k = Beginning(entry)
       \/ \E origin \in Execution : k \in checkpoints[origin] /\ k.current # {}
    /\ CreateExecution(c, k)
    /\ status'[c] = "queued"
    /\ \A y \in Execution \ {c} : StaysLive(y)

StepShape ==
    \/ Goes
    \/ \E x \in Execution : Ends(x)
    \/ \E x \in Execution, n \in Node : \E b \in BranchesTaken(n, loops[x][n]) : Completes(x, n, b)
    \/ \E c \in Execution : \E k : Creates(c, k)

\* A failing advance ends its execution where it stands.
LEMMA FailShape ==
    ASSUME EngineInv, NEW w \in Worker, worker[w] # Idle, Turn(w),
           NEW code, NEW lapsed, Fail(w, code, lapsed)
    PROVE  StepShape
<1>1. PICK e : worker[w].exec = e
    BY Zenon
<1>2. e \in Execution /\ status[e] = "running"
    BY Zenon, <1>1, ValidClaim DEF Turn
<1>3. CASE RollBack(w)
    BY Zenon, <1>3 DEF RollBack, StepShape, Goes, StaysLive
<1>4. CASE Finish(w, "failed", code, lapsed) /\ UNCHANGED progressVars
  <2>1. Ends(e)
    BY Zenon, <1>1, <1>2, <1>4 DEF Ends, Finish, EngineInv, TypeOK, Live
  <2> QED BY Zenon, <1>2, <2>1 DEF StepShape
<1> QED BY Zenon, <1>3, <1>4 DEF Fail

\* A completing advance goes past one ready node of its execution.
LEMMA CompleteShape ==
    ASSUME EngineInv, NEW w \in Worker, worker[w] # Idle, CompleteNode(w)
    PROVE  StepShape
<1>1. PICK e : worker[w].exec = e
    BY Zenon
<1> DEFINE now(n, b) == (current[e] \ {n}) \cup NextNodes(n, b)
<1>2. PICK n \in Node : \E b \in BranchesTaken(n, loops[e][n]) :
        /\ AtNode(w, n)
        /\ \/ RollBack(w)
           \/ /\ Walks(e, n, b)
              /\ \/ now(n, b) = {} /\ Finish(w, "completed", "none", FALSE)
                 \/ now(n, b) # {} /\ Requeue(w, Len(Append(path[e], n)))
    BY <1>1, Zenon DEF CompleteNode, Walks
<1>3. PICK b \in BranchesTaken(n, loops[e][n]) :
        \/ RollBack(w)
        \/ /\ Walks(e, n, b)
           /\ \/ now(n, b) = {} /\ Finish(w, "completed", "none", FALSE)
              \/ now(n, b) # {} /\ Requeue(w, Len(Append(path[e], n)))
    BY Zenon, <1>2
<1>4. AtNode(w, n)
    BY Zenon, <1>2
<1>5. CASE RollBack(w)
    BY Zenon, <1>5 DEF RollBack, StepShape, Goes, StaysLive
<1>6. CASE Walks(e, n, b)
  <2>1. e \in Execution /\ status[e] = "running"
    BY <1>1, <1>4, TurnClaim DEF AtNode
  <2>2. First(ReadyNodes(e), n) /\ StepCount(e) < MaxSteps
    BY Zenon, <1>1, <1>4, TurnNode
  <2>3. CASE now(n, b) = {} /\ Finish(w, "completed", "none", FALSE)
    <3>1. status'[e] = "completed" /\ \A y \in Execution \ {e} : status'[y] = status[y]
      BY Zenon, <1>1, <2>1, <2>3 DEF Finish, EngineInv, TypeOK
    <3>2. Completes(e, n, b)
      BY <1>6, <2>1, <2>2, <2>3, <3>1 DEF Completes, Live
    <3> QED BY Zenon, <2>1, <3>2 DEF StepShape
  <2>4. CASE now(n, b) # {} /\ Requeue(w, Len(Append(path[e], n)))
    <3>1. status'[e] = "queued" /\ \A y \in Execution \ {e} : status'[y] = status[y]
      BY <1>1, <2>1, <2>4 DEF Requeue, EngineInv, TypeOK
    <3>2. Completes(e, n, b)
      BY Zenon, <1>6, <2>1, <2>2, <2>4, <3>1 DEF Completes, Live
    <3> QED BY Zenon, <2>1, <3>2 DEF StepShape
  <2> QED BY Zenon, <1>3, <1>5, <2>3, <2>4
<1> QED BY Zenon, <1>3, <1>5, <1>6

\* An advance goes past a node, ends its execution, creates a child or makes no progress.
LEMMA AdvanceShape ==
    ASSUME EngineInv, NEW w \in Worker, worker[w] # Idle, Advance(w)
    PROVE  StepShape
<1>1. PICK e : worker[w].exec = e
    BY Zenon
<1>2. CASE AdvanceStale(w)
    BY Zenon, <1>2 DEF AdvanceStale, StepShape, Goes, StaysLive
<1>3. CASE BeginAdvance(w)
  <2>1. e \in Execution /\ status[e] = "running"
    BY Zenon, <1>1, <1>3, ValidClaim DEF BeginAdvance
  <2>2. CASE /\ Finish(w, "cancelled", "parent_subworkflow_cancelled", FALSE)
             /\ UNCHANGED progressVars
    <3>1. Ends(e)
      BY <1>1, <2>1, <2>2 DEF Ends, Finish, EngineInv, TypeOK, Live
    <3> QED BY Zenon, <2>1, <3>1 DEF StepShape
  <2>3. CASE UNCHANGED <<status, progressVars>>
    BY Zenon, <2>3 DEF StepShape, Goes, StaysLive
  <2> QED BY Zenon, <1>3, <2>2, <2>3 DEF BeginAdvance
<1>4. CASE AdvanceRefused(w) \/ PolicyDenies(w) \/ WaitExpires(w) \/ CallTimesOut(w) \/ CallEnded(w)
  <2>1. Turn(w) /\ \E code : \E lapsed : Fail(w, code, lapsed)
    BY <1>4, Zenon DEF AdvanceRefused, PolicyDenies, WaitExpires, CallTimesOut, CallEnded, AtNode
  <2> QED BY Zenon, <2>1, FailShape
<1>5. CASE CreateWait(w)
  <2>1. PICK n \in Node :
          /\ AtNode(w, n)
          /\ \/ Fail(w, "workflow_wait_exceeds_deadline", FALSE)
             \/ /\ Park(w, {}, {WaitEvent(e, "wake", StepCount(e))})
                /\ UNCHANGED <<progressVars, call>>
    BY <1>1, <1>5, Zenon DEF CreateWait
  <2>2. Turn(w) /\ e \in Execution /\ status[e] = "running"
    BY <1>1, <2>1, TurnClaim DEF AtNode
  <2>3. CASE Fail(w, "workflow_wait_exceeds_deadline", FALSE)
    BY Zenon, <2>2, <2>3, FailShape
  <2>4. CASE Park(w, {}, {WaitEvent(e, "wake", StepCount(e))}) /\ UNCHANGED <<progressVars, call>>
    <3>1. \A y \in Execution : StaysLive(y)
      BY Zenon, <1>1, <2>2, <2>4 DEF Park, StaysLive, Live
    <3> QED BY Zenon, <2>4, <3>1 DEF StepShape, Goes
  <2> QED BY Zenon, <2>1, <2>3, <2>4
<1>6. CASE CreateSubworkflow(w)
  <2>1. PICK n \in Node :
          /\ AtNode(w, n) /\ TypeOf[n] = "subworkflow"
          /\ \/ Fail(w, "invalid_transition", FALSE)
             \/ \E c \in Execution :
                  /\ CreateExecution(c, Beginning(Referenced[n]))
                  /\ Park(w, {c}, {CallEvent(e, "timeout", c), ReadyEvent(c, 0)})
    BY <1>1, <1>6, Zenon DEF CreateSubworkflow
  <2>2. Turn(w) /\ e \in Execution /\ status[e] = "running"
    BY <1>1, <2>1, TurnClaim DEF AtNode
  <2>3. CASE Fail(w, "invalid_transition", FALSE)
    BY Zenon, <2>2, <2>3, FailShape
  <2>4. ASSUME NEW c \in Execution, CreateExecution(c, Beginning(Referenced[n])),
               Park(w, {c}, {CallEvent(e, "timeout", c), ReadyEvent(c, 0)})
        PROVE  StepShape
    <3>1. c # e
      BY Zenon, <2>2, <2>4 DEF CreateExecution
    <3>2. status'[c] = "queued" /\ \A y \in Execution \ {c} : StaysLive(y)
      BY Zenon, <1>1, <2>2, <2>4, <3>1 DEF Park, StaysLive, Live
    <3>3. Referenced[n] \in Entry
      BY Zenon, <2>1, ReferencesAreDeployed
    <3>4. Creates(c, Beginning(Referenced[n]))
      BY Zenon, <2>4, <3>2, <3>3 DEF Creates
    <3> QED BY Zenon, <3>4 DEF StepShape
  <2> QED BY Zenon, <2>1, <2>3, <2>4
<1>7. CASE CompleteNode(w)
    BY Zenon, <1>7, CompleteShape
<1> QED
    BY Zenon, <1>2, <1>3, <1>4, <1>5, <1>6, <1>7 DEF Advance

\* So does every step of the engine.
LEMMA EveryShape ==
    ASSUME EngineInv, [Next]_vars
    PROVE  StepShape
<1>1. ASSUME NEW e \in Execution, NEW entry \in Entry, StartWorkflow(e, entry)
      PROVE  StepShape
  <2>1. Creates(e, Beginning(entry))
    BY Zenon, <1>1 DEF StartWorkflow, Creates, StaysLive, EngineInv, TypeOK
  <2> QED BY Zenon, <2>1 DEF StepShape
<1>2. ASSUME NEW e \in Execution, NEW origin \in Execution, ForkWorkflow(e, origin)
      PROVE  StepShape
  <2>1. PICK k \in checkpoints[origin] :
          /\ k.current # {} /\ CreateExecution(e, k)
          /\ status' = [status EXCEPT ![e] = "queued"]
    BY Zenon, <1>2 DEF ForkWorkflow
  <2>2. Creates(e, k)
    BY Zenon, <2>1 DEF Creates, StaysLive, EngineInv, TypeOK
  <2> QED BY Zenon, <2>2 DEF StepShape
<1>3. ASSUME NEW e \in Execution, CancelWorkflow(e)
      PROVE  StepShape
  <2>1. Ends(e)
    BY Zenon, <1>3 DEF CancelWorkflow, Ends, EngineInv, TypeOK, Live
  <2> QED BY Zenon, <2>1 DEF StepShape
<1>4. ASSUME NEW e \in Execution,
             \/ ResolveWait(e) \/ FinalizeCancelled(e)
             \/ LeaseExpires(e) \/ WaitDue(e) \/ CallDue(e) \/ DeadlinePasses(e)
      PROVE  StepShape
  <2>1. UNCHANGED <<status, progressVars>>
    BY Zenon, <1>4 DEF ResolveWait, FinalizeCancelled, LeaseExpires, WaitDue, CallDue, DeadlinePasses
  <2> QED BY Zenon, <2>1 DEF StepShape, Goes, StaysLive
<1>5. ASSUME NEW w \in Worker, NEW ev \in outbox, ClaimReady(w, ev)
      PROVE  StepShape
  <2>1. ev.exec \in Execution /\ status[ev.exec] \in Live
    BY <1>5 DEF EngineInv, TypeOK, Event, ClaimReady, Claimable, Recoverable, Live
  <2>2. \A y \in Execution : StaysLive(y)
    BY <1>5, <2>1 DEF ClaimReady, StaysLive, Live, EngineInv, TypeOK
  <2> QED BY Zenon, <1>5, <2>2 DEF ClaimReady, StepShape, Goes
<1>6. ASSUME NEW w \in Worker, WorkerFails(w)
      PROVE  StepShape
    BY Zenon, <1>6 DEF WorkerFails, RollBack, StepShape, Goes, StaysLive
<1>7. CASE UNCHANGED vars
    BY Zenon, <1>7 DEF vars, StepShape, Goes, StaysLive
<1> QED
    BY <1>1, <1>2, <1>3, <1>4, <1>5, <1>6, <1>7, AdvanceShape DEF Next

-----------------------------------------------------------------------------
\* Sequential runs.

\* An execution as the sequential runs see it.
Phase == [e \in Execution |-> IF status[e] \in Live THEN "active" ELSE status[e]]

\* Executions that stay live are in the same phase.
LEMMA PhaseKept ==
    ASSUME NEW c, \A y \in Execution \ {c} : StaysLive(y)
    PROVE  \A y \in Execution \ {c} : Phase'[y] = Phase[y]
BY Zenon DEF Phase, StaysLive

\* No run has started.
LEMMA InitRuns == Init => Runs!Init
BY Zenon DEF Init, Runs!Init, Live, FreshLoops, Runs!FreshLoops

\* The sequential runs read the same definitions.
LEMMA SameGraph ==
    /\ Runs!FreshLoops = FreshLoops
    /\ \A c, p, l : Runs!Checkpoint(c, p, l) = Checkpoint(c, p, l)
    /\ \A n, k : Runs!BranchesTaken(n, k) = BranchesTaken(n, k)
    /\ \A n, b : Runs!NextNodes(n, b) = NextNodes(n, b)
    /\ \A n, b, k : Runs!LoopCount(n, b, k) = LoopCount(n, b, k)
    /\ \A c, p : Runs!Ready(c, Runs!Completed(p)) = Ready(c, Completed(p))
    /\ \A S, n : Runs!First(S, n) <=> First(S, n)
<1>1. Runs!FreshLoops = FreshLoops
    BY Zenon DEF Runs!FreshLoops, FreshLoops
<1>2. \A c, p, l : Runs!Checkpoint(c, p, l) = Checkpoint(c, p, l)
    BY Zenon DEF Runs!Checkpoint, Checkpoint
<1>3. \A n, k : Runs!BranchesTaken(n, k) = BranchesTaken(n, k)
    BY Zenon DEF Runs!BranchesTaken, BranchesTaken
<1>4. \A n, b : Runs!NextNodes(n, b) = NextNodes(n, b)
    BY Zenon DEF Runs!NextNodes, NextNodes, Runs!Along, Along, Runs!Outgoing, Outgoing
<1>5. \A n, b, k : Runs!LoopCount(n, b, k) = LoopCount(n, b, k)
    BY Zenon DEF Runs!LoopCount, LoopCount
<1>6. \A c, p : Runs!Ready(c, Runs!Completed(p)) = Ready(c, Completed(p))
    BY Zenon DEF Runs!Ready, Ready, Runs!NodeReady, NodeReady, Runs!Completed, Completed,
           Runs!Parents, Parents, Runs!Incoming, Incoming
<1>7. \A S, n : Runs!First(S, n) <=> First(S, n)
    BY Zenon DEF Runs!First, First
<1> QED BY <1>1, <1>2, <1>3, <1>4, <1>5, <1>6, <1>7

\* A step of one of the four shapes is a step of the sequential runs, or none.
LEMMA StepRuns ==
    ASSUME EngineInv, StepShape
    PROVE  [Runs!Next]_(Runs!runVars)
<1>1. CASE Goes
  <2>1. Phase' = Phase
    BY Zenon, <1>1 DEF Goes, Phase, StaysLive
  <2> QED BY Zenon, <1>1, <2>1 DEF Goes, Runs!runVars, Phase, progressVars
<1>2. ASSUME NEW x \in Execution, Ends(x)
      PROVE  [Runs!Next]_(Runs!runVars)
  <2>1. Phase[x] = "active"
    BY Zenon, <1>2 DEF Ends, Phase
  <2>2. \A y \in Execution \ {x} : Phase'[y] = Phase[y]
    BY Zenon, <1>2, PhaseKept DEF Ends, StaysLive
  <2>3. Phase'[x] = status'[x] /\ status'[x] \in {"failed", "cancelled"}
    BY Zenon, <1>2 DEF Ends, Phase, Live
  <2>4. Phase' = [Phase EXCEPT ![x] = status'[x]]
    BY Zenon, <2>2, <2>3 DEF Phase
  <2>5. Runs!End(x)
    BY Zenon, <1>2, <2>1, <2>3, <2>4 DEF Runs!End, Ends, Phase, progressVars
  <2> QED BY Zenon, <2>5 DEF Runs!Next
<1>3. ASSUME NEW x \in Execution, NEW n \in Node, NEW b \in BranchesTaken(n, loops[x][n]), Completes(x, n, b)
      PROVE  [Runs!Next]_(Runs!runVars)
  <2> DEFINE now == (current[x] \ {n}) \cup NextNodes(n, b)
             after == IF now = {} THEN "completed" ELSE "active"
  <2>1. Phase[x] = "active"
    BY Zenon, <1>3 DEF Completes, Phase
  <2>2. \A y \in Execution \ {x} : Phase'[y] = Phase[y]
    BY Zenon, <1>3, PhaseKept DEF Completes, StaysLive
  <2>3. Phase'[x] = after
    BY Zenon, <1>3 DEF Completes, Phase, Live
  <2>4. Phase' = [Phase EXCEPT ![x] = after]
    BY Zenon, <2>2, <2>3 DEF Phase
  <2>5. First(Ready(current[x], Completed(path[x])), n) /\ Len(path[x]) < MaxSteps
    BY Zenon, <1>3 DEF Completes, ReadyNodes, StepCount
  <2>6. /\ n \in Node /\ b \in Runs!BranchesTaken(n, loops[x][n])
        /\ Runs!First(Runs!Ready(current[x], Runs!Completed(path[x])), n)
    BY Zenon, <1>3, <2>5, SameGraph
  <2>7. LET then == (current[x] \ {n}) \cup Runs!NextNodes(n, b)
            walked == Append(path[x], n)
            counts == [loops[x] EXCEPT ![n] = Runs!LoopCount(n, b, loops[x][n])]
        IN  /\ current' = [current EXCEPT ![x] = then]
            /\ path' = [path EXCEPT ![x] = walked]
            /\ loops' = [loops EXCEPT ![x] = counts]
            /\ checkpoints' = [checkpoints EXCEPT ![x] = @ \cup {Runs!Checkpoint(then, walked, counts)}]
            /\ Phase' = [Phase EXCEPT ![x] = IF then = {} THEN "completed" ELSE "active"]
    <3>1. Walks(x, n, b)
      BY Zenon, <1>3 DEF Completes
    <3> QED BY Zenon, <2>4, <3>1, SameGraph DEF Walks
  <2>8. Runs!Step(x)
    BY <2>1, <2>5, <2>6, <2>7, Zenon DEF Runs!Step, Phase
  <2> QED BY Zenon, <2>8 DEF Runs!Next
<1>4. ASSUME NEW c \in Execution, NEW k, Creates(c, k)
      PROVE  [Runs!Next]_(Runs!runVars)
  <2>1. Phase[c] = "none" /\ Phase'[c] = "active"
    BY Zenon, <1>4 DEF Creates, CreateExecution, Phase, Live
  <2>2. \A y \in Execution \ {c} : Phase'[y] = Phase[y]
    BY Zenon, <1>4, PhaseKept DEF Creates
  <2>3. Phase' = [Phase EXCEPT ![c] = "active"]
    BY Zenon, <2>1, <2>2 DEF Phase
  <2>4. Runs!Create(c, k)
    BY Zenon, <1>4, <2>1, <2>3 DEF Creates, CreateExecution, Runs!Create, Phase
  <2>5. ASSUME NEW entry \in Entry, k = Beginning(entry) PROVE Runs!Start(c, entry)
    BY Zenon, <2>4, <2>5, SameGraph DEF Runs!Start, Beginning
  <2>6. ASSUME NEW origin \in Execution, k \in checkpoints[origin], k.current # {} PROVE Runs!Fork(c, origin)
    BY Zenon, <2>4, <2>6 DEF Runs!Fork
  <2> QED BY Zenon, <1>4, <2>5, <2>6 DEF Creates, Runs!Next
<1> QED BY Zenon, <1>1, <1>2, <1>3, <1>4 DEF StepShape

-----------------------------------------------------------------------------
\* Evidence.

\* A step changes the wait of a live execution only, and calls only while they are open.
OpenRowsOnly ==
    /\ \A y \in Execution : status[y] \notin Live => wait'[y] = wait[y]
    /\ \A c \in Execution : call[c].status \notin {"none", "pending"} => call'[c] = call[c]

\* Ending an execution changes open rows only.
LEMMA FinishOpens ==
    ASSUME EngineInv, NEW w \in Worker, worker[w] # Idle, Valid(w), NEW how, NEW code, NEW lapsed,
           Finish(w, how, code, lapsed)
    PROVE  OpenRowsOnly
<1>1. PICK e : worker[w].exec = e
    BY Zenon
<1>2. e \in Execution /\ status[e] = "running"
    BY Zenon, <1>1, ValidClaim
<1>3. \A y \in Execution \ {e} : wait'[y] = wait[y]
    BY <1>1, <1>2 DEF Finish, EngineInv, TypeOK
<1>4. \A c \in Execution : call[c].status # "pending" => call'[c] = call[c]
    BY Zenon, <1>1 DEF Finish, ClosedCalls, PendingCalls
<1> QED BY Zenon, <1>2, <1>3, <1>4 DEF OpenRowsOnly, Live

\* Failing an execution changes open rows only.
LEMMA FailOpens ==
    ASSUME EngineInv, NEW w \in Worker, worker[w] # Idle, Turn(w), NEW code, NEW lapsed, Fail(w, code, lapsed)
    PROVE  OpenRowsOnly
<1>1. CASE RollBack(w)
    BY Zenon, <1>1 DEF RollBack, OpenRowsOnly
<1>2. CASE Finish(w, "failed", code, lapsed)
    BY <1>2, FinishOpens DEF Turn
<1> QED BY Zenon, <1>1, <1>2 DEF Fail

\* An advance changes open rows only.
LEMMA AdvanceOpens ==
    ASSUME EngineInv, NEW w \in Worker, worker[w] # Idle, Advance(w)
    PROVE  OpenRowsOnly
<1>1. PICK e : worker[w].exec = e
    BY Zenon
<1>2. CASE AdvanceStale(w)
    BY Zenon, <1>2 DEF AdvanceStale, OpenRowsOnly
<1>3. CASE BeginAdvance(w)
  <2>1. CASE UNCHANGED <<wait, call>>
    BY Zenon, <2>1 DEF OpenRowsOnly
  <2>2. CASE Finish(w, "cancelled", "parent_subworkflow_cancelled", FALSE)
    BY Zenon, <1>3, <2>2, FinishOpens DEF BeginAdvance
  <2> QED BY Zenon, <1>3, <2>1, <2>2 DEF BeginAdvance
<1>4. CASE AdvanceRefused(w) \/ PolicyDenies(w) \/ WaitExpires(w) \/ CallTimesOut(w) \/ CallEnded(w)
  <2>1. Turn(w) /\ \E code : \E lapsed : Fail(w, code, lapsed)
    BY <1>4, Zenon DEF AdvanceRefused, PolicyDenies, WaitExpires, CallTimesOut, CallEnded, AtNode
  <2> QED BY Zenon, <2>1, FailOpens
<1>5. ASSUME Turn(w), NEW row, wait' = [wait EXCEPT ![e] = row], call' = call
      PROVE  OpenRowsOnly
  <2>1. e \in Execution /\ status[e] = "running"
    BY <1>1, <1>5, TurnClaim
  <2> QED BY Zenon, <1>5, <2>1 DEF OpenRowsOnly, Live, EngineInv, TypeOK
<1>6. CASE CreateWait(w)
  <2>1. /\ Turn(w)
        /\ \/ Fail(w, "workflow_wait_exceeds_deadline", FALSE)
           \/ call' = call /\ \E row : wait' = [wait EXCEPT ![e] = row]
    BY <1>1, <1>6, Zenon DEF CreateWait, AtNode
  <2> QED BY Zenon, <1>5, <2>1, FailOpens
<1>7. CASE CreateSubworkflow(w)
  <2>1. /\ Turn(w)
        /\ \/ Fail(w, "invalid_transition", FALSE)
           \/ /\ wait' = wait
              /\ \E c \in Execution : status[c] = "none" /\ \E row : call' = [call EXCEPT ![c] = row]
    BY <1>1, <1>7, Zenon DEF CreateSubworkflow, AtNode, CreateExecution
  <2>2. ASSUME NEW c \in Execution, status[c] = "none", NEW row, call' = [call EXCEPT ![c] = row], wait' = wait
        PROVE  OpenRowsOnly
    <3>1. call[c].status = "none"
      BY Zenon, <2>2, FreshRows
    <3> QED BY <2>2, <3>1 DEF OpenRowsOnly, EngineInv, TypeOK
  <2> QED BY Zenon, <2>1, <2>2, FailOpens
<1>8. CASE CompleteNode(w)
  <2>1. /\ Turn(w)
        /\ \/ RollBack(w)
           \/ Finish(w, "completed", "none", FALSE)
           \/ call' = call /\ \E row : wait' = [wait EXCEPT ![e] = row]
    BY <1>1, <1>8, Zenon DEF CompleteNode, AtNode, Requeue
  <2>2. CASE RollBack(w)
    BY Zenon, <2>2 DEF RollBack, OpenRowsOnly
  <2> QED BY Zenon, <1>5, <2>1, <2>2, FinishOpens DEF Turn
<1> QED
    BY Zenon, <1>2, <1>3, <1>4, <1>6, <1>7, <1>8 DEF Advance

\* So does every step of the engine: what is closed stays as it is.
LEMMA EveryStepOpens ==
    ASSUME EngineInv, [Next]_vars
    PROVE  OpenRowsOnly
<1>1. ASSUME NEW e \in Execution, ResolveWait(e) \/ WaitDue(e)
      PROVE  OpenRowsOnly
  <2>1. status[e] \in Live
    BY <1>1 DEF ResolveWait, WaitDue, EngineInv, WaitFits, Live
  <2>2. call' = call /\ \A y \in Execution \ {e} : wait'[y] = wait[y]
    BY Zenon, <1>1 DEF ResolveWait, WaitDue, EngineInv, TypeOK
  <2> QED BY Zenon, <2>1, <2>2 DEF OpenRowsOnly
<1>2. ASSUME NEW e \in Execution, CancelWorkflow(e)
      PROVE  OpenRowsOnly
  <2>1. status[e] \in Live /\ \A y \in Execution \ {e} : wait'[y] = wait[y]
    BY Zenon, <1>2 DEF CancelWorkflow, EngineInv, TypeOK, Live
  <2>2. \A c \in Execution : call[c].status # "pending" => call'[c] = call[c]
    BY Zenon, <1>2 DEF CancelWorkflow, PendingCalls
  <2> QED BY <2>1, <2>2 DEF OpenRowsOnly
<1>3. ASSUME NEW e \in Execution, FinalizeCancelled(e) \/ CallDue(e)
      PROVE  OpenRowsOnly
    BY Zenon, <1>3 DEF FinalizeCancelled, CallDue, OpenRowsOnly, EngineInv, TypeOK
<1>4. ASSUME NEW e \in Execution, DeadlinePasses(e)
      PROVE  OpenRowsOnly
  <2>1. status[e] \in Live /\ \A y \in Execution \ {e} : wait'[y] = wait[y]
    BY Zenon, <1>4 DEF DeadlinePasses, EngineInv, TypeOK
  <2>2. ASSUME NEW c \in Execution, call[c].status # "pending"
        PROVE  call'[c] = call[c]
    <3>1. call'[c] = [call[c] EXCEPT !.due = @ \/ c \in PendingCalls(e)] /\ call[c] \in CallRow
      BY Zenon, <1>4 DEF DeadlinePasses, EngineInv, TypeOK
    <3>2. (call[c].due \/ c \in PendingCalls(e)) <=> call[c].due
      BY Zenon, <2>2 DEF PendingCalls
    <3> QED BY <3>1, <3>2 DEF CallRow
  <2> QED BY Zenon, <2>1, <2>2 DEF OpenRowsOnly
<1>5. ASSUME UNCHANGED <<wait, call>> PROVE OpenRowsOnly
    BY Zenon, <1>5 DEF OpenRowsOnly
<1>6. ASSUME NEW w \in Worker, WorkerFails(w)
      PROVE  OpenRowsOnly
    BY Zenon, <1>5, <1>6 DEF WorkerFails, RollBack
<1> QED
    BY <1>1, <1>2, <1>3, <1>4, <1>5, <1>6, AdvanceOpens
       DEF Next, StartWorkflow, ForkWorkflow, LeaseExpires, ClaimReady, vars

\* What a sealed execution's evidence lists never changes again.
LEMMA EvidenceStep ==
    ASSUME EngineInv, [Next]_vars, NEW e \in Execution, sealed[e]
    PROVE  /\ status'[e] = status[e]
           /\ path'[e] = path[e]
           /\ wait'[e] = wait[e]
           /\ \A c \in Execution : call[c].parent = e => call'[c] = call[c]
<1>1. status[e] \in Terminal
    BY Zenon DEF EngineInv
<1>2. status[e] \notin Live /\ status[e] # "none"
    BY Zenon, <1>1 DEF Terminal, Live
<1>3. \A c \in Execution : call[c].parent = e => call[c].status \notin {"none", "pending"}
    BY <1>2, EngineAssumption DEF EngineInv, CallFits, IsChild
<1>4. OpenRowsOnly /\ StepShape
    BY Zenon, EveryStepOpens, EveryShape
<1>5. status'[e] = status[e] /\ path'[e] = path[e]
  <2>1. CASE Goes
    BY Zenon, <1>2, <2>1 DEF Goes, StaysLive, progressVars
  <2>2. ASSUME NEW x \in Execution, Ends(x) PROVE status'[e] = status[e] /\ path'[e] = path[e]
    BY Zenon, <1>2, <2>2 DEF Ends, progressVars
  <2>3. ASSUME NEW x \in Execution, NEW n \in Node, NEW b, Completes(x, n, b) PROVE status'[e] = status[e] /\ path'[e] = path[e]
    BY <1>2, <2>3 DEF Completes, Walks, EngineInv, TypeOK
  <2>4. ASSUME NEW c \in Execution, NEW k, Creates(c, k) PROVE status'[e] = status[e] /\ path'[e] = path[e]
    BY Zenon, <1>2, <2>4 DEF Creates, CreateExecution, StaysLive, EngineInv, TypeOK
  <2> QED BY Zenon, <1>4, <2>1, <2>2, <2>3, <2>4 DEF StepShape
<1> QED BY Zenon, <1>2, <1>3, <1>4, <1>5 DEF OpenRowsOnly

-----------------------------------------------------------------------------
\* Joins.

\* On a path, every predecessor of a join comes before it.
Ordered(p) ==
    \A i \in DOMAIN p : TypeOf[p[i]] = "join" =>
        \A m \in Parents(p[i]) : \E j \in 1..(i - 1) : p[j] = m

\* No execution runs a join before all of its predecessors have run, and neither does a
\* fork, which goes on from a checkpoint of another execution.
PathsOrdered ==
    \A e \in Execution : Ordered(path[e]) /\ \A k \in checkpoints[e] : Ordered(k.path)

\* A path stays ordered when it goes on to a ready node (_node_ready).
LEMMA ReadyKeepsOrder ==
    ASSUME NEW p \in Seq(Node), Ordered(p), NEW n \in Node, NodeReady(n, Completed(p))
    PROVE  Ordered(Append(p, n))
<1> SUFFICES ASSUME NEW i \in 1..(Len(p) + 1), TypeOf[Append(p, n)[i]] = "join",
                    NEW m \in Parents(Append(p, n)[i])
             PROVE  \E j \in 1..(i - 1) : Append(p, n)[j] = m
    BY DEF Ordered
<1>1. CASE i = Len(p) + 1
  <2>1. Append(p, n)[i] = n
    BY <1>1
  <2>2. PICK j \in DOMAIN p : p[j] = m
    BY Zenon, <2>1 DEF NodeReady, Completed
  <2>3. j \in 1..(i - 1) /\ Append(p, n)[j] = m
    BY <1>1, <2>2
  <2> QED BY Zenon, <2>3
<1>2. CASE i \in 1..Len(p)
  <2>1. Append(p, n)[i] = p[i] /\ i \in DOMAIN p
    BY <1>2
  <2>2. PICK j \in 1..(i - 1) : p[j] = m
    BY Zenon, <2>1 DEF Ordered
  <2>3. Append(p, n)[j] = m
    BY <1>2, <2>2
  <2> QED BY Zenon, <2>3
<1> QED BY <1>1, <1>2

\* Every step of the engine keeps the paths and the checkpoints ordered.
LEMMA StepKeepsOrder ==
    ASSUME EngineInv, PathsOrdered, StepShape
    PROVE  PathsOrdered'
<1> USE DEF PathsOrdered
<1>1. CASE Goes \/ \E x \in Execution : Ends(x)
    BY Zenon, <1>1 DEF Goes, Ends, progressVars
<1>2. ASSUME NEW x \in Execution, NEW n \in Node, NEW b, Completes(x, n, b)
      PROVE  PathsOrdered'
  <2>1. path[x] \in Seq(Node) /\ path \in [Execution -> Seq(Node)]
        /\ checkpoints \in [Execution -> SUBSET CheckpointRow]
    BY Zenon DEF EngineInv, TypeOK
  <2>2. Ordered(Append(path[x], n))
    BY Zenon, <1>2, <2>1, ReadyKeepsOrder DEF Completes, First, ReadyNodes, Ready
  <2>3. /\ path' = [path EXCEPT ![x] = Append(path[x], n)]
        /\ \E k : k.path = Append(path[x], n) /\ checkpoints' = [checkpoints EXCEPT ![x] = @ \cup {k}]
    BY Zenon, <1>2 DEF Completes, Walks, Checkpoint
  <2> QED BY Zenon, <2>1, <2>2, <2>3
<1>3. ASSUME NEW c \in Execution, NEW k, Creates(c, k)
      PROVE  PathsOrdered'
  <2>1. Ordered(k.path)
    <3>1. \A entry : Beginning(entry).path = <<>>
      BY Zenon DEF Beginning, Checkpoint
    <3>2. Ordered(<<>>)
      BY DEF Ordered
    <3> QED BY Zenon, <1>3, <3>1, <3>2 DEF Creates
  <2>2. /\ path \in [Execution -> Seq(Node)]
        /\ checkpoints \in [Execution -> SUBSET CheckpointRow]
    BY Zenon DEF EngineInv, TypeOK
  <2> QED BY Zenon, <1>3, <2>1, <2>2 DEF Creates, CreateExecution
<1> QED BY Zenon, <1>1, <1>2, <1>3 DEF StepShape

-----------------------------------------------------------------------------
\* The end of an execution.

\* When a pending call is settled, its parent awaits the resume in place of the timeout.
LEMMA ParentResumes ==
    ASSUME EngineInv, NEW e \in Execution, call[e].status = "pending",
           NEW p, call[e].parent = p,
           path'[p] = path[p], wait'[p] = wait[p], status'[p] = status[p],
           \A c \in Execution : call'[c].parent = call[c].parent /\ call'[c].seq = call[c].seq,
           call'[e].status \in {"completed", "failed", "cancelled"},
           \A ev \in outbox' : ev.exec = p =>
              \/ ev \in outbox /\ ev # CallEvent(p, "timeout", e)
              \/ ev = CallEvent(p, "settled", e)
              \/ ev = StopEvent(p) /\ call'[p].status \in {"cancelled", "timed_out"},
           CallEvent(p, "settled", e) \in outbox',
           dispatched' \subseteq dispatched,
           call[p].status \in {"cancelled", "timed_out"} => call'[p].status = call[p].status
    PROVE  EventsFit(p)'
<1> DEFINE settled == CallEvent(p, "settled", e)
<1>1. /\ p \in Execution \ {e} /\ status[p] \in Live /\ e \in CallsHere(p)
      /\ \A ev : Awaits(p, ev) <=> ev = CallEvent(p, "timeout", e)
      /\ settled \notin outbox
    BY Zenon, PendingCall
<1>2. CallsHere(p)' = CallsHere(p)
    BY Zenon DEF CallsHere, StepCount
<1>3. Awaits(p, settled)'
    BY Zenon, <1>1, <1>2 DEF Awaits, CallEvent
<1>4. settled \notin dispatched'
    BY Zenon, <1>1 DEF EngineInv, TypeOK
<1>5. EventsFit(p)
    BY Zenon, <1>1 DEF EngineInv
<1>6. ASSUME NEW ev \in outbox', ev.exec = p
      PROVE  /\ Awaits(p, ev)' \/ ev = StopEvent(p)
             /\ ev.kind = "stop" => call'[p].status \in {"cancelled", "timed_out"}
             /\ ev.kind # "finalize"
  <2>1. CASE ev \in outbox /\ ev # CallEvent(p, "timeout", e)
    BY Zenon, <1>1, <1>5, <1>6, <2>1 DEF EventsFit, Live, StopEvent
  <2>2. CASE ev = settled
    BY Zenon, <1>3, <2>2 DEF CallEvent
  <2>3. CASE ev = StopEvent(p) /\ call'[p].status \in {"cancelled", "timed_out"}
    BY Zenon, <2>3 DEF StopEvent
  <2> QED BY Zenon, <1>6, <2>1, <2>2, <2>3
<1> HIDE DEF settled
<1>7. settled \in outbox'
    BY Zenon DEF settled
<1>8. status'[p] \in Live
    BY Zenon, <1>1
<1> QED
    BY Zenon, <1>3, <1>4, <1>6, <1>7, <1>8 DEF EventsFit, Live, StopEvent

\* Nothing an execution waited for is left open at the step it completes.
StepIsDone(e) ==
    /\ wait[e].status \in {"none", "resolved"}
    /\ \A c \in Execution : call[c].parent = e => call[c].status = "completed"

\* A step ends execution e with status how, on event ev: no other execution moves,
OthersKept(e) ==
    \A x \in Execution \ {e} :
        /\ status'[x] = status[x] /\ sealed'[x] = sealed[x] /\ holder'[x] = holder[x]
        /\ wait'[x] = wait[x] /\ path'[x] = path[x] /\ current'[x] = current[x]

\* its open wait is closed, and a last step leaves nothing open behind it,
RowsClosed(e) ==
    /\ wait'[e].node = wait[e].node /\ wait'[e].seq = wait[e].seq
    /\ wait[e].status = "pending" => wait'[e].status \in {"expired", "cancelled"}
    /\ wait[e].status # "pending" => wait'[e] = wait[e]
    /\ path'[e] = path[e] \/ (Len(path'[e]) = Len(path[e]) + 1 /\ StepIsDone(e))

\* its open calls are given up, and the call that created it is settled,
CallsClosed(e, how) ==
    /\ e \notin PendingCalls(e)
    /\ \A c \in Execution :
        /\ call'[c].parent = call[c].parent /\ call'[c].node = call[c].node
        /\ call'[c].seq = call[c].seq
        /\ c \in PendingCalls(e) => call'[c].status \in {"cancelled", "timed_out"}
        /\ c = e /\ call[e].status = "pending" => call'[c].status = SettledAs(how)
        /\ c \notin PendingCalls(e) /\ ~ (c = e /\ call[e].status = "pending") => call'[c] = call[c]

\* and its parent p is resumed, its children told to stop.
OutboxClosed(e, p, ev) ==
    /\ dispatched' \subseteq dispatched
    /\ \A d : d \in outbox' <=>
        \/ d \in outbox /\ d # ev /\ (call[e].status = "pending" => d # CallEvent(p, "timeout", e))
        \/ call[e].status = "pending" /\ d = CallEvent(p, "settled", e)
        \/ \E c \in PendingCalls(e) : d = StopEvent(c)

Closing(e, p, how) ==
    /\ call[e].parent = p
    /\ call[e].status = "pending" => p \in Execution \ {e}
    /\ IsChild(e) => \/ call[e].status = "pending"
                     \/ call[e].status \in {"cancelled", "timed_out"} /\ how = "cancelled"
    /\ status[e] \in Live \/ status[e] = how
    /\ status'[e] = how
    /\ sealed'[e]

\* An execution that ends has no event of its own left that could wake it.
LEMMA OwnEventsClose ==
    ASSUME EngineInv, NEW e \in Execution, NEW p, NEW ev, NEW how \in Terminal,
           Closing(e, p, how), CallsClosed(e, how), OutboxClosed(e, p, ev)
    PROVE  EventsFit(e)'
<1>1. EventsFit(e)
    BY Zenon DEF EngineInv
<1>2. \A d \in outbox' : d.exec = e => d \in outbox
    BY DEF OutboxClosed, CallsClosed, Closing, CallEvent, StopEvent
<1>3. call[e].status \in {"cancelled", "timed_out"} => call'[e].status = call[e].status
    BY Zenon DEF CallsClosed, PendingCalls
<1>4. ASSUME NEW d \in outbox', d.exec = e
      PROVE  /\ d.kind = "stop" => call'[e].status \in {"cancelled", "timed_out"}
             /\ d.kind = "finalize" => how = "cancelled"
    BY Zenon, <1>1, <1>2, <1>3, <1>4 DEF EventsFit, Closing, Live
<1> QED BY Zenon, <1>4 DEF EventsFit, Closing, Terminal, Live

\* A parent whose pending call is settled awaits the settled event that comes with it.
LEMMA ParentEventsClose ==
    ASSUME EngineInv, NEW e \in Execution, NEW p, NEW ev, NEW how \in Terminal,
           Closing(e, p, how), OthersKept(e), CallsClosed(e, how), OutboxClosed(e, p, ev),
           call[e].status = "pending"
    PROVE  EventsFit(p)'
<1>1. p \in Execution \ {e} /\ call[e].parent = p
    BY Zenon DEF Closing
<1>2. \A d \in outbox' : d.exec = p =>
        \/ d \in outbox /\ d # CallEvent(p, "timeout", e)
        \/ d = CallEvent(p, "settled", e)
        \/ d = StopEvent(p) /\ call'[p].status \in {"cancelled", "timed_out"}
  <2>1. ASSUME NEW c \in PendingCalls(e), StopEvent(c).exec = p
        PROVE  StopEvent(c) = StopEvent(p) /\ call'[p].status \in {"cancelled", "timed_out"}
    BY Zenon, <1>1, <2>1 DEF CallsClosed, StopEvent
  <2> QED BY Zenon, <2>1 DEF OutboxClosed
<1>3. CallEvent(p, "settled", e) \in outbox' /\ dispatched' \subseteq dispatched
    BY Zenon DEF OutboxClosed
<1>4. call'[e].status \in {"completed", "failed", "cancelled"}
    BY Zenon DEF CallsClosed, SettledAs
<1>5. call[p].status \in {"cancelled", "timed_out"} => call'[p].status = call[p].status
    BY Zenon, <1>1 DEF CallsClosed, PendingCalls
<1>6. path'[p] = path[p] /\ wait'[p] = wait[p] /\ status'[p] = status[p]
    BY Zenon, <1>1 DEF OthersKept
<1>7. \A c \in Execution : call'[c].parent = call[c].parent /\ call'[c].seq = call[c].seq
    BY Zenon DEF CallsClosed
<1> QED BY Zenon, <1>1, <1>2, <1>3, <1>4, <1>5, <1>6, <1>7, ParentResumes

\* The events of other executions fit as before when one ends.
LEMMA OtherEventsClose ==
    ASSUME EngineInv, NEW e \in Execution, NEW p, NEW ev, ev.exec = e, NEW how \in Terminal,
           Closing(e, p, how), OthersKept(e), CallsClosed(e, how), OutboxClosed(e, p, ev),
           NEW x \in Execution \ {e}, ~ (x = p /\ call[e].status = "pending")
    PROVE  EventsFit(x)'
<1>1. RowsKept(x)
    BY DEF OthersKept, CallsClosed, Closing, RowsKept, PendingCalls
<1>2. \A d \in outbox' : d.exec = x =>
        \/ d \in outbox
        \/ d = StopEvent(x) /\ status[x] # "none" /\ call'[x].status \in {"cancelled", "timed_out"}
  <2>1. ASSUME NEW c \in PendingCalls(e), StopEvent(c).exec = x
        PROVE  /\ StopEvent(c) = StopEvent(x) /\ status[x] # "none"
               /\ call'[x].status \in {"cancelled", "timed_out"}
    <3>1. c = x
      BY Zenon, <2>1 DEF StopEvent
    <3>2. status[x] # "none"
      BY Zenon, <3>1, FreshRows DEF PendingCalls
    <3> QED BY Zenon, <3>1, <3>2 DEF CallsClosed
  <2> QED BY <2>1 DEF OutboxClosed, CallEvent
<1>3. \A d \in outbox : Awaits(x, d) => d \in outbox'
    BY AwaitsOwn DEF OutboxClosed, CallEvent
<1>4. FinalizeEvent(x) \in outbox => FinalizeEvent(x) \in outbox'
    BY DEF OutboxClosed, FinalizeEvent, CallEvent
<1>5. call[x].status \in {"cancelled", "timed_out"} => call'[x].status = call[x].status
    BY Zenon DEF CallsClosed, PendingCalls
<1>6. status'[x] = status[x] /\ sealed'[x] = sealed[x] /\ dispatched' \subseteq dispatched
    BY Zenon DEF OthersKept, OutboxClosed
<1> QED BY Zenon, <1>1, <1>2, <1>3, <1>4, <1>5, <1>6, EventsStay

\* The call that started an execution tells how the execution ended.
LEMMA OwnCallCloses ==
    ASSUME EngineInv, NEW e \in Execution, NEW p, NEW how \in Terminal,
           Closing(e, p, how), OthersKept(e), CallsClosed(e, how)
    PROVE  CallFits(e)'
<1>1. CallFits(e) /\ call'[e].parent = p
    BY Zenon DEF EngineInv, CallsClosed, Closing
<1>2. CASE IsChild(e)
  <2>1. p \in Execution \ {e}
    BY Zenon, <1>1, <1>2 DEF CallFits, Closing
  <2>2. StepCount(p)' = StepCount(p) /\ ReadyNodes(p)' = ReadyNodes(p) /\ status'[p] = status[p]
    BY Zenon, <2>1 DEF OthersKept, StepCount, ReadyNodes
  <2>3. /\ call'[e].status \in {"completed", "failed", "cancelled", "timed_out"}
        /\ call'[e].status = "completed" <=> how = "completed"
        /\ call'[e].status = "failed" <=> how = "failed"
        /\ call'[e].status = "timed_out" => call[e].status = "timed_out"
        /\ call[e].status # "completed"
    BY Zenon, <1>2 DEF CallsClosed, Closing, SettledAs, Terminal, PendingCalls
  <2>4. /\ call'[e].seq <= StepCount(p)' /\ ~ (call'[e].seq < StepCount(p)')
        /\ status'[p] # "none"
        /\ status'[p] \in Live /\ call'[e].seq = StepCount(p)' =>
             /\ call'[e].status # "timed_out"
             /\ TypeOf[call'[e].node] = "subworkflow"
             /\ First(ReadyNodes(p)', call'[e].node)
    BY <1>1, <1>2, <2>2, <2>3 DEF CallFits, CallsClosed, Closing
  <2> QED BY Zenon, <1>1, <2>1, <2>3, <2>4 DEF CallFits, Closing, IsChild, StepCount, ReadyNodes, Terminal
<1>3. CASE ~ IsChild(e)
    BY Zenon, <1>1, <1>3 DEF CallFits, CallsClosed, IsChild
<1> QED BY Zenon, <1>2, <1>3

\* The calls that an ended execution made are all closed.
LEMMA MadeCallsClose ==
    ASSUME EngineInv, TypeOK', NEW e \in Execution, NEW p, NEW how \in Terminal,
           Closing(e, p, how), OthersKept(e), RowsClosed(e), CallsClosed(e, how),
           NEW x \in Execution \ {e}, call[x].parent = e
    PROVE  CallFits(x)'
<1>1. CallFits(x) /\ call[x].seq \in Nat /\ Len(path[e]) \in Nat /\ Len(path'[e]) \in Nat
    BY DEF EngineInv, TypeOK, CallRow
<1>2. /\ IsChild(x) /\ status[x] # "none" /\ status'[x] = status[x]
      /\ call'[x].parent = e /\ call'[x].seq = call[x].seq
    BY Zenon, <1>1, EngineAssumption DEF CallFits, CallsClosed, OthersKept
<1>3. call'[x].seq <= Len(path'[e])
    BY <1>1, <1>2 DEF CallFits, RowsClosed, StepCount
<1>4. /\ call'[x].seq < Len(path'[e]) => call'[x].status = "completed"
      /\ call'[x].status \in {"completed", "failed", "cancelled", "timed_out"}
      /\ call'[x].status = "completed" <=> status[x] = "completed"
      /\ call'[x].status = "failed" <=> status[x] = "failed"
  <2>1. CASE call[x].status = "pending"
    <3>1. x \in PendingCalls(e) /\ path'[e] = path[e]
      BY Zenon, <2>1 DEF PendingCalls, RowsClosed, StepIsDone
    <3> QED BY Zenon, <1>1, <1>2, <2>1, <3>1 DEF CallFits, CallsClosed, StepCount
  <2>2. CASE call[x].status # "pending"
    <3>1. call'[x] = call[x]
      BY Zenon, <2>2 DEF CallsClosed, PendingCalls
    <3>2. call[x].status \in {"completed", "failed", "cancelled", "timed_out"}
      BY Zenon, <1>2, <2>2 DEF EngineInv, TypeOK, CallRow, IsChild
    <3>3. call[x].seq < Len(path'[e]) => call[x].status = "completed"
      BY Zenon, <1>1, <1>2 DEF CallFits, StepCount, RowsClosed, StepIsDone
    <3> QED BY Zenon, <1>1, <1>2, <3>1, <3>2, <3>3 DEF CallFits
  <2> QED BY Zenon, <2>1, <2>2
<1> QED
    BY Zenon, <1>2, <1>3, <1>4 DEF CallFits, Closing, IsChild, StepCount, Terminal, Live

\* The calls of other executions fit as before when one ends.
LEMMA OtherCallsClose ==
    ASSUME EngineInv, NEW e \in Execution, NEW p, NEW ev, ev.exec = e, NEW how \in Terminal,
           Closing(e, p, how), OthersKept(e), CallsClosed(e, how), OutboxClosed(e, p, ev),
           NEW x \in Execution \ {e}, call[x].parent # e
    PROVE  CallFits(x)'
<1>1. CallKept(x) /\ StaysLive(x)
    BY Zenon DEF CallKept, StaysLive, CallsClosed, OthersKept, PendingCalls
<1>2. IsChild(x) => call[x].parent \in Execution \ {e}
    BY Zenon DEF EngineInv, CallFits
<1>3. FinalizeEvent(x) \in outbox => FinalizeEvent(x) \in outbox'
    BY DEF OutboxClosed, FinalizeEvent, CallEvent
<1> QED BY Zenon, <1>1, <1>2, <1>3, CallStays DEF StaysLive, OthersKept

\* Every wait fits when an execution ends: its own is closed, the others are kept.
LEMMA WaitsClose ==
    ASSUME EngineInv, TypeOK', NEW e \in Execution, NEW p, NEW how \in Terminal,
           Closing(e, p, how), OthersKept(e), RowsClosed(e), CallsClosed(e, how),
           NEW x \in Execution
    PROVE  WaitFits(x)'
<1>1. /\ WaitFits(x) /\ wait[x].seq \in Nat
      /\ Len(path[x]) \in Nat /\ Len(path'[x]) \in Nat
    BY DEF EngineInv, TypeOK, WaitRow
<1>2. CASE x = e
  <2>1. wait[x].status # "none" =>
          /\ wait'[x].seq <= Len(path'[x])
          /\ wait'[x].seq < Len(path'[x]) => wait'[x].status = "resolved"
          /\ wait'[x].status # "pending"
    BY <1>1, <1>2 DEF WaitFits, StepCount, RowsClosed, StepIsDone
  <2>2. wait[x].status = "none" => wait'[x].status = "none"
    BY Zenon, <1>2 DEF RowsClosed
  <2> QED BY Zenon, <1>2, <2>1, <2>2 DEF WaitFits, Closing, StepCount, Terminal, Live
<1>3. CASE x # e
  <2>1. CallsHere(x)' = CallsHere(x) /\ StepCount(x)' = StepCount(x) /\ ReadyNodes(x)' = ReadyNodes(x)
    BY Zenon, <1>3 DEF CallsClosed, OthersKept, CallsHere, StepCount, ReadyNodes
  <2> QED BY Zenon, <1>1, <1>3, <2>1 DEF WaitFits, OthersKept
<1> QED BY Zenon, <1>2, <1>3

\* A claim on another execution survives, unless its event was the replaced timeout.
LEMMA ClaimSurvives ==
    ASSUME EngineInv, NEW e \in Execution, NEW p, NEW ev, ev.exec = e, NEW how \in Terminal,
           Closing(e, p, how), OthersKept(e), CallsClosed(e, how), OutboxClosed(e, p, ev),
           ~ SettlementBlocked(e),
           NEW v \in Worker, worker'[v] = worker[v], status[e] = "running" => holder[e] # v
    PROVE  ClaimFits(v)'
<1>1. ASSUME Advancing(v), Valid(v)
      PROVE  /\ worker[v].exec \in Execution \ {e} /\ worker[v].event \in outbox'
             /\ call[worker[v].exec].status # "none" => call'[worker[v].exec].status # "none"
  <2>1. worker[v] # Idle
    BY <1>1 DEF Advancing, Idle
  <2>2. /\ worker[v].exec \in Execution \ {e} /\ worker[v].event.exec = worker[v].exec
        /\ worker[v].event \in outbox
    BY <1>1, <2>1, ValidClaim
  <2>3. call[e].status = "pending" => worker[v].event # CallEvent(p, "timeout", e)
    BY Zenon, <1>1 DEF SettlementBlocked, EventLocked, Closing
  <2>4. worker[v].event \in outbox'
    BY Zenon, <2>2, <2>3 DEF OutboxClosed
  <2>5. call[worker[v].exec].status # "none" => call'[worker[v].exec].status # "none"
    BY Zenon, <2>2 DEF CallsClosed
  <2> QED BY Zenon, <2>2, <2>4, <2>5
<1> QED BY Zenon, <1>1, ClaimStays DEF Valid, OthersKept

\* Ending an execution keeps the engine consistent.
LEMMA CloseStep ==
    ASSUME EngineInv, TypeOK', NEW e \in Execution, NEW p, NEW ev, ev.exec = e, NEW how \in Terminal,
           Closing(e, p, how), OthersKept(e), RowsClosed(e), CallsClosed(e, how), OutboxClosed(e, p, ev),
           ~ SettlementBlocked(e),
           \A v \in Worker : \/ worker'[v] = Idle
                             \/ worker'[v] = worker[v] /\ (status[e] = "running" => holder[e] # v)
    PROVE  EngineInv'
<1>1. ASSUME NEW x \in Execution PROVE EventsFit(x)'
    BY Zenon, OwnEventsClose, ParentEventsClose, OtherEventsClose
<1>2. ASSUME NEW x \in Execution PROVE CallFits(x)'
    BY Zenon, OwnCallCloses, MadeCallsClose, OtherCallsClose
<1>3. ASSUME NEW x \in Execution PROVE WaitFits(x)'
    BY Zenon, WaitsClose
<1>4. ASSUME NEW v \in Worker PROVE ClaimFits(v)'
  <2>1. CASE worker'[v] = Idle
    BY Zenon, <2>1 DEF ClaimFits
  <2>2. CASE worker'[v] = worker[v] /\ (status[e] = "running" => holder[e] # v)
    BY Zenon, <2>2, ClaimSurvives
  <2> QED BY Zenon, <2>1, <2>2
<1>5. OneCallAStep'
    BY Zenon, OneCallStays DEF CallsClosed, PendingCalls
<1>6. (\A x \in Execution : sealed[x] => status[x] \in Terminal)'
    BY Zenon DEF EngineInv, OthersKept, Closing
<1> QED
    BY Zenon, <1>1, <1>2, <1>3, <1>4, <1>5, <1>6 DEF EngineInv

\* What finishing execution e makes of each call row: its own pending calls are given up,
\* the call that started it is settled, the others stay (_fail, settle_parent_subworkflow_call).
LEMMA ClosedCallRows ==
    ASSUME TypeOK, NEW e \in Execution, NEW how \in Terminal, NEW lapsed \in BOOLEAN, NEW c \in Execution,
           NEW q, ClosedCalls(e, how, lapsed)[c] = q
    PROVE  /\ q \in CallRow
           /\ q.parent = call[c].parent /\ q.node = call[c].node /\ q.seq = call[c].seq
           /\ c \in PendingCalls(e) => q.status \in {"cancelled", "timed_out"}
           /\ c = e /\ c \notin PendingCalls(e) /\ call[e].status = "pending" =>
                  q.status = SettledAs(how)
           /\ c \notin PendingCalls(e) /\ ~ (c = e /\ call[e].status = "pending") => q = call[c]
<1>1. call[c] \in CallRow
    BY Zenon DEF TypeOK
<1>2. SettledAs(how) \in {"completed", "failed", "cancelled"}
    BY Zenon DEF SettledAs
<1>3. CASE c \in PendingCalls(e)
  <2>1. CASE lapsed
    <3>1. q = [call[c] EXCEPT !.status = "timed_out"]
      BY Zenon, <1>3, <2>1 DEF ClosedCalls
    <3> QED BY <1>1, <1>3, <3>1, Zenon DEF CallRow
  <2>2. CASE ~ lapsed
    <3>1. q = [call[c] EXCEPT !.status = "cancelled"]
      BY Zenon, <1>3, <2>2 DEF ClosedCalls
    <3> QED BY <1>1, <1>3, <3>1, Zenon DEF CallRow
  <2> QED BY Zenon, <2>1, <2>2
<1>4. CASE c \notin PendingCalls(e) /\ c = e /\ call[e].status = "pending"
  <2>1. q = [call[c] EXCEPT !.status = SettledAs(how)]
    BY Zenon, <1>4 DEF ClosedCalls
  <2> QED BY <1>1, <1>2, <1>4, <2>1, Zenon DEF CallRow
<1>5. CASE c \notin PendingCalls(e) /\ ~ (c = e /\ call[e].status = "pending")
    BY <1>1, <1>5, Zenon DEF ClosedCalls
<1> QED BY Zenon, <1>3, <1>4, <1>5

\* Ending an execution keeps the types (_fail, _cancel_claimed_execution).
LEMMA FinishTypes ==
    ASSUME TypeOK, NEW w \in Worker, worker[w] # Idle,
           NEW how \in Terminal, NEW code \in Errors, NEW lapsed \in BOOLEAN,
           Finish(w, how, code, lapsed), ProgressTypes',
           call[worker[w].exec].status = "pending" => call[worker[w].exec].parent \in Execution
    PROVE  TypeOK'
<1> DEFINE e == worker[w].exec
<1>1. e \in Execution
    BY Zenon, ClaimTypes
<1>2. status' \in [Execution -> Live \cup Terminal \cup {"none"}] /\ error' \in [Execution -> Errors]
    BY Zenon, <1>1 DEF Finish, TypeOK
<1>3. /\ holder' \in [Execution -> Worker \cup {NoOne}]
      /\ lease' \in [Execution -> {"none", "live", "expired"}]
      /\ overdue' \in [Execution -> BOOLEAN]
      /\ sealed' \in [Execution -> BOOLEAN]
    BY Zenon, <1>1 DEF Finish, TypeOK
<1>4. wait' \in [Execution -> WaitRow]
  <2>1. ClosedWait(e, lapsed) \in WaitRow
    BY Zenon, <1>1, ClosedWaitRow
  <2> QED BY Zenon, <1>1, <2>1 DEF Finish, TypeOK
<1>5. call' \in [Execution -> CallRow]
  <2>1. \A c \in Execution : ClosedCalls(e, how, lapsed)[c] \in CallRow
    BY Zenon, <1>1, ClosedCallRows
  <2> QED BY <2>1, Zenon DEF Finish, ClosedCalls
<1>6. outbox' \subseteq Event /\ dispatched' \subseteq outbox'
  <2>1. outbox \ {worker[w].event} \subseteq Event
    BY Zenon DEF TypeOK
  <2>2. SettlementEvents(e, outbox \ {worker[w].event}) \subseteq Event
    BY Zenon, <1>1, <2>1, EventTypes DEF SettlementEvents
  <2>3. {StopEvent(c) : c \in PendingCalls(e)} \subseteq Event
    BY Zenon, EventTypes DEF PendingCalls
  <2> QED BY Zenon, <2>2, <2>3 DEF Finish
<1>7. worker' \in [Worker -> {Idle} \cup Claim]
    BY Zenon, WorkerIdles DEF Finish
<1> QED
    BY Zenon, <1>2, <1>3, <1>4, <1>5, <1>6, <1>7 DEF TypeOK, ProgressTypes

\* Ending an execution keeps the invariant (_fail, _cancel_claimed_execution).
LEMMA FinishStep ==
    ASSUME EngineInv, NEW w \in Worker, worker[w] # Idle, Valid(w),
           NEW e, worker[w].exec = e,
           NEW how \in Terminal, NEW code \in Errors, NEW lapsed \in BOOLEAN,
           Finish(w, how, code, lapsed), ProgressTypes',
           \A x \in Execution \ {e} : path'[x] = path[x] /\ current'[x] = current[x],
           path'[e] = path[e] \/ (Len(path'[e]) = Len(path[e]) + 1 /\ StepIsDone(e)),
           IsChild(e) =>
              \/ call[e].status = "pending" /\ how \in {"completed", "failed"}
              \/ call[e].status \in {"cancelled", "timed_out"} /\ how = "cancelled",
           ~ SettlementBlocked(e)
    PROVE  EngineInv'
<1>1. PICK ev, p : worker[w].event = ev /\ call[e].parent = p
    BY Zenon
<1>2. e \in Execution /\ ev.exec = e /\ status[e] = "running" /\ holder[e] = w
    BY Zenon, <1>1, ValidClaim
<1>3. e \notin PendingCalls(e) /\ (call[e].status = "pending" => p \in Execution \ {e})
    BY Zenon, <1>1, <1>2, PendingCall DEF PendingCalls
<1>4. TypeOK'
    BY Zenon, <1>1, <1>3, FinishTypes DEF EngineInv
<1>5. OthersKept(e) /\ status'[e] = how /\ sealed'[e]
    BY Zenon, <1>2 DEF Finish, EngineInv, TypeOK, OthersKept
<1>6. RowsClosed(e)
  <2>1. wait'[e] = ClosedWait(e, lapsed)
    BY Zenon, <1>2 DEF Finish, EngineInv, TypeOK
  <2> QED BY Zenon, <1>2, <2>1, ClosedWaitRow DEF EngineInv, RowsClosed
<1>7. CallsClosed(e, how)
  <2>1. \A c \in Execution : call'[c] = ClosedCalls(e, how, lapsed)[c]
    BY Zenon DEF Finish
  <2>2. TypeOK
    BY Zenon DEF EngineInv
  <2>3. ASSUME NEW c \in Execution
        PROVE  /\ call'[c].parent = call[c].parent /\ call'[c].node = call[c].node
               /\ call'[c].seq = call[c].seq
               /\ c \in PendingCalls(e) => call'[c].status \in {"cancelled", "timed_out"}
               /\ c = e /\ call[e].status = "pending" => call'[c].status = SettledAs(how)
               /\ c \notin PendingCalls(e) /\ ~ (c = e /\ call[e].status = "pending") =>
                      call'[c] = call[c]
    <3>1. PICK q : ClosedCalls(e, how, lapsed)[c] = q
      BY Zenon
    <3>2. call'[c] = q
      BY Zenon, <2>1, <3>1
    <3>3. /\ q.parent = call[c].parent /\ q.node = call[c].node /\ q.seq = call[c].seq
          /\ c \in PendingCalls(e) => q.status \in {"cancelled", "timed_out"}
          /\ c = e /\ c \notin PendingCalls(e) /\ call[e].status = "pending" =>
                 q.status = SettledAs(how)
          /\ c \notin PendingCalls(e) /\ ~ (c = e /\ call[e].status = "pending") => q = call[c]
      BY <1>2, <2>2, <3>1, ClosedCallRows
    <3> QED BY Zenon, <1>3, <3>2, <3>3
  <2> QED BY Zenon, <1>3, <2>3 DEF CallsClosed
<1>8. OutboxClosed(e, p, ev)
    BY Zenon, <1>1 DEF Finish, SettlementEvents, OutboxClosed
<1>9. Closing(e, p, how)
    BY Zenon, <1>1, <1>2, <1>3, <1>5 DEF Closing, Live
<1>10. worker'[w] = Idle /\ \A v \in Worker \ {w} : worker'[v] = worker[v]
    BY Zenon DEF Finish, EngineInv, TypeOK
<1> QED
    BY Zenon, <1>2, <1>4, <1>5, <1>6, <1>7, <1>8, <1>9, <1>10, CloseStep

\* Finalizing a cancelled execution settles the call that started it and no other.
LEMMA FinalizeTypes ==
    ASSUME TypeOK, NEW e \in Execution, FinalizeCancelled(e),
           call[e].status = "pending" => call[e].parent \in Execution
    PROVE  /\ TypeOK'
           /\ \A c \in Execution :
                /\ call'[c].parent = call[c].parent /\ call'[c].node = call[c].node
                /\ call'[c].seq = call[c].seq
                /\ c = e /\ call[e].status = "pending" => call'[c].status = "cancelled"
                /\ ~ (c = e /\ call[e].status = "pending") => call'[c] = call[c]
<1>1. outbox' \subseteq Event /\ dispatched' \subseteq outbox'
    BY Zenon, EventTypes DEF FinalizeCancelled, SettlementEvents, TypeOK
<1>2. sealed' \in [Execution -> BOOLEAN]
    BY Zenon DEF FinalizeCancelled, TypeOK
<1>3. CASE call[e].status = "pending"
  <2>0. call[e] \in CallRow
    BY Zenon DEF TypeOK
  <2>1. call' = [call EXCEPT ![e].status = "cancelled"]
    BY Zenon, <1>3 DEF FinalizeCancelled, SettledAs, TypeOK
  <2>2. call'[e] = [call[e] EXCEPT !.status = "cancelled"]
    BY Zenon, <2>1 DEF TypeOK
  <2>3. /\ call'[e] \in CallRow /\ call'[e].status = "cancelled"
        /\ call'[e].parent = call[e].parent /\ call'[e].node = call[e].node
        /\ call'[e].seq = call[e].seq
    BY <2>0, <2>2, Zenon DEF CallRow
  <2>4. \A c \in Execution \ {e} : call'[c] = call[c]
    BY Zenon, <2>1 DEF TypeOK
  <2>5. call' \in [Execution -> CallRow]
    BY Zenon, <2>1, <2>3, <2>4 DEF TypeOK
  <2> QED
    BY Zenon, <1>1, <1>2, <1>3, <2>3, <2>4, <2>5 DEF FinalizeCancelled, TypeOK, progressVars, claimVars
<1>4. CASE call[e].status # "pending"
    BY Zenon, <1>1, <1>2, <1>4 DEF FinalizeCancelled, TypeOK, progressVars, claimVars
<1> QED BY Zenon, <1>3, <1>4

\* Finalizing a cancelled execution keeps the invariant (finalize_cancelled_once).
LEMMA FinalizeStep ==
    ASSUME EngineInv, NEW e \in Execution, FinalizeCancelled(e)
    PROVE  EngineInv'
<1>1. PICK ev, p : FinalizeEvent(e) = ev /\ call[e].parent = p
    BY Zenon
<1>2. /\ status[e] = "cancelled" /\ ~ SettlementBlocked(e) /\ sealed'[e]
      /\ OthersKept(e) /\ UNCHANGED <<status, path, wait, worker>>
    BY Zenon DEF FinalizeCancelled, EngineInv, TypeOK, progressVars, claimVars, OthersKept
<1>3. PendingCalls(e) = {} /\ wait[e].status # "pending"
    BY Zenon, <1>2, PendingCall DEF PendingCalls, EngineInv, WaitFits, Live
<1>4. call[e].status = "pending" => p \in Execution \ {e}
    BY Zenon, <1>1, PendingCall
<1>5. TypeOK' /\ CallsClosed(e, "cancelled")
    BY Zenon, <1>1, <1>3, <1>4, FinalizeTypes DEF EngineInv, CallsClosed, SettledAs
<1>6. RowsClosed(e)
    BY Zenon, <1>2, <1>3 DEF RowsClosed
<1>7. OutboxClosed(e, p, ev)
    BY Zenon, <1>1, <1>3 DEF FinalizeCancelled, SettlementEvents, OutboxClosed
<1>8. Closing(e, p, "cancelled")
  <2>1. CallFits(e) /\ call[e] \in CallRow
    BY Zenon DEF EngineInv, TypeOK
  <2>2. IsChild(e) => call[e].status \in {"pending", "cancelled", "timed_out"}
    BY Zenon, <1>2, <2>1 DEF CallFits, CallRow, IsChild
  <2> QED BY Zenon, <1>1, <1>2, <1>4, <2>2 DEF Closing
<1>9. ev.exec = e /\ "cancelled" \in Terminal
    BY Zenon, <1>1 DEF FinalizeEvent, Terminal
<1> QED
    BY Zenon, <1>2, <1>5, <1>6, <1>7, <1>8, <1>9, CloseStep
=============================================================================
