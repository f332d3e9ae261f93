------------------------ MODULE WorkflowEngineSteps ------------------------
(***************************************************************************)
(* The engine's invariant is kept by the clocks, by the steps that claim,  *)
(* begin or go on with an execution, and by the resolutions and            *)
(* cancellations of callers.                                               *)
(***************************************************************************)
EXTENDS WorkflowEngineProofs

\* The clocks, the claims and the beginning of an execution.

\* Only clocks move: what a row says apart from its due column is kept.
ClocksOnly ==
    /\ \A e \in Execution :
          /\ wait'[e].node = wait[e].node /\ wait'[e].seq = wait[e].seq
          /\ wait'[e].status = wait[e].status
    /\ \A c \in Execution :
          /\ call'[c].parent = call[c].parent /\ call'[c].node = call[c].node
          /\ call'[c].seq = call[c].seq /\ call'[c].status = call[c].status
    /\ UNCHANGED <<status, error, holder, progressVars, sealed, outbox, dispatched, worker>>

\* A lease, timer or deadline running out changes nothing but clocks.
LEMMA ClockTypes ==
    ASSUME TypeOK, NEW e \in Execution,
           LeaseExpires(e) \/ WaitDue(e) \/ CallDue(e) \/ DeadlinePasses(e)
    PROVE  TypeOK' /\ ClocksOnly
<1>1. CASE LeaseExpires(e)
  <2>1. lease' \in [Execution -> {"none", "live", "expired"}]
    BY Zenon, <1>1 DEF LeaseExpires, TypeOK
  <2> QED BY Zenon, <1>1, <2>1 DEF LeaseExpires, TypeOK, ClocksOnly, progressVars
<1>2. CASE WaitDue(e)
  <2>0. wait[e] \in WaitRow
    BY Zenon DEF TypeOK
  <2>1. wait' = [wait EXCEPT ![e].due = TRUE]
    BY Zenon, <1>2 DEF WaitDue, TypeOK
  <2>2. wait'[e] = [wait[e] EXCEPT !.due = TRUE]
    BY Zenon, <2>1 DEF TypeOK
  <2>3. /\ wait'[e] \in WaitRow /\ wait'[e].node = wait[e].node /\ wait'[e].seq = wait[e].seq
        /\ wait'[e].status = wait[e].status
    BY <2>0, <2>2, Zenon DEF WaitRow
  <2>4. \A x \in Execution \ {e} : wait'[x] = wait[x]
    BY Zenon, <2>1 DEF TypeOK
  <2>5. wait' \in [Execution -> WaitRow]
    BY Zenon, <2>1, <2>3, <2>4 DEF TypeOK
  <2> QED BY Zenon, <1>2, <2>3, <2>4, <2>5 DEF WaitDue, TypeOK, ClocksOnly, progressVars, claimVars
<1>3. CASE CallDue(e)
  <2>0. call[e] \in CallRow
    BY Zenon DEF TypeOK
  <2>1. call' = [call EXCEPT ![e].due = TRUE]
    BY Zenon, <1>3 DEF CallDue, TypeOK
  <2>2. call'[e] = [call[e] EXCEPT !.due = TRUE]
    BY Zenon, <2>1 DEF TypeOK
  <2>3. /\ call'[e] \in CallRow /\ call'[e].parent = call[e].parent /\ call'[e].node = call[e].node
        /\ call'[e].seq = call[e].seq /\ call'[e].status = call[e].status
    BY <2>0, <2>2, Zenon DEF CallRow
  <2>4. \A x \in Execution \ {e} : call'[x] = call[x]
    BY Zenon, <2>1 DEF TypeOK
  <2>5. call' \in [Execution -> CallRow]
    BY Zenon, <2>1, <2>3, <2>4 DEF TypeOK
  <2> QED BY Zenon, <1>3, <2>3, <2>4, <2>5 DEF CallDue, TypeOK, ClocksOnly, progressVars, claimVars
<1>4. CASE DeadlinePasses(e)
  <2>0. wait[e] \in WaitRow
    BY Zenon DEF TypeOK
  <2>1. wait' = [wait EXCEPT ![e].due = @ \/ wait[e].status = "pending"]
    BY Zenon, <1>4 DEF DeadlinePasses, TypeOK
  <2>2. wait'[e] = [wait[e] EXCEPT !.due = @ \/ wait[e].status = "pending"]
    BY Zenon, <2>1 DEF TypeOK
  <2>3. (wait[e].due \/ wait[e].status = "pending") \in BOOLEAN
    BY Zenon
  <2>4. /\ wait'[e] \in WaitRow /\ wait'[e].node = wait[e].node /\ wait'[e].seq = wait[e].seq
        /\ wait'[e].status = wait[e].status
    BY <2>0, <2>2, <2>3, Zenon DEF WaitRow
  <2>5. \A x \in Execution \ {e} : wait'[x] = wait[x]
    BY Zenon, <2>1 DEF TypeOK
  <2>6. wait' \in [Execution -> WaitRow]
    BY Zenon, <2>1, <2>4, <2>5 DEF TypeOK
  <2>7. \A c \in Execution :
          /\ call'[c] \in CallRow /\ call'[c].parent = call[c].parent /\ call'[c].node = call[c].node
          /\ call'[c].seq = call[c].seq /\ call'[c].status = call[c].status
    <3> TAKE c \in Execution
    <3>1. call'[c] = [call[c] EXCEPT !.due = @ \/ c \in PendingCalls(e)] /\ call[c] \in CallRow
      BY Zenon, <1>4 DEF DeadlinePasses, TypeOK
    <3>2. (call[c].due \/ c \in PendingCalls(e)) \in BOOLEAN
      BY Zenon
    <3> QED BY <3>1, <3>2, Zenon DEF CallRow
  <2>8. call' \in [Execution -> CallRow]
    BY <1>4, <2>7, Zenon DEF DeadlinePasses
  <2>9. overdue' \in [Execution -> BOOLEAN]
    BY Zenon, <1>4 DEF DeadlinePasses, TypeOK
  <2> QED
    BY Zenon, <1>4, <2>4, <2>5, <2>6, <2>7, <2>8, <2>9
       DEF DeadlinePasses, TypeOK, ClocksOnly, progressVars, claimVars
<1> QED BY Zenon, <1>1, <1>2, <1>3, <1>4

\* A step that keeps the rows and the outbox, and idles a worker or begins an advance
\* that holds a claim.
LEMMA QuietStep ==
    ASSUME EngineInv, TypeOK', ClocksOnly \/ UNCHANGED <<status, holder, progressVars, wait, call, sealed,
                                                       outbox, dispatched>>,
           \A v \in Worker : worker'[v] = worker[v] \/ ClaimFits(v)'
    PROVE  EngineInv'
<1>1. \A x \in Execution : RowsKept(x) /\ CallKept(x) /\ StaysLive(x)
    BY Zenon DEF ClocksOnly, RowsKept, CallKept, StaysLive, progressVars
<1>2. UNCHANGED <<status, holder, path, current, sealed, outbox, dispatched>>
    BY Zenon DEF ClocksOnly, progressVars
<1>3. ASSUME NEW x \in Execution PROVE EventsFit(x)'
    BY Zenon, <1>1, <1>2, EventsStay DEF CallKept
<1>4. ASSUME NEW x \in Execution PROVE CallFits(x)'
  <2>1. IsChild(x) => call[x].parent \in Execution
    BY Zenon DEF EngineInv, CallFits
  <2> QED BY Zenon, <1>1, <1>2, <2>1, CallStays
<1>5. ASSUME NEW x \in Execution PROVE WaitFits(x)'
    BY Zenon, <1>1, WaitStays
<1>6. ASSUME NEW v \in Worker PROVE ClaimFits(v)'
  <2>1. CASE worker'[v] = worker[v]
    <3>1. Advancing(v) /\ Valid(v) => worker[v].exec \in Execution
      BY ClaimTypes DEF EngineInv, Advancing, Idle
    <3> QED BY Zenon, <1>1, <1>2, <2>1, <3>1, ClaimStays DEF Valid, CallKept
  <2> QED BY Zenon, <2>1
<1>7. OneCallAStep'
    BY Zenon, <1>1, OneCallStays DEF CallKept
<1>8. (\A e \in Execution : sealed[e] => status[e] \in Terminal)'
    BY Zenon, <1>2 DEF EngineInv
<1> QED
    BY Zenon, <1>3, <1>4, <1>5, <1>6, <1>7, <1>8 DEF EngineInv

\* The clocks keep the invariant.
LEMMA ClockStep ==
    ASSUME EngineInv, NEW e \in Execution,
           LeaseExpires(e) \/ WaitDue(e) \/ CallDue(e) \/ DeadlinePasses(e)
    PROVE  EngineInv'
<1>1. TypeOK' /\ ClocksOnly
    BY Zenon, ClockTypes DEF EngineInv
<1> QED
    BY Zenon, <1>1, QuietStep DEF ClocksOnly

\* A worker that loses its claim rolls back and keeps the invariant (advance).
LEMMA RollBackStep ==
    ASSUME EngineInv, NEW w \in Worker, RollBack(w)
    PROVE  EngineInv'
<1>1. TypeOK'
    BY Zenon, WorkerIdles DEF EngineInv, RollBack, TypeOK, progressVars, claimVars
<1>2. worker'[w] = Idle /\ \A v \in Worker \ {w} : worker'[v] = worker[v]
    BY Zenon, WorkerIdles DEF EngineInv, RollBack
<1>3. ClaimFits(w)'
    BY Zenon, <1>2 DEF ClaimFits
<1> QED
    BY Zenon, <1>1, <1>2, <1>3, QuietStep DEF RollBack, claimVars

\* Starting an advance with a pending call keeps the types (advance).
LEMMA BeginTypes ==
    ASSUME TypeOK, NEW w \in Worker, worker[w] # Idle,
           worker' = [worker EXCEPT ![w].phase = "advancing"],
           UNCHANGED <<status, error, claimVars, overdue, progressVars, wait, call, sealed,
                       outbox, dispatched>>
    PROVE  TypeOK'
<1>1. worker[w] \in Claim
    BY Zenon, ClaimTypes
<1>2. [worker[w] EXCEPT !.phase = "advancing"] \in Claim
    BY Zenon, <1>1 DEF Claim
<1>3. worker' \in [Worker -> {Idle} \cup Claim]
    BY Zenon, <1>2 DEF TypeOK
<1> QED
    BY Zenon, <1>3 DEF TypeOK, progressVars, claimVars

\* Starting an advance with a pending call keeps the invariant (advance).
LEMMA BeginStep ==
    ASSUME EngineInv, NEW w \in Worker, worker[w] # Idle, Valid(w),
           call[worker[w].exec].status = "pending",
           worker' = [worker EXCEPT ![w].phase = "advancing"],
           UNCHANGED <<status, error, claimVars, overdue, progressVars, wait, call, sealed,
                       outbox, dispatched>>
    PROVE  EngineInv'
<1>1. TypeOK'
    BY Zenon, BeginTypes DEF EngineInv
<1>2. \A v \in Worker \ {w} : worker'[v] = worker[v]
    BY Zenon DEF EngineInv, TypeOK
<1>3. worker[w] \in Claim
    BY Zenon, ClaimTypes DEF EngineInv
<1>4. worker'[w] = [worker[w] EXCEPT !.phase = "advancing"]
    BY Zenon DEF EngineInv, TypeOK
<1>5. worker'[w].exec = worker[w].exec /\ worker'[w].event = worker[w].event
    BY Zenon, <1>3, <1>4 DEF Claim
<1>6. ClaimFits(w)'
    BY <1>5, ValidClaim DEF ClaimFits, Valid, IsChild, claimVars
<1> QED
    BY Zenon, <1>1, <1>2, <1>6, QuietStep DEF claimVars

\* Claiming an event keeps the types (claim_ready).
LEMMA ClaimReadyTypes ==
    ASSUME TypeOK, NEW w \in Worker, NEW ev \in outbox, ClaimReady(w, ev)
    PROVE  TypeOK'
<1>1. ev \in Event /\ ev.exec \in Execution
    BY Zenon DEF TypeOK, Event
<1>2. [phase |-> "claimed", exec |-> ev.exec, event |-> ev] \in Claim
    BY Zenon, <1>1 DEF Claim
<1>3. worker' \in [Worker -> {Idle} \cup Claim]
    BY Zenon, <1>2 DEF ClaimReady, TypeOK
<1>4. status' \in [Execution -> Live \cup Terminal \cup {"none"}]
    BY Zenon DEF ClaimReady, TypeOK, Live
<1>5. /\ holder' \in [Execution -> Worker \cup {NoOne}]
      /\ lease' \in [Execution -> {"none", "live", "expired"}]
      /\ outbox' \subseteq Event
      /\ dispatched' \subseteq outbox'
    BY Zenon DEF ClaimReady, TypeOK
<1> QED
    BY Zenon, <1>3, <1>4, <1>5 DEF ClaimReady, TypeOK, progressVars

\* A claim of the awaited event keeps the invariant, and puts its execution to running
\* only from a state in which it awaits that event (claim_ready).
LEMMA ClaimReadyStep ==
    ASSUME EngineInv, NEW w \in Worker, NEW ev \in outbox, ClaimReady(w, ev)
    PROVE  EngineInv'
<1> DEFINE e == ev.exec
<1>1. TypeOK'
    BY Zenon, ClaimReadyTypes DEF EngineInv
<1>2. e \in Execution /\ status[e] \in Live /\ ~ RowLocked(e)
    BY Zenon DEF EngineInv, TypeOK, Event, ClaimReady, Claimable, Recoverable, Live
<1>3. status'[e] = "running" /\ \A x \in Execution \ {e} : status'[x] = status[x]
    BY Zenon, <1>2 DEF EngineInv, TypeOK, ClaimReady
<1>4. \A x \in Execution : RowsKept(x) /\ CallKept(x) /\ StaysLive(x)
    BY Zenon, <1>2, <1>3 DEF ClaimReady, RowsKept, CallKept, StaysLive, progressVars, Live
<1>5. outbox' = outbox /\ sealed' = sealed /\ dispatched' = dispatched \cup {ev} /\ UNCHANGED <<path, current, call>>
    BY Zenon DEF ClaimReady, progressVars
<1>6. ASSUME NEW x \in Execution PROVE EventsFit(x)'
  <2>1. CASE x = e
    <3>1. EventsFit(e)
      BY Zenon, <1>2 DEF EngineInv
    <3>2. \A d : Awaits(e, d)' <=> Awaits(e, d)
      BY Zenon, <1>2, <1>4, KeptReading
    <3>3. \E d \in outbox : Awaits(e, d)
      BY Zenon, <1>2, <3>1 DEF EventsFit
    <3>4. \A d \in outbox : d.exec = e =>
            /\ Awaits(e, d) \/ d = StopEvent(e)
            /\ d.kind = "stop" => call[e].status \in {"cancelled", "timed_out"}
            /\ d.kind # "finalize"
      BY Zenon, <1>2, <3>1 DEF EventsFit, Live
    <3> HIDE DEF e
    <3> QED BY Zenon, <1>3, <1>5, <2>1, <3>2, <3>3, <3>4 DEF EventsFit, StopEvent
  <2>2. CASE x # e
    <3>1. \A d \in outbox : Awaits(x, d) => d # ev
      BY Zenon, <2>2, AwaitsOwn
    <3> QED BY Zenon, <1>3, <1>4, <1>5, <2>2, <3>1, EventsStay DEF CallKept
  <2> QED BY Zenon, <2>1, <2>2
<1>7. ASSUME NEW x \in Execution PROVE CallFits(x)'
  <2>1. IsChild(x) => call[x].parent \in Execution
    BY Zenon DEF EngineInv, CallFits
  <2> QED BY Zenon, <1>4, <1>5, <2>1, CallStays
<1>8. ASSUME NEW x \in Execution PROVE WaitFits(x)'
    BY Zenon, <1>4, WaitStays
<1>9. ASSUME NEW v \in Worker PROVE ClaimFits(v)'
  <2>1. CASE v = w
    BY Zenon, <2>1 DEF EngineInv, TypeOK, ClaimReady, ClaimFits, Advancing
  <2>2. CASE v # w
    <3>1. worker'[v] = worker[v]
      BY Zenon, <2>2 DEF EngineInv, TypeOK, ClaimReady
    <3>2. Advancing(v) => worker[v].exec # e /\ worker[v].exec \in Execution
      BY <1>2, ClaimTypes DEF EngineInv, RowLocked, Advancing, Idle
    <3>3. \A x \in Execution \ {e} : holder'[x] = holder[x]
      BY Zenon, <1>2 DEF EngineInv, TypeOK, ClaimReady
    <3> QED BY Zenon, <1>3, <1>5, <3>1, <3>2, <3>3, ClaimStays DEF Valid
  <2> QED BY Zenon, <2>1, <2>2
<1>10. OneCallAStep'
    BY Zenon, <1>4, OneCallStays DEF CallKept
<1>11. (\A x \in Execution : sealed[x] => status[x] \in Terminal)'
    BY Zenon, <1>2, <1>3, <1>5 DEF EngineInv, Live, Terminal
<1> QED
    BY Zenon, <1>1, <1>6, <1>7, <1>8, <1>9, <1>10, <1>11 DEF EngineInv

\* Creating an execution keeps the types (_create_execution_records).
LEMMA CreateRootTypes ==
    ASSUME TypeOK, NEW e \in Execution, NEW k \in CheckpointRow, CreateExecution(e, k),
           status' = [status EXCEPT ![e] = "queued"],
           outbox' = outbox \cup {ReadyEvent(e, Len(k.path))},
           UNCHANGED <<error, claimVars, overdue, wait, call, sealed, dispatched, worker>>
    PROVE  TypeOK'
<1>1. ProgressTypes'
    BY Zenon, CreateTypes
<1>2. Len(k.path) \in Nat
    BY DEF CheckpointRow
<1>3. outbox' \subseteq Event
    BY Zenon, <1>2, EventTypes DEF TypeOK
<1>4. status' \in [Execution -> Live \cup Terminal \cup {"none"}]
    BY Zenon DEF TypeOK, Live
<1> QED
    BY Zenon, <1>1, <1>3, <1>4 DEF TypeOK, ProgressTypes, claimVars

\* Creating an execution from outside keeps the invariant (_create_execution_records).
LEMMA CreateRootStep ==
    ASSUME EngineInv, NEW e \in Execution, NEW k \in CheckpointRow, CreateExecution(e, k),
           status' = [status EXCEPT ![e] = "queued"],
           outbox' = outbox \cup {ReadyEvent(e, Len(k.path))},
           UNCHANGED <<error, claimVars, overdue, wait, call, sealed, dispatched, worker>>
    PROVE  EngineInv'
<1>1. TypeOK'
    BY Zenon, CreateRootTypes DEF EngineInv
<1>2. status[e] = "none" /\ status'[e] = "queued" /\ \A x \in Execution \ {e} : status'[x] = status[x]
    BY Zenon DEF EngineInv, TypeOK, CreateExecution
<1>3. path'[e] = k.path /\ \A x \in Execution \ {e} : path'[x] = path[x] /\ current'[x] = current[x]
    BY Zenon DEF EngineInv, TypeOK, CreateExecution
<1>4. Len(k.path) \in Nat
    BY DEF CheckpointRow
<1>5. UNCHANGED <<wait, call, sealed, dispatched, worker, holder>>
    BY Zenon DEF claimVars
<1>6. /\ \A ev \in outbox : ev.exec # e
      /\ \A d \in Execution : call[d].parent # e
      /\ wait[e].status = "none" /\ call[e].status = "none" /\ call[e].parent = NoOne /\ ~ sealed[e]
    BY Zenon, <1>2, FreshRows
<1>7. \A x \in Execution \ {e} : RowsKept(x) /\ CallKept(x) /\ StaysLive(x)
    BY Zenon, <1>2, <1>3, <1>5 DEF RowsKept, CallKept, StaysLive
<1>8. ASSUME NEW x \in Execution PROVE EventsFit(x)'
  <2>1. CASE x = e
    <3>1. \A ev : Awaits(e, ev)' <=> ev = ReadyEvent(e, Len(k.path))
      BY Zenon, <1>3, <1>4, <1>5, <1>6, FreshAwaits
    <3>2. ReadyEvent(e, Len(k.path)) \notin dispatched
      BY Zenon, <1>6 DEF EngineInv, TypeOK, ReadyEvent
    <3>3. \A ev \in outbox' : ev.exec = e => ev = ReadyEvent(e, Len(k.path))
      BY Zenon, <1>6
    <3> QED BY <1>2, <1>5, <2>1, <3>1, <3>2, <3>3 DEF EventsFit, ReadyEvent
  <2>2. CASE x # e
    <3>1. \A ev \in outbox' : ev.exec = x => ev \in outbox
      BY <2>2 DEF ReadyEvent
    <3> QED BY Zenon, <1>2, <1>5, <1>7, <2>2, <3>1, EventsStay
  <2> QED BY Zenon, <2>1, <2>2
<1>9. ASSUME NEW x \in Execution PROVE CallFits(x)'
  <2>1. CASE x = e
    BY Zenon, <1>5, <1>6, <2>1 DEF CallFits, IsChild
  <2>2. CASE x # e
    <3>1. IsChild(x) => call[x].parent \in Execution \ {e}
      BY Zenon, <1>6 DEF EngineInv, CallFits
    <3> QED BY Zenon, <1>3, <1>7, <2>2, <3>1, CallStays
  <2> QED BY Zenon, <2>1, <2>2
<1>10. ASSUME NEW x \in Execution PROVE WaitFits(x)'
  <2>1. CASE x = e
    BY Zenon, <1>5, <1>6, <2>1 DEF WaitFits
  <2> QED BY Zenon, <1>7, <2>1, WaitStays
<1>11. ASSUME NEW v \in Worker PROVE ClaimFits(v)'
  <2>1. Advancing(v) /\ Valid(v) => worker[v].exec \in Execution \ {e}
    BY <1>2, ClaimTypes DEF EngineInv, Advancing, Idle, Valid
  <2> QED BY Zenon, <1>2, <1>5, <2>1, ClaimStays DEF Valid
<1>12. OneCallAStep'
    BY Zenon, <1>5, OneCallStays
<1>13. (\A x \in Execution : sealed[x] => status[x] \in Terminal)'
    BY Zenon, <1>2, <1>5, <1>6 DEF EngineInv
<1> QED
    BY Zenon, <1>1, <1>8, <1>9, <1>10, <1>11, <1>12, <1>13 DEF EngineInv

-----------------------------------------------------------------------------
\* Going on, and parking.

\* A node that waits or calls has an edge to go on by, and a call's target is deployed.
LEMMA WaitsGoOn ==
    ASSUME NEW n \in Node, TypeOf[n] \in WaitTypes \cup {"subworkflow"},
           NEW k, NEW b \in BranchesTaken(n, k)
    PROVE  NextNodes(n, b) # {}
<1>1. NodeShape(n)
    BY Zenon, DeploymentAssumption DEF Executable
<1>2. CASE TypeOf[n] = "approval"
  <2>1. {d.branch : d \in Outgoing(n)} = {"approved", "denied"}
    BY Zenon, <1>1, <1>2 DEF NodeShape, Branches
  <2>2. PICK d \in Outgoing(n) : d.branch = b
    BY Zenon, <2>1, <1>2 DEF BranchesTaken
  <2> QED BY Zenon, <2>2, <1>2 DEF NextNodes, Along
<1>3. CASE TypeOf[n] # "approval"
  <2>1. {d.branch : d \in Outgoing(n)} = {"default"}
    BY Zenon, <1>1, <1>3 DEF NodeShape, Branches, WaitTypes
  <2>2. PICK d \in Outgoing(n) : TRUE
    BY Zenon, <2>1
  <2> QED BY Zenon, <2>2, <1>3 DEF NextNodes, WaitTypes
<1> QED BY Zenon, <1>2, <1>3

\* Going past a node keeps the progress rows well typed (_next_nodes).
LEMMA WalkTypes ==
    ASSUME TypeOK, NEW e \in Execution, NEW n \in Node, NEW b, Walks(e, n, b)
    PROVE  ProgressTypes'
<1> DEFINE now == (current[e] \ {n}) \cup NextNodes(n, b)
           walked == Append(path[e], n)
           counts == [loops[e] EXCEPT ![n] = LoopCount(n, b, loops[e][n])]
<1>1. now \in SUBSET Node
  <2>1. \A d \in Outgoing(n) : d.target \in Node
    BY Zenon, DeploymentAssumption DEF Outgoing
  <2>2. NextNodes(n, b) \subseteq Node
    BY Zenon, <2>1 DEF NextNodes, Along
  <2> QED BY Zenon, <2>2 DEF TypeOK
<1>2. walked \in Seq(Node)
    BY DEF TypeOK
<1>3. counts \in [Node -> Nat]
    BY DEF TypeOK, LoopCount
<1>4. Checkpoint(now, walked, counts) \in CheckpointRow
    BY Zenon, <1>1, <1>2, <1>3 DEF Checkpoint, CheckpointRow
<1> HIDE DEF now, walked, counts
<1>5. /\ current' = [current EXCEPT ![e] = now]
      /\ path' = [path EXCEPT ![e] = walked]
      /\ loops' = [loops EXCEPT ![e] = counts]
      /\ checkpoints' = [checkpoints EXCEPT ![e] = @ \cup {Checkpoint(now, walked, counts)}]
    BY Zenon DEF Walks, now, walked, counts
<1> QED
    BY Zenon, <1>1, <1>2, <1>3, <1>4, <1>5 DEF TypeOK, ProgressTypes

\* A node that may complete has no open call, and no open wait but a timer's.
LEMMA Completable ==
    ASSUME EngineInv, NEW w \in Worker, worker[w] # Idle,
           NEW e, worker[w].exec = e, NEW n \in Node, AtNode(w, n), Fulfilled(e, n)
    PROVE  /\ \A c \in Execution : call[c].parent = e => call[c].status = "completed"
           /\ wait[e].status \in {"none", "resolved"}
                \/ (wait[e].status = "pending" /\ TypeOf[n] = "timer")
<1>1. e \in Execution /\ StepCount(e) \in Nat
    BY SMTT(30), TurnClaim DEF AtNode
<1>2. ASSUME NEW c \in Execution, call[c].parent = e
      PROVE  call[c].status = "completed"
  <2>1. /\ IsChild(c) /\ call[c].seq <= StepCount(e) /\ call[c].seq \in Nat
        /\ call[c].seq < StepCount(e) => call[c].status = "completed"
    BY SMTT(30), <1>1, <1>2, EngineAssumption DEF EngineInv, CallFits, TypeOK, CallRow
  <2>2. CASE call[c].seq < StepCount(e)
    BY Zenon, <2>1, <2>2
  <2>3. CASE c \in CallsHere(e)
    <3>1. TypeOf[n] = "subworkflow"
      BY SMTT(30), <2>3, TurnNode
    <3>2. PICK d \in CallsHere(e) : call[d].status = "completed"
      BY Zenon, <3>1 DEF Fulfilled, WaitTypes
    <3>3. d = c
      BY Zenon, <1>2, <2>1, <2>3, <3>2 DEF EngineInv, OneCallAStep, CallsHere
    <3> QED BY Zenon, <3>2, <3>3
  <2> QED BY SMTT(30), <1>1, <1>2, <2>1, <2>2, <2>3 DEF CallsHere
<1>3. wait[e].status \in {"none", "resolved"} \/ (wait[e].status = "pending" /\ TypeOf[n] = "timer")
  <2>1. CASE WaitHere(e)
    <3>1. TypeOf[n] \in WaitTypes
      BY Zenon, <2>1, TurnNode
    <3>2. CASE TypeOf[n] = "timer"
      BY Zenon, <3>2 DEF Fulfilled
    <3>3. CASE TypeOf[n] # "timer"
      BY Zenon, <3>1, <3>3 DEF Fulfilled, WaitTypes
    <3> QED BY Zenon, <3>2, <3>3
  <2>2. CASE ~ WaitHere(e)
    <3>1. WaitFits(e) /\ wait[e].seq \in Nat
      BY Zenon, <1>1 DEF EngineInv, TypeOK, WaitRow
    <3> QED BY SMTT(30), <1>1, <2>2, <3>1 DEF WaitFits, WaitHere
  <2> QED BY Zenon, <2>1, <2>2
<1> QED BY Zenon, <1>2, <1>3

\* The events of the others, when one execution's claimed event is replaced.
LEMMA OthersStay ==
    ASSUME EngineInv, NEW e \in Execution, NEW x \in Execution \ {e}, RowsKept(x), status'[x] = status[x],
           sealed' = sealed, call'[x].status = call[x].status,
           \A ev : ev.exec = x => (ev \in outbox' <=> ev \in outbox) /\ (ev \in dispatched' => ev \in dispatched)
    PROVE  EventsFit(x)'
<1>1. \A ev \in outbox : Awaits(x, ev) => ev \in outbox' /\ (ev \in dispatched' => ev \in dispatched)
    BY Zenon, AwaitsOwn
<1>2. FinalizeEvent(x) \in outbox => FinalizeEvent(x) \in outbox'
    BY Zenon DEF FinalizeEvent
<1> QED BY Zenon, <1>1, <1>2, EventsStay

\* What an awaited event says of the execution it is for.
LEMMA AwaitsKind ==
    ASSUME NEW e, NEW d, Awaits(e, d)
    PROVE  /\ d.kind = "ready" => d.id = StepCount(e)
           /\ d.kind = "wake" => WaitHere(e)
           /\ d.kind = "resume" => wait[e].status = "resolved"
           /\ d.kind = "timeout" => CallsHere(e) # {}
BY DEF Awaits, ReadyEvent, WaitEvent, CallEvent

\* The event an execution awaited is replaced by the next one it awaits.
LEMMA EventReplaced ==
    ASSUME EngineInv, NEW e \in Execution, status[e] \in Live, NEW ev \in outbox, Awaits(e, ev),
           NEW next, next.exec = e, next.kind \in {"ready", "wake", "resume", "timeout"},
           ~ Awaits(e, next), \A d : Awaits(e, d)' <=> d = next,
           status'[e] \in {"queued", "waiting"}, call'[e].status = call[e].status,
           next \in outbox', dispatched' = dispatched \ {ev},
           \A d \in outbox' : d.exec = e => d = next \/ (d \in outbox /\ d # ev)
    PROVE  EventsFit(e)'
<1>1. \A d \in outbox : d.exec = e =>
          /\ Awaits(e, d) \/ d = StopEvent(e)
          /\ d.kind = "stop" => call[e].status \in {"cancelled", "timed_out"}
    BY Zenon DEF EngineInv, EventsFit
<1>2. \A d \in outbox : d.exec = e => d = ev \/ d = StopEvent(e)
    BY Zenon, <1>1, AwaitsOne
<1>3. StopEvent(e).kind = "stop"
    BY Zenon DEF StopEvent
<1>4. next # StopEvent(e) /\ next.kind \notin {"stop", "finalize"}
    BY Zenon, <1>3
<1>5. next \notin dispatched'
    BY Zenon, <1>2, <1>4 DEF EngineInv, TypeOK
<1>6. \A d \in outbox' : d.exec = e =>
          d = next \/ (d = StopEvent(e) /\ call'[e].status \in {"cancelled", "timed_out"})
    BY Zenon, <1>1, <1>2, <1>3
<1> QED
    BY Zenon, <1>3, <1>4, <1>5, <1>6 DEF EventsFit

\* A worker in the middle of an advance, when another one ends its own turn.
ClaimsKept(e) ==
    /\ \A x \in Execution \ {e} :
          status[x] = "running" => status'[x] = "running" /\ holder'[x] = holder[x]
    /\ \A x \in Execution : call[x].status # "none" => call'[x].status # "none"
    /\ \A ev \in outbox : ev.exec # e => ev \in outbox'

\* The claims of the other workers survive the end of a worker's turn.
LEMMA OthersAdvance ==
    ASSUME EngineInv, NEW w \in Worker, worker[w] # Idle, Turn(w), NEW e, worker[w].exec = e,
           worker' = [worker EXCEPT ![w] = Idle], ClaimsKept(e)
    PROVE  \A v \in Worker : ClaimFits(v)'
<1> TAKE v \in Worker
<1>1. e \in Execution /\ holder[e] = w /\ status[e] = "running"
    BY SMTT(30), TurnClaim
<1>2. worker'[w] = Idle /\ \A u \in Worker \ {w} : worker'[u] = worker[u]
    BY Zenon, WorkerIdles DEF EngineInv
<1>3. CASE v = w
    BY Zenon, <1>2, <1>3 DEF ClaimFits
<1>4. CASE v # w
  <2>1. ASSUME Advancing(v), Valid(v)
        PROVE  /\ worker[v].exec \in Execution \ {e} /\ worker[v].event \in outbox'
               /\ call[worker[v].exec].status # "none" => call'[worker[v].exec].status # "none"
    <3>1. worker[v] # Idle
      BY SMTT(30), <2>1 DEF Advancing, Idle
    <3>2. /\ worker[v].exec \in Execution \ {e} /\ worker[v].event.exec = worker[v].exec
          /\ worker[v].event \in outbox
      BY SMTT(30), <1>1, <1>4, <2>1, <3>1, ValidClaim
    <3> QED BY Zenon, <3>2 DEF ClaimsKept
  <2> QED BY Zenon, <1>2, <1>4, <2>1, ClaimStays DEF Valid, ClaimsKept
<1> QED BY Zenon, <1>3, <1>4

\* Requeueing an execution after a step keeps the types (advance).
LEMMA RequeueTypes ==
    ASSUME TypeOK, NEW w \in Worker, worker[w] # Idle, NEW step \in Nat,
           Requeue(w, step), ProgressTypes', wait' \in [Execution -> WaitRow]
    PROVE  TypeOK'
<1>1. worker[w].exec \in Execution
    BY Zenon, ClaimTypes
<1>2. status' \in [Execution -> Live \cup Terminal \cup {"none"}]
    BY Zenon, <1>1 DEF Requeue, TypeOK, Live
<1>3. /\ holder' \in [Execution -> Worker \cup {NoOne}]
      /\ lease' \in [Execution -> {"none", "live", "expired"}]
    BY Zenon, <1>1 DEF Requeue, TypeOK
<1>4. outbox' \subseteq Event /\ dispatched' \subseteq outbox'
    BY Zenon, <1>1, EventTypes DEF Requeue, TypeOK
<1>5. worker' \in [Worker -> {Idle} \cup Claim]
    BY Zenon, WorkerIdles DEF Requeue
<1> QED
    BY Zenon, <1>2, <1>3, <1>4, <1>5 DEF Requeue, TypeOK, ProgressTypes

\* Requeueing an execution after a completed step keeps the invariant (advance).
LEMMA RequeueStep ==
    ASSUME EngineInv, NEW w \in Worker, worker[w] # Idle, Turn(w), NEW e, worker[w].exec = e,
           Requeue(w, Len(path[e]) + 1), ProgressTypes', wait' \in [Execution -> WaitRow],
           \A x \in Execution \ {e} :
              path'[x] = path[x] /\ current'[x] = current[x] /\ wait'[x] = wait[x],
           Len(path'[e]) = Len(path[e]) + 1,
           wait'[e].seq = wait[e].seq, wait'[e].status \in {"none", "resolved"},
           wait[e].status = "none" => wait'[e].status = "none",
           \A c \in Execution : call[c].parent = e => call[c].status = "completed"
    PROVE  EngineInv'
<1> DEFINE ev == worker[w].event
           next == ReadyEvent(e, Len(path[e]) + 1)
<1>1. /\ e \in Execution /\ ev \in outbox /\ ev.exec = e /\ Awaits(e, ev)
      /\ status[e] = "running" /\ holder[e] = w /\ Len(path[e]) \in Nat
    BY SMTT(30), TurnClaim DEF StepCount
<1>2. TypeOK'
    BY SMTT(30), <1>1, RequeueTypes DEF EngineInv
<1>3. /\ status'[e] = "queued" /\ \A x \in Execution \ {e} : status'[x] = status[x] /\ holder'[x] = holder[x]
      /\ UNCHANGED <<call, sealed>>
      /\ outbox' = (outbox \ {ev}) \cup {next} /\ dispatched' = dispatched \ {ev}
      /\ worker' = [worker EXCEPT ![w] = Idle]
    BY Zenon, <1>1 DEF Requeue, EngineInv, TypeOK
<1>4. \A x \in Execution \ {e} : RowsKept(x) /\ StaysLive(x)
    BY Zenon, <1>3 DEF RowsKept, StaysLive
<1>5. \A d : d.exec # e => (d \in outbox' <=> d \in outbox) /\ (d \in dispatched' => d \in dispatched)
    BY SMTT(30), <1>1, <1>3 DEF ReadyEvent
<1>6. ASSUME NEW x \in Execution PROVE CallFits(x)'
  <2>1. CallFits(x) /\ call[x].seq \in Nat
    BY Zenon DEF EngineInv, TypeOK, CallRow
  <2>2. CASE x # e /\ call[x].parent # e
    <3>1. CallKept(x) /\ StaysLive(x) /\ (IsChild(x) => call[x].parent \in Execution \ {e})
      BY Zenon, <1>3, <1>4, <2>1, <2>2 DEF CallKept, CallFits
    <3>2. FinalizeEvent(x) \in outbox => FinalizeEvent(x) \in outbox'
      BY Zenon, <1>5, <2>2 DEF FinalizeEvent
    <3> QED BY Zenon, <1>4, <3>1, <3>2, CallStays
  <2>3. CASE x = e
    <3>1. CallKept(x) /\ StaysLive(x) /\ (IsChild(x) => call[x].parent \in Execution \ {e})
      BY Zenon, <1>1, <1>3, <2>1, <2>3 DEF CallKept, CallFits, StaysLive, Live
    <3>2. FinalizeEvent(x) \notin outbox
      BY Zenon, <1>1, <2>3 DEF EngineInv, EventsFit, FinalizeEvent
    <3> QED BY Zenon, <1>4, <3>1, <3>2, CallStays
  <2>4. CASE x # e /\ call[x].parent = e
    <3>1. /\ call[x].status = "completed" /\ IsChild(x) /\ call[x].seq <= Len(path[e])
          /\ status[x] = "completed"
      BY Zenon, <1>1, <2>1, <2>4 DEF CallFits, IsChild, StepCount
    <3>2. call'[x].seq <= Len(path'[e]) /\ call'[x].seq # Len(path'[e])
      BY SMTT(30), <1>1, <1>3, <2>1, <3>1
    <3>3. /\ call'[x].status = "completed" /\ call'[x].parent = e /\ status'[x] = "completed"
          /\ status'[e] = "queued"
      BY Zenon, <1>1, <1>3, <2>4, <3>1
    <3> QED BY Zenon, <1>1, <2>4, <3>2, <3>3 DEF CallFits, IsChild, StepCount
  <2> QED BY Zenon, <2>2, <2>3, <2>4
<1>7. ASSUME NEW x \in Execution PROVE WaitFits(x)'
  <2>1. CASE x = e
    <3>1. wait[e].status # "none" => wait[e].seq <= Len(path[e])
      BY Zenon, <1>1 DEF EngineInv, WaitFits, StepCount
    <3>2. wait[e].seq \in Nat
      BY Zenon, <1>1 DEF EngineInv, TypeOK, WaitRow
    <3>3. wait'[e].status # "none" => wait'[e].seq <= Len(path'[e]) /\ wait'[e].seq # Len(path'[e])
      BY SMTT(30), <1>1, <3>1, <3>2
    <3> QED BY Zenon, <1>3, <2>1, <3>3 DEF WaitFits, StepCount
  <2> QED BY Zenon, <1>4, <2>1, WaitStays
<1>8. ASSUME NEW x \in Execution PROVE EventsFit(x)'
  <2>1. CASE x = e
    <3>1. wait[e].status # "none" => wait[e].seq <= Len(path[e])
      BY Zenon, <1>1 DEF EngineInv, WaitFits, StepCount
    <3>2. ~ WaitHere(e)' /\ StepCount(e)' = Len(path[e]) + 1
      BY SMTT(30), <1>1, <3>1 DEF WaitHere, StepCount, EngineInv, TypeOK, WaitRow
    <3>3. \A c \in Execution : call[c].parent = e => call[c].seq \in Nat /\ call[c].seq <= Len(path[e])
      <4> TAKE c \in Execution
      <4>1. CallFits(c) /\ call[c].seq \in Nat
        BY Zenon DEF EngineInv, TypeOK, CallRow
      <4> QED BY Zenon, <1>1, <4>1, EngineAssumption DEF CallFits, StepCount
    <3>4. CallsHere(e)' = {}
      BY SMTT(30), <1>1, <1>3, <3>2, <3>3 DEF CallsHere
    <3>5. \A d : Awaits(e, d)' <=> d = next
      BY Zenon, <3>2, <3>4 DEF Awaits
    <3>6. next.exec = e /\ next.kind = "ready" /\ next.id # StepCount(e)
      BY SMTT(30), <1>1 DEF ReadyEvent, StepCount
    <3>7. next \in outbox' /\ \A d \in outbox' : d.exec = e => d = next \/ (d \in outbox /\ d # ev)
      BY Zenon, <1>3
    <3> HIDE DEF next, ev
    <3>8. ~ Awaits(e, next)
      BY Zenon, <3>6, AwaitsKind
    <3>9. /\ status[e] \in Live /\ status'[e] \in {"queued", "waiting"} /\ call'[e].status = call[e].status
          /\ next.kind \in {"ready", "wake", "resume", "timeout"}
      BY Zenon, <1>1, <1>3, <3>6 DEF Live
    <3> QED BY Zenon, <1>1, <1>3, <2>1, <3>5, <3>6, <3>7, <3>8, <3>9, EventReplaced
  <2>2. CASE x # e
    BY Zenon, <1>1, <1>3, <1>4, <1>5, <2>2, OthersStay
  <2> QED BY Zenon, <2>1, <2>2
<1>9. \A v \in Worker : ClaimFits(v)'
  <2>1. ClaimsKept(e)
    BY Zenon, <1>3, <1>5 DEF ClaimsKept
  <2> QED BY Zenon, <1>3, <2>1, OthersAdvance
<1>10. OneCallAStep'
    BY Zenon, <1>3, OneCallStays
<1>11. (\A x \in Execution : sealed[x] => status[x] \in Terminal)'
    BY Zenon, <1>1, <1>3 DEF EngineInv, Terminal
<1> QED
    BY Zenon, <1>2, <1>6, <1>7, <1>8, <1>9, <1>10, <1>11 DEF EngineInv

\* Parking an execution at a wait or a call keeps the types (create_workflow_wait,
\* create_subworkflow_call).
LEMMA ParkTypes ==
    ASSUME TypeOK, NEW w \in Worker, worker[w] # Idle,
           NEW children \in SUBSET Execution, NEW events \in SUBSET Event,
           Park(w, children, events), ProgressTypes',
           wait' \in [Execution -> WaitRow], call' \in [Execution -> CallRow]
    PROVE  TypeOK'
<1>1. worker[w].exec \in Execution
    BY Zenon, ClaimTypes
<1>2. status' \in [Execution -> Live \cup Terminal \cup {"none"}]
    BY Zenon, <1>1 DEF Park, TypeOK, Live
<1>3. /\ holder' \in [Execution -> Worker \cup {NoOne}]
      /\ lease' \in [Execution -> {"none", "live", "expired"}]
    BY Zenon, <1>1 DEF Park, TypeOK
<1>4. outbox' \subseteq Event /\ dispatched' \subseteq outbox'
    BY Zenon DEF Park, TypeOK
<1>5. worker' \in [Worker -> {Idle} \cup Claim]
    BY Zenon, WorkerIdles DEF Park
<1> QED
    BY Zenon, <1>2, <1>3, <1>4, <1>5 DEF Park, TypeOK, ProgressTypes

\* An execution is parked on a new wait.
LEMMA ParkWaitStep ==
    ASSUME EngineInv, NEW w \in Worker, worker[w] # Idle, NEW e, worker[w].exec = e,
           NEW n \in Node, AtNode(w, n), TypeOf[n] \in WaitTypes, ~ WaitHere(e),
           wait' = [wait EXCEPT ![e] = [node |-> n, seq |-> StepCount(e),
                        status |-> "pending", resolution |-> "none", due |-> FALSE]],
           Park(w, {}, {WaitEvent(e, "wake", StepCount(e))}),
           UNCHANGED <<progressVars, call>>
    PROVE  EngineInv'
<1> DEFINE ev == worker[w].event
           wake == WaitEvent(e, "wake", StepCount(e))
<1>1. /\ e \in Execution /\ ev \in outbox /\ ev.exec = e /\ Awaits(e, ev)
      /\ status[e] = "running" /\ holder[e] = w /\ StepCount(e) \in Nat /\ Turn(w)
    BY SMTT(30), TurnClaim DEF AtNode
<1>2. First(ReadyNodes(e), n) /\ CallsHere(e) = {}
    BY Zenon, TurnNode DEF WaitTypes
<1>3. /\ wait'[e].node = n /\ wait'[e].seq = StepCount(e) /\ wait'[e].status = "pending"
      /\ \A x \in Execution \ {e} : wait'[x] = wait[x]
      /\ wait' \in [Execution -> WaitRow]
  <2>1. [node |-> n, seq |-> StepCount(e), status |-> "pending", resolution |-> "none", due |-> FALSE] \in WaitRow
    BY Zenon, <1>1 DEF WaitRow
  <2> QED BY Zenon, <1>1, <2>1 DEF EngineInv, TypeOK
<1>4. TypeOK'
  <2>1. wake \in Event
    BY Zenon, <1>1, EventTypes
  <2>2. ProgressTypes'
    BY Zenon DEF EngineInv, TypeOK, ProgressTypes, progressVars
  <2>3. TypeOK /\ call' \in [Execution -> CallRow]
    BY Zenon DEF EngineInv, TypeOK
  <2> QED BY Zenon, <1>3, <2>1, <2>2, <2>3, ParkTypes
<1>5. /\ status'[e] = "waiting" /\ \A x \in Execution \ {e} : status'[x] = status[x] /\ holder'[x] = holder[x]
      /\ UNCHANGED <<call, sealed, path, current>>
      /\ outbox' = (outbox \ {ev}) \cup {wake} /\ dispatched' = dispatched \ {ev}
      /\ worker' = [worker EXCEPT ![w] = Idle]
    BY Zenon, <1>1 DEF Park, EngineInv, TypeOK, progressVars
<1>6. /\ \A x \in Execution \ {e} : RowsKept(x)
      /\ \A x \in Execution : CallKept(x) /\ StaysLive(x)
    BY Zenon, <1>1, <1>3, <1>5 DEF RowsKept, CallKept, StaysLive, Live
<1>7. \A d : d.exec # e => (d \in outbox' <=> d \in outbox) /\ (d \in dispatched' => d \in dispatched)
    BY SMTT(30), <1>1, <1>5 DEF WaitEvent
<1>8. StepCount(e)' = StepCount(e) /\ ReadyNodes(e)' = ReadyNodes(e) /\ CallsHere(e)' = {} /\ WaitHere(e)'
    BY SMTT(30), <1>2, <1>3, <1>5 DEF StepCount, ReadyNodes, CallsHere, WaitHere
<1>9. ASSUME NEW x \in Execution PROVE EventsFit(x)'
  <2>1. CASE x = e
    <3>1. \A d : Awaits(e, d)' <=> d = wake
      BY Zenon, <1>3, <1>8 DEF Awaits
    <3>2. wake.exec = e /\ wake.kind = "wake"
      BY Zenon DEF WaitEvent
    <3> HIDE DEF wake, ev
    <3>3. wake \in outbox' /\ \A d \in outbox' : d.exec = e => d = wake \/ (d \in outbox /\ d # ev)
      BY Zenon, <1>5
    <3>4. ~ Awaits(e, wake)
      BY Zenon, <3>2, AwaitsKind
    <3>5. /\ status[e] \in Live /\ status'[e] \in {"queued", "waiting"} /\ call'[e].status = call[e].status
          /\ wake.kind \in {"ready", "wake", "resume", "timeout"}
      BY Zenon, <1>1, <1>5, <3>2 DEF Live
    <3> QED BY Zenon, <1>1, <1>5, <2>1, <3>1, <3>2, <3>3, <3>4, <3>5, EventReplaced
  <2>2. CASE x # e
    BY Zenon, <1>1, <1>5, <1>6, <1>7, <2>2, OthersStay
  <2> QED BY Zenon, <2>1, <2>2
<1>10. ASSUME NEW x \in Execution PROVE CallFits(x)'
  <2>1. IsChild(x) => call[x].parent \in Execution
    BY Zenon DEF EngineInv, CallFits
  <2>2. FinalizeEvent(x) \in outbox => FinalizeEvent(x) \in outbox'
    BY Zenon, <1>1, <1>7 DEF EngineInv, EventsFit, FinalizeEvent
  <2> QED BY Zenon, <1>5, <1>6, <2>1, <2>2, CallStays
<1>11. ASSUME NEW x \in Execution PROVE WaitFits(x)'
  <2>1. CASE x = e
    <3>1. /\ wait'[e].seq = StepCount(e)' /\ StepCount(e)' \in Nat
          /\ TypeOf[wait'[e].node] \in WaitTypes /\ First(ReadyNodes(e)', wait'[e].node)
      BY Zenon, <1>1, <1>2, <1>3, <1>8
    <3>2. WaitFits(e)'
      BY SMTT(30), <1>3, <1>5, <1>8, <3>1 DEF WaitFits, Live
    <3> QED BY Zenon, <2>1, <3>2
  <2> QED BY Zenon, <1>6, <2>1, WaitStays
<1>12. \A v \in Worker : ClaimFits(v)'
  <2>1. ClaimsKept(e)
    BY Zenon, <1>5, <1>7 DEF ClaimsKept
  <2> QED BY Zenon, <1>1, <1>5, <2>1, OthersAdvance
<1>13. OneCallAStep'
    BY Zenon, <1>5, OneCallStays
<1>14. (\A x \in Execution : sealed[x] => status[x] \in Terminal)'
    BY Zenon, <1>1, <1>5 DEF EngineInv, Terminal
<1> QED
    BY Zenon, <1>4, <1>9, <1>10, <1>11, <1>12, <1>13, <1>14 DEF EngineInv

\* An execution is parked on a new call, whose child is created.
LEMMA ParkCallStep ==
    ASSUME EngineInv, NEW w \in Worker, worker[w] # Idle, NEW e, worker[w].exec = e,
           NEW n \in Node, AtNode(w, n), TypeOf[n] = "subworkflow", CallsHere(e) = {},
           NEW c \in Execution, CreateExecution(c, Beginning(Referenced[n])),
           call' = [call EXCEPT ![c] = [parent |-> e, node |-> n, seq |-> StepCount(e),
                        status |-> "pending", due |-> FALSE]],
           Park(w, {c}, {CallEvent(e, "timeout", c), ReadyEvent(c, 0)}),
           UNCHANGED wait
    PROVE  EngineInv'
<1> DEFINE ev == worker[w].event
           timeout == CallEvent(e, "timeout", c)
           ready == ReadyEvent(c, 0)
<1>1. /\ e \in Execution /\ ev \in outbox /\ ev.exec = e /\ Awaits(e, ev)
      /\ status[e] = "running" /\ holder[e] = w /\ StepCount(e) \in Nat /\ Turn(w)
    BY SMTT(30), TurnClaim DEF AtNode
<1>2. First(ReadyNodes(e), n) /\ ~ WaitHere(e)
    BY SMTT(30), TurnNode DEF WaitTypes
<1>3. status[c] = "none" /\ c # e
    BY Zenon, <1>1 DEF CreateExecution
<1>4. /\ \A d \in outbox : d.exec # c
      /\ \A d \in Execution : call[d].parent # c
      /\ wait[c].status = "none" /\ call[c].status = "none" /\ call[c].parent = NoOne /\ ~ sealed[c]
    BY Zenon, <1>3, FreshRows
<1>5. /\ call'[c].parent = e /\ call'[c].node = n /\ call'[c].seq = StepCount(e)
      /\ call'[c].status = "pending"
      /\ \A x \in Execution \ {c} : call'[x] = call[x]
      /\ call' \in [Execution -> CallRow]
  <2>1. [parent |-> e, node |-> n, seq |-> StepCount(e), status |-> "pending", due |-> FALSE] \in CallRow
    BY Zenon, <1>1 DEF CallRow
  <2> QED BY Zenon, <2>1 DEF EngineInv, TypeOK
<1>6. TypeOK'
  <2>1. timeout \in Event /\ ready \in Event
    BY Zenon, <1>1, EventTypes
  <2>2. Beginning(Referenced[n]) \in CheckpointRow
    BY Zenon, ReferencesAreDeployed, BeginningTypes, DeploymentAssumption
  <2>3. ProgressTypes'
    BY Zenon, <2>2, CreateTypes DEF EngineInv
  <2>4. TypeOK /\ wait' \in [Execution -> WaitRow]
    BY Zenon DEF EngineInv, TypeOK
  <2>5. {c} \in SUBSET Execution /\ {timeout, ready} \in SUBSET Event
    BY Zenon, <2>1
  <2> QED BY Zenon, <1>5, <2>3, <2>4, <2>5, ParkTypes
<1>7. /\ path'[c] = <<>>
      /\ \A x \in Execution \ {c} : path'[x] = path[x] /\ current'[x] = current[x]
    BY Zenon DEF CreateExecution, Beginning, Checkpoint, EngineInv, TypeOK
<1>8. /\ status'[e] = "waiting" /\ status'[c] = "queued"
      /\ \A x \in Execution \ {e, c} : status'[x] = status[x]
      /\ \A x \in Execution \ {e} : holder'[x] = holder[x]
      /\ UNCHANGED <<wait, sealed>>
      /\ outbox' = (outbox \ {ev}) \cup {timeout, ready} /\ dispatched' = dispatched \ {ev}
      /\ worker' = [worker EXCEPT ![w] = Idle]
    BY Zenon, <1>1, <1>3 DEF Park, EngineInv, TypeOK
<1>9. /\ \A x \in Execution \ {e, c} : RowsKept(x)
      /\ \A x \in Execution \ {c} : CallKept(x) /\ StaysLive(x)
  <2>1. ASSUME NEW x \in Execution \ {e, c}, NEW d \in Execution, call[d].parent = x \/ call'[d].parent = x
        PROVE  call'[d] = call[d]
    BY Zenon, <1>4, <1>5, <2>1, EngineAssumption
  <2>2. \A x \in Execution \ {e, c} : RowsKept(x)
    BY Zenon, <1>7, <1>8, <2>1 DEF RowsKept
  <2> QED BY Zenon, <1>1, <1>3, <1>5, <1>8, <2>2 DEF CallKept, StaysLive, Live
<1>10. \A d : d.exec \notin {e, c} =>
          (d \in outbox' <=> d \in outbox) /\ (d \in dispatched' => d \in dispatched)
  <2>1. timeout.exec = e /\ ready.exec = c /\ ev.exec = e
    BY Zenon, <1>1 DEF CallEvent, ReadyEvent
  <2> HIDE DEF timeout, ready, ev
  <2> QED BY Zenon, <1>8, <2>1
<1>11. StepCount(e)' = StepCount(e) /\ ReadyNodes(e)' = ReadyNodes(e) /\ ~ WaitHere(e)'
    BY Zenon, <1>1, <1>2, <1>3, <1>7, <1>8 DEF StepCount, ReadyNodes, WaitHere
<1>12. CallsHere(e)' = {c}
    BY SMTT(30), <1>5, <1>11 DEF CallsHere
<1>13. EventsFit(e)'
  <2>1. \A d : Awaits(e, d)' <=> d = timeout
    BY Zenon, <1>5, <1>11, <1>12 DEF Awaits, CallEvent
  <2>2. timeout.exec = e /\ timeout.kind = "timeout" /\ ready.exec = c
    BY Zenon DEF CallEvent, ReadyEvent
  <2> HIDE DEF timeout, ready, ev
  <2>3. timeout \in outbox' /\ \A d \in outbox' : d.exec = e => d = timeout \/ (d \in outbox /\ d # ev)
    BY Zenon, <1>3, <1>8, <2>2
  <2>4. ~ Awaits(e, timeout)
    BY Zenon, <2>2, AwaitsKind
  <2>5. /\ status[e] \in Live /\ status'[e] \in {"queued", "waiting"} /\ call'[e].status = call[e].status
        /\ timeout.kind \in {"ready", "wake", "resume", "timeout"}
    BY Zenon, <1>1, <1>3, <1>5, <1>8, <2>2 DEF Live
  <2> QED BY Zenon, <1>1, <1>8, <2>1, <2>2, <2>3, <2>4, <2>5, EventReplaced
<1>14. EventsFit(c)'
  <2>1. \A d : Awaits(c, d)' <=> d = ready
    <3>1. \A d \in Execution : call'[d].parent # c
      BY Zenon, <1>3, <1>4, <1>5
    <3>2. path'[c] = <<>> /\ wait'[c].status = "none"
      BY Zenon, <1>4, <1>7, <1>8
    <3> QED BY Zenon, <3>1, <3>2, FreshAwaits
  <2>2. ready \notin dispatched
    BY Zenon, <1>4 DEF EngineInv, TypeOK, ReadyEvent
  <2>3. timeout.exec = e
    BY Zenon DEF CallEvent
  <2> HIDE DEF timeout, ready
  <2>4. ready.kind = "ready" /\ ready \in outbox' /\ ready \notin dispatched'
    BY Zenon, <1>8, <2>2 DEF ready, ReadyEvent
  <2>5. \A d \in outbox' : d.exec = c => d = ready
    BY Zenon, <1>3, <1>4, <1>8, <2>3
  <2> QED BY Zenon, <1>8, <2>1, <2>4, <2>5 DEF EventsFit
<1>15. ASSUME NEW x \in Execution \ {e, c} PROVE EventsFit(x)'
    BY Zenon, <1>1, <1>5, <1>8, <1>9, <1>10, <1>15, OthersStay
<1>16. CallFits(c)'
  <2>1. /\ IsChild(c)' /\ call'[c].seq = StepCount(e)' /\ StepCount(e)' \in Nat
        /\ First(ReadyNodes(e)', n)
    BY Zenon, <1>1, <1>2, <1>5, <1>11 DEF IsChild
  <2>2. call'[c].seq <= StepCount(e)' /\ ~ (call'[c].seq < StepCount(e)')
    BY SMTT(30), <2>1
  <2> QED BY Zenon, <1>1, <1>3, <1>5, <1>8, <2>1, <2>2 DEF CallFits, Live
<1>17. ASSUME NEW x \in Execution \ {c} PROVE CallFits(x)'
  <2>1. IsChild(x) => call[x].parent \in Execution \ {c}
    BY Zenon, <1>4 DEF EngineInv, CallFits
  <2>2. FinalizeEvent(x) \in outbox => FinalizeEvent(x) \in outbox'
    BY Zenon, <1>1, <1>10 DEF EngineInv, EventsFit, FinalizeEvent
  <2> QED BY Zenon, <1>7, <1>9, <2>1, <2>2, CallStays
<1>18. WaitFits(e)'
  <2>1. WaitFits(e) /\ wait[e].seq \in Nat
    BY Zenon, <1>1 DEF EngineInv, TypeOK, WaitRow
  <2> QED BY Zenon, <1>1, <1>2, <1>8, <1>11, <2>1 DEF WaitFits, WaitHere, Live
<1>19. WaitFits(c)'
    BY Zenon, <1>4, <1>8 DEF WaitFits
<1>20. ASSUME NEW x \in Execution \ {e, c} PROVE WaitFits(x)'
    BY Zenon, <1>9, WaitStays
<1>21. \A v \in Worker : ClaimFits(v)'
  <2>1. ClaimsKept(e)
    BY Zenon, <1>1, <1>3, <1>4, <1>5, <1>8 DEF ClaimsKept
  <2> QED BY Zenon, <1>1, <1>8, <2>1, OthersAdvance
<1>22. OneCallAStep'
  <2> SUFFICES ASSUME NEW a \in Execution, NEW b \in Execution, IsChild(a)',
                      call'[a].parent = call'[b].parent, call'[a].seq = call'[b].seq
               PROVE  a = b
    BY Zenon DEF OneCallAStep
  <2>1. \A d \in Execution : ~ (call[d].parent = e /\ call[d].seq = StepCount(e))
    BY Zenon DEF CallsHere
  <2>2. CASE a # c /\ b # c
    <3>1. IsChild(a) /\ call[a].parent = call[b].parent /\ call[a].seq = call[b].seq
      BY Zenon, <1>5, <2>2 DEF IsChild
    <3> QED BY Zenon, <3>1 DEF EngineInv, OneCallAStep
  <2> QED BY Zenon, <1>5, <2>1, <2>2
<1>23. (\A x \in Execution : sealed[x] => status[x] \in Terminal)'
    BY Zenon, <1>1, <1>4, <1>8 DEF EngineInv, Terminal
<1> QED
    BY Zenon, <1>6, <1>13, <1>14, <1>15, <1>16, <1>17, <1>18, <1>19, <1>20, <1>21, <1>22, <1>23 DEF EngineInv

\* The wait of a node that completes: a timer's is resolved as it elapses.
LEMMA ElapsedRow ==
    ASSUME NEW row \in WaitRow, NEW after, after = [row EXCEPT !.status = "resolved", !.resolution = "elapsed"]
    PROVE  after \in WaitRow /\ after.seq = row.seq /\ after.status = "resolved"
BY Zenon DEF WaitRow

\* A completed wait node leaves a resolved row of the same step (advance).
LEMMA ResolvedWaitRow ==
    ASSUME EngineInv, NEW w \in Worker, worker[w] # Idle, NEW e, worker[w].exec = e,
           NEW n \in Node, AtNode(w, n), Fulfilled(e, n),
           wait' = [wait EXCEPT ![e] = ResolvedWait(e, n)]
    PROVE  /\ wait' \in [Execution -> WaitRow]
           /\ \A x \in Execution \ {e} : wait'[x] = wait[x]
           /\ wait'[e].seq = wait[e].seq /\ wait'[e].status \in {"none", "resolved"}
           /\ wait[e].status = "none" => wait'[e].status = "none"
<1>1. e \in Execution
    BY TurnClaim DEF AtNode
<1>2. wait[e] \in WaitRow
    BY Zenon, <1>1 DEF EngineInv, TypeOK
<1>3. wait'[e] = ResolvedWait(e, n) /\ \A x \in Execution \ {e} : wait'[x] = wait[x]
    BY Zenon, <1>1 DEF EngineInv, TypeOK
<1>4. CASE TypeOf[n] = "timer"
  <2>1. wait'[e] = [wait[e] EXCEPT !.status = "resolved", !.resolution = "elapsed"]
    BY Zenon, <1>3, <1>4 DEF ResolvedWait
  <2>2. wait'[e] \in WaitRow /\ wait'[e].seq = wait[e].seq /\ wait'[e].status = "resolved"
    BY Zenon, <1>2, <2>1, ElapsedRow
  <2>3. wait[e].status = "pending"
    BY Zenon, <1>4 DEF Fulfilled
  <2>4. wait' \in [Execution -> WaitRow]
    BY <1>1, <1>3, <2>2 DEF EngineInv, TypeOK
  <2> QED BY Zenon, <1>3, <2>2, <2>3, <2>4
<1>5. CASE TypeOf[n] # "timer"
  <2>1. wait'[e] = wait[e]
    BY Zenon, <1>3, <1>5 DEF ResolvedWait
  <2>2. wait[e].status \in {"none", "resolved"}
    BY Zenon, <1>5, Completable
  <2>3. wait' \in [Execution -> WaitRow]
    BY <1>1, <1>3, <2>1 DEF EngineInv, TypeOK
  <2> QED BY Zenon, <1>3, <2>1, <2>2, <2>3
<1> QED BY Zenon, <1>4, <1>5

\* A step goes past node n: what it does to execution e, and what it has left behind.
GoesPast(w, e, n) ==
    /\ e \in Execution /\ Turn(w) /\ ProgressTypes'
    /\ \A x \in Execution \ {e} : path'[x] = path[x] /\ current'[x] = current[x]
    /\ Len(Append(path[e], n)) = Len(path[e]) + 1 /\ Len(path'[e]) = Len(path[e]) + 1
    /\ \A c \in Execution : call[c].parent = e => call[c].status = "completed"
    /\ TypeOf[n] # "timer" => wait[e].status \in {"none", "resolved"}

\* Completing a node goes past it (advance).
LEMMA WalkFacts ==
    ASSUME EngineInv, NEW w \in Worker, worker[w] # Idle, NEW e, worker[w].exec = e,
           NEW n \in Node, AtNode(w, n), Fulfilled(e, n), NEW b, Walks(e, n, b)
    PROVE  GoesPast(w, e, n)
<1>1. Turn(w)
    BY Zenon DEF AtNode
<1>2. e \in Execution
    BY <1>1, TurnClaim
<1>3. path[e] \in Seq(Node) /\ TypeOK
    BY Zenon, <1>2 DEF EngineInv, TypeOK
<1>4. ProgressTypes'
    BY Zenon, <1>2, <1>3, WalkTypes
<1>5. /\ \A x \in Execution \ {e} : path'[x] = path[x] /\ current'[x] = current[x]
      /\ path'[e] = Append(path[e], n)
    BY Zenon, <1>2 DEF Walks, EngineInv, TypeOK
<1>6. Len(Append(path[e], n)) = Len(path[e]) + 1
    BY <1>3
<1>7. /\ \A c \in Execution : call[c].parent = e => call[c].status = "completed"
      /\ TypeOf[n] # "timer" => wait[e].status \in {"none", "resolved"}
    BY Zenon, Completable
<1> QED BY Zenon, <1>1, <1>2, <1>4, <1>5, <1>6, <1>7 DEF GoesPast

\* Going on to the next step keeps the invariant (advance).
LEMMA GoOnStep ==
    ASSUME EngineInv, NEW w \in Worker, worker[w] # Idle, NEW e, worker[w].exec = e,
           NEW n \in Node, AtNode(w, n), Fulfilled(e, n), NEW b, Walks(e, n, b),
           wait' = [wait EXCEPT ![e] = ResolvedWait(e, n)],
           Requeue(w, Len(Append(path[e], n)))
    PROVE  EngineInv'
<1>1. GoesPast(w, e, n)
    BY Zenon, WalkFacts
<1>2. /\ wait' \in [Execution -> WaitRow]
      /\ \A x \in Execution \ {e} : wait'[x] = wait[x]
      /\ wait'[e].seq = wait[e].seq /\ wait'[e].status \in {"none", "resolved"}
      /\ wait[e].status = "none" => wait'[e].status = "none"
    BY Zenon, ResolvedWaitRow
<1>3. Requeue(w, Len(path[e]) + 1)
    BY Zenon, <1>1 DEF GoesPast
<1>4. \A x \in Execution \ {e} :
        path'[x] = path[x] /\ current'[x] = current[x] /\ wait'[x] = wait[x]
    BY Zenon, <1>1, <1>2 DEF GoesPast
<1>5. /\ Turn(w) /\ ProgressTypes' /\ Len(path'[e]) = Len(path[e]) + 1
      /\ \A c \in Execution : call[c].parent = e => call[c].status = "completed"
    BY Zenon, <1>1 DEF GoesPast
<1> QED BY <1>2, <1>3, <1>4, <1>5, RequeueStep

-----------------------------------------------------------------------------
\* Callers.

\* A worker in the middle of an advance, when a caller acts on an idle execution.
LEMMA ClaimsStay ==
    ASSUME EngineInv, NEW e \in Execution, status[e] # "running", worker' = worker, ClaimsKept(e)
    PROVE  \A v \in Worker : ClaimFits(v)'
<1> TAKE v \in Worker
<1>1. ASSUME Advancing(v), Valid(v)
      PROVE  /\ worker[v].exec \in Execution \ {e} /\ worker[v].event \in outbox'
             /\ call[worker[v].exec].status # "none" => call'[worker[v].exec].status # "none"
  <2>1. worker[v] # Idle
    BY SMTT(30), <1>1 DEF Advancing, Idle
  <2>2. /\ worker[v].exec \in Execution \ {e} /\ worker[v].event.exec = worker[v].exec
        /\ worker[v].event \in outbox
    BY SMTT(30), <1>1, <2>1, ValidClaim
  <2> QED BY Zenon, <2>2 DEF ClaimsKept
<1> QED BY Zenon, <1>1, ClaimStays DEF Valid, ClaimsKept

\* A resolution changes the wait of its own execution only (resolve_workflow_wait).
LEMMA ResolveTypes ==
    ASSUME TypeOK, NEW e \in Execution, ResolveWait(e)
    PROVE  TypeOK' /\ wait'[e].status = "resolved" /\ wait'[e].node = wait[e].node
                   /\ wait'[e].seq = wait[e].seq /\ \A x \in Execution \ {e} : wait'[x] = wait[x]
<1>1. PICK r \in {"approved", "denied", "received"} :
        wait' = [wait EXCEPT ![e].status = "resolved", ![e].resolution = r]
    BY Zenon DEF ResolveWait, Resolutions
<1>2. wait[e] \in WaitRow
    BY Zenon DEF TypeOK
<1>3. wait'[e] = [wait[e] EXCEPT !.status = "resolved", !.resolution = r]
    BY Zenon, <1>1 DEF TypeOK
<1>4. /\ wait'[e] \in WaitRow
      /\ wait'[e].status = "resolved" /\ wait'[e].node = wait[e].node /\ wait'[e].seq = wait[e].seq
    BY <1>2, <1>3, Zenon DEF WaitRow
<1>5. \A x \in Execution \ {e} : wait'[x] = wait[x]
    BY Zenon, <1>1 DEF TypeOK
<1>6. wait' \in [Execution -> WaitRow]
    BY Zenon, <1>1, <1>4, <1>5 DEF TypeOK
<1>7. outbox' \subseteq Event /\ dispatched' \subseteq outbox'
  <2>1. wait[e].seq \in Nat
    BY Zenon, <1>2 DEF WaitRow
  <2> QED BY <2>1, EventTypes DEF ResolveWait, TypeOK
<1> QED
    BY Zenon, <1>4, <1>5, <1>6, <1>7 DEF ResolveWait, TypeOK, progressVars, claimVars

\* A resolution replaces the wake of its wait by a resume and keeps the invariant
\* (resolve_workflow_wait).
LEMMA ResolveStep ==
    ASSUME EngineInv, NEW e \in Execution, ResolveWait(e)
    PROVE  EngineInv'
<1> DEFINE k == wait[e].seq
           wake == WaitEvent(e, "wake", k)
           resume == WaitEvent(e, "resume", k)
<1>1. /\ wait[e].status = "pending" /\ status[e] = "waiting" /\ k = StepCount(e)
      /\ WaitHere(e) /\ Awaits(e, wake)
    BY Zenon DEF ResolveWait, WaitHere, Awaits
<1>2. /\ TypeOK' /\ wait'[e].status = "resolved" /\ wait'[e].node = wait[e].node
      /\ wait'[e].seq = wait[e].seq /\ \A x \in Execution \ {e} : wait'[x] = wait[x]
    BY Zenon, ResolveTypes DEF EngineInv
<1>3. /\ UNCHANGED <<status, holder, path, current, call, sealed, worker>>
      /\ outbox' = (outbox \ {wake}) \cup {resume} /\ dispatched' = dispatched \ {wake}
    BY Zenon DEF ResolveWait, progressVars, claimVars
<1>4. /\ \A x \in Execution \ {e} : RowsKept(x)
      /\ \A x \in Execution : CallKept(x) /\ StaysLive(x)
    BY Zenon, <1>2, <1>3 DEF RowsKept, CallKept, StaysLive
<1>5. \A d : d.exec # e => (d \in outbox' <=> d \in outbox) /\ (d \in dispatched' => d \in dispatched)
    BY SMTT(30), <1>3 DEF WaitEvent
<1>6. /\ StepCount(e)' = StepCount(e) /\ ReadyNodes(e)' = ReadyNodes(e)
      /\ CallsHere(e)' = CallsHere(e) /\ WaitHere(e)'
    BY Zenon, <1>1, <1>2, <1>3 DEF StepCount, ReadyNodes, CallsHere, WaitHere
<1>7. WaitFits(e) /\ CallsHere(e) = {}
    BY Zenon, <1>1 DEF EngineInv, WaitFits, Live
<1>8. EventsFit(e)'
  <2>1. \A d : Awaits(e, d)' <=> d = resume
    BY Zenon, <1>1, <1>2, <1>6, <1>7 DEF Awaits
  <2>2. resume.exec = e /\ resume.kind = "resume"
    BY Zenon DEF WaitEvent
  <2> HIDE DEF wake, resume
  <2>3. resume \in outbox' /\ \A d \in outbox' : d.exec = e => d = resume \/ (d \in outbox /\ d # wake)
    BY Zenon, <1>3
  <2>4. ~ Awaits(e, resume)
    BY Zenon, <1>1, <2>2, AwaitsKind
  <2>5. /\ status[e] \in Live /\ status'[e] \in {"queued", "waiting"} /\ call'[e].status = call[e].status
        /\ resume.kind \in {"ready", "wake", "resume", "timeout"}
    BY Zenon, <1>1, <1>3, <2>2 DEF Live
  <2>6. wake \in outbox
    BY Zenon, <1>1, <2>5, AwaitsOne DEF EngineInv, EventsFit
  <2> QED BY Zenon, <1>1, <1>3, <2>1, <2>2, <2>3, <2>4, <2>5, <2>6, EventReplaced
<1>9. ASSUME NEW x \in Execution \ {e} PROVE EventsFit(x)'
    BY Zenon, <1>3, <1>4, <1>5, OthersStay
<1>10. ASSUME NEW x \in Execution PROVE CallFits(x)'
  <2>1. IsChild(x) => call[x].parent \in Execution
    BY Zenon DEF EngineInv, CallFits
  <2>2. FinalizeEvent(x) \in outbox => FinalizeEvent(x) \in outbox'
    BY Zenon, <1>3 DEF FinalizeEvent, WaitEvent
  <2> QED BY Zenon, <1>3, <1>4, <2>1, <2>2, CallStays
<1>11. WaitFits(e)'
    BY Zenon, <1>1, <1>2, <1>3, <1>6, <1>7 DEF WaitFits, Live
<1>12. ASSUME NEW x \in Execution \ {e} PROVE WaitFits(x)'
    BY Zenon, <1>4, WaitStays
<1>13. \A v \in Worker : ClaimFits(v)'
  <2>1. ClaimsKept(e)
    BY Zenon, <1>3, <1>5 DEF ClaimsKept
  <2> QED BY Zenon, <1>1, <1>3, <2>1, ClaimsStay
<1>14. OneCallAStep'
    BY Zenon, <1>3, OneCallStays
<1>15. (\A x \in Execution : sealed[x] => status[x] \in Terminal)'
    BY Zenon, <1>3 DEF EngineInv
<1> QED
    BY Zenon, <1>2, <1>8, <1>9, <1>10, <1>11, <1>12, <1>13, <1>14, <1>15 DEF EngineInv

\* A cancellation gives up the pending calls of its execution and no others (cancel_workflow_run).
LEMMA CancelTypes ==
    ASSUME TypeOK, NEW e \in Execution, CancelWorkflow(e)
    PROVE  /\ TypeOK'
           /\ \A c \in Execution :
                /\ call'[c].parent = call[c].parent /\ call'[c].node = call[c].node
                /\ call'[c].seq = call[c].seq
                /\ c \in PendingCalls(e) => call'[c].status = "cancelled"
                /\ c \notin PendingCalls(e) => call'[c] = call[c]
<1>1. \A c \in Execution :
        /\ call'[c] \in CallRow
        /\ call'[c].parent = call[c].parent /\ call'[c].node = call[c].node
        /\ call'[c].seq = call[c].seq
        /\ c \in PendingCalls(e) => call'[c].status = "cancelled"
        /\ c \notin PendingCalls(e) => call'[c] = call[c]
  <2> TAKE c \in Execution
  <2>1. call[c] \in CallRow
    BY Zenon DEF TypeOK
  <2>2. CASE c \in PendingCalls(e)
    <3>1. call'[c] = [call[c] EXCEPT !.status = "cancelled"]
      BY Zenon, <2>2 DEF CancelWorkflow
    <3> QED BY <2>1, <2>2, <3>1, Zenon DEF CallRow
  <2>3. CASE c \notin PendingCalls(e)
    BY Zenon, <2>1, <2>3 DEF CancelWorkflow
  <2> QED BY Zenon, <2>2, <2>3
<1>2. call' \in [Execution -> CallRow]
    BY <1>1, Zenon DEF CancelWorkflow
<1>3. wait' \in [Execution -> WaitRow]
  <2>1. ClosedWait(e, FALSE) \in WaitRow
    BY Zenon, ClosedWaitRow
  <2> QED BY Zenon, <2>1 DEF CancelWorkflow, TypeOK
<1>4. outbox' \subseteq Event /\ dispatched' \subseteq outbox'
    BY EventTypes DEF CancelWorkflow, TypeOK, PendingCalls
<1>5. status' \in [Execution -> Live \cup Terminal \cup {"none"}] /\ error' \in [Execution -> Errors]
    BY Zenon DEF CancelWorkflow, TypeOK, Terminal, Errors
<1> QED
    BY Zenon, <1>1, <1>2, <1>3, <1>4, <1>5 DEF CancelWorkflow, TypeOK, progressVars, claimVars

\* A cancellation keeps the invariant, whatever worker holds the execution (cancel_workflow_run).
LEMMA CancelStep ==
    ASSUME EngineInv, NEW e \in Execution, CancelWorkflow(e)
    PROVE  EngineInv'
<1>1. /\ status[e] \in {"queued", "waiting"}
      /\ status'[e] = "cancelled" /\ \A x \in Execution \ {e} : status'[x] = status[x]
      /\ wait'[e] = ClosedWait(e, FALSE) /\ \A x \in Execution \ {e} : wait'[x] = wait[x]
      /\ UNCHANGED <<holder, path, current, sealed, dispatched, worker>>
    BY Zenon DEF CancelWorkflow, EngineInv, TypeOK, progressVars, claimVars
<1>2. /\ TypeOK'
      /\ \A c \in Execution :
           /\ call'[c].parent = call[c].parent /\ call'[c].node = call[c].node
           /\ call'[c].seq = call[c].seq
           /\ c \in PendingCalls(e) => call'[c].status = "cancelled"
           /\ c \notin PendingCalls(e) => call'[c] = call[c]
    BY Zenon, CancelTypes DEF EngineInv
<1>3. /\ wait'[e].node = wait[e].node /\ wait'[e].seq = wait[e].seq
      /\ wait[e].status = "pending" => wait'[e].status \in {"expired", "cancelled"}
      /\ wait[e].status # "pending" => wait'[e] = wait[e]
    BY Zenon, <1>1, ClosedWaitRow DEF EngineInv
<1>4. \A d : d \in outbox' <=>
        d \in outbox \/ d = FinalizeEvent(e) \/ \E c \in PendingCalls(e) : d = StopEvent(c)
    BY Zenon DEF CancelWorkflow
<1>5. e \notin PendingCalls(e)
    BY Zenon, PendingCall DEF PendingCalls
<1>6. \A x \in Execution \ {e} : RowsKept(x) /\ StaysLive(x)
    BY SMTT(30), <1>1, <1>2 DEF RowsKept, StaysLive, PendingCalls
<1>7. ASSUME NEW x \in Execution PROVE CallFits(x)'
  <2>1. CallFits(x) /\ call[x].seq \in Nat
    BY Zenon DEF EngineInv, TypeOK, CallRow
  <2>2. CASE x = e
    <3>1. CASE IsChild(e)
      <4>1. PICK q : q = call[e].parent
        BY Zenon
      <4>2. q \in Execution \ {e} /\ call'[e] = call[e]
        BY Zenon, <1>2, <1>5, <2>1, <2>2, <3>1, <4>1 DEF CallFits
      <4>3. StepCount(q)' = StepCount(q) /\ ReadyNodes(q)' = ReadyNodes(q) /\ status'[q] = status[q]
        BY Zenon, <1>1, <4>2 DEF StepCount, ReadyNodes
      <4>4. /\ call'[e].status \notin {"completed", "failed"}
            /\ call'[e].seq <= StepCount(q)' /\ ~ (call'[e].seq < StepCount(q)')
            /\ status'[q] # "none"
            /\ call'[e].status = "pending" => status'[q] \in Live
            /\ status'[q] \in Live /\ call'[e].seq = StepCount(q)' =>
                 /\ call'[e].status # "timed_out"
                 /\ TypeOf[call'[e].node] = "subworkflow"
                 /\ First(ReadyNodes(q)', call'[e].node)
        BY Zenon, <1>1, <2>1, <2>2, <3>1, <4>1, <4>2, <4>3 DEF CallFits
      <4>5. FinalizeEvent(e) \in outbox' /\ call'[e].parent = q
        BY Zenon, <1>4, <4>1, <4>2
      <4> QED BY Zenon, <1>1, <2>2, <3>1, <4>2, <4>4, <4>5 DEF CallFits, IsChild, StepCount, ReadyNodes, FinalizeEvent
    <3>2. CASE ~ IsChild(e)
      BY Zenon, <1>2, <1>5, <2>1, <2>2, <3>2 DEF CallFits, IsChild
    <3> QED BY Zenon, <3>1, <3>2
  <2>3. CASE x # e /\ call[x].parent = e
    <3>1. call'[x].parent = e /\ IsChild(x) /\ status[x] # "none"
      BY Zenon, <1>2, <2>1, <2>3, EngineAssumption DEF CallFits
    <3>2. /\ call'[x].seq <= Len(path[e])
          /\ call'[x].seq < Len(path[e]) => call'[x].status = "completed"
          /\ call'[x].status \in {"completed", "failed", "cancelled", "timed_out"}
          /\ call'[x].status = "completed" <=> status[x] = "completed"
          /\ call'[x].status = "failed" <=> status[x] = "failed"
      <4>1. CASE call[x].status = "pending"
        <5>1. x \in PendingCalls(e)
          BY Zenon, <2>3, <4>1 DEF PendingCalls
        <5> QED BY Zenon, <1>2, <2>1, <2>3, <3>1, <4>1, <5>1 DEF CallFits, StepCount
      <4>2. CASE call[x].status # "pending"
        <5>1. call'[x] = call[x]
          BY Zenon, <1>2, <4>2 DEF PendingCalls
        <5>2. call[x].status \in {"completed", "failed", "cancelled", "timed_out"}
          BY Zenon, <3>1, <4>2 DEF EngineInv, TypeOK, CallRow, IsChild
        <5> QED BY Zenon, <2>1, <2>3, <3>1, <5>1, <5>2 DEF CallFits, StepCount
      <4> QED BY Zenon, <4>1, <4>2
    <3> QED
      BY Zenon, <1>1, <2>3, <3>1, <3>2 DEF CallFits, IsChild, StepCount, Live
  <2>4. CASE x # e /\ call[x].parent # e
    <3>1. CallKept(x) /\ StaysLive(x)
      BY Zenon, <1>2, <1>6, <2>4 DEF CallKept, PendingCalls
    <3>2. IsChild(x) => call[x].parent \in Execution \ {e}
      BY Zenon, <2>1, <2>4 DEF CallFits
    <3> QED BY Zenon, <1>1, <1>4, <1>6, <3>1, <3>2, CallStays
  <2> QED BY Zenon, <2>2, <2>3, <2>4
<1>8. EventsFit(e)'
  <2>1. EventsFit(e)
    BY Zenon DEF EngineInv
  <2>2. \A d \in outbox' : d.exec = e => d \in outbox \/ d = FinalizeEvent(e)
    BY SMTT(30), <1>4, <1>5 DEF StopEvent
  <2>3. call'[e] = call[e] /\ FinalizeEvent(e) \in outbox'
    BY Zenon, <1>2, <1>4, <1>5
  <2> QED BY SMTT(30), <1>1, <2>1, <2>2, <2>3 DEF EventsFit, FinalizeEvent, Live
<1>9. ASSUME NEW x \in Execution \ {e} PROVE EventsFit(x)'
  <2>1. \A d \in outbox' : d.exec = x =>
          \/ d \in outbox
          \/ d = StopEvent(x) /\ status[x] # "none" /\ call'[x].status \in {"cancelled", "timed_out"}
    <3> SUFFICES ASSUME NEW d \in outbox', d.exec = x, NEW c \in PendingCalls(e), d = StopEvent(c)
                 PROVE  d = StopEvent(x) /\ status[x] # "none" /\ call'[x].status \in {"cancelled", "timed_out"}
      BY SMTT(30), <1>4 DEF FinalizeEvent
    <3>1. c = x
      BY Zenon DEF StopEvent
    <3>2. status[x] # "none"
      BY Zenon, <3>1, FreshRows DEF PendingCalls
    <3> QED BY Zenon, <1>2, <3>1, <3>2
  <2>2. call[x].status \in {"cancelled", "timed_out"} => call'[x].status = call[x].status
    BY Zenon, <1>2 DEF PendingCalls
  <2> QED BY Zenon, <1>1, <1>4, <1>6, <2>1, <2>2, EventsStay
<1>10. WaitFits(e)'
  <2>1. WaitFits(e) /\ wait[e].seq \in Nat
    BY Zenon DEF EngineInv, TypeOK, WaitRow
  <2> QED BY Zenon, <1>1, <1>3, <2>1 DEF WaitFits, StepCount, Live
<1>11. ASSUME NEW x \in Execution \ {e} PROVE WaitFits(x)'
    BY Zenon, <1>6, WaitStays
<1>12. \A v \in Worker : ClaimFits(v)'
  <2>1. ClaimsKept(e)
    BY Zenon, <1>1, <1>2, <1>4 DEF ClaimsKept
  <2> QED BY Zenon, <1>1, <2>1, ClaimsStay
<1>13. OneCallAStep'
    BY Zenon, <1>2, OneCallStays DEF PendingCalls
<1>14. (\A x \in Execution : sealed[x] => status[x] \in Terminal)'
    BY Zenon, <1>1 DEF EngineInv, Terminal
<1> QED
    BY SMTT(30), <1>2, <1>7, <1>8, <1>9, <1>10, <1>11, <1>12, <1>13, <1>14 DEF EngineInv
=============================================================================
