----------------------- MODULE WorkflowEngineProofs ------------------------
(***************************************************************************)
(* What the proofs about the workflow engine rest on, for any deployed     *)
(* definitions, executions, workers and step limit: the types of what the  *)
(* steps write, what stays true of rows a step leaves alone, and what the  *)
(* invariant says of the execution a worker holds.                         *)
(***************************************************************************)
EXTENDS WorkflowEngine, TLAPS

\* Types.

ProgressTypes ==
    /\ current \in [Execution -> SUBSET Node]
    /\ path \in [Execution -> Seq(Node)]
    /\ loops \in [Execution -> [Node -> Nat]]
    /\ checkpoints \in [Execution -> SUBSET CheckpointRow]

\* The workflow a subworkflow node calls is deployed.
LEMMA ReferencesAreDeployed ==
    ASSUME NEW n \in Node, TypeOf[n] = "subworkflow"
    PROVE  Referenced[n] \in Entry
BY DeploymentAssumption DEF AcyclicReferences, References

\* An execution begins with a well-typed checkpoint (_create_execution_records).
LEMMA BeginningTypes ==
    ASSUME NEW n \in Node
    PROVE  Beginning(n) \in CheckpointRow
BY DEF Beginning, Checkpoint, FreshLoops, CheckpointRow

\* An execution that is created where a well-typed checkpoint says.
LEMMA CreateTypes ==
    ASSUME TypeOK, NEW e \in Execution, NEW k \in CheckpointRow, CreateExecution(e, k)
    PROVE  ProgressTypes'
BY Zenon DEF TypeOK, ProgressTypes, CreateExecution, CheckpointRow

\* A claim, while it is held.
LEMMA ClaimTypes ==
    ASSUME TypeOK, NEW w \in Worker, worker[w] # Idle
    PROVE  /\ worker[w] \in Claim
           /\ worker[w].exec \in Execution
           /\ worker[w].event \in Event
           /\ worker[w].phase \in {"claimed", "advancing"}
BY Zenon DEF TypeOK, Claim

\* A worker that lets go of its claim leaves the other workers' claims alone.
LEMMA WorkerIdles ==
    ASSUME TypeOK, NEW w \in Worker, worker' = [worker EXCEPT ![w] = Idle]
    PROVE  /\ worker' \in [Worker -> {Idle} \cup Claim]
           /\ worker'[w] = Idle
           /\ \A v \in Worker \ {w} : worker'[v] = worker[v]
BY Zenon DEF TypeOK

\* Every event the engine enqueues is an outbox row.
LEMMA EventTypes ==
    /\ \A e \in Execution, k \in Nat :
          ReadyEvent(e, k) \in Event /\ WaitEvent(e, "wake", k) \in Event
                                   /\ WaitEvent(e, "resume", k) \in Event
    /\ \A e, c \in Execution :
          CallEvent(e, "timeout", c) \in Event /\ CallEvent(e, "settled", c) \in Event
    /\ \A e \in Execution : StopEvent(e) \in Event /\ FinalizeEvent(e) \in Event
BY Zenon DEF Event, ReadyEvent, WaitEvent, CallEvent, StopEvent, FinalizeEvent

\* What ending an execution does to its wait, its calls and the call it serves.
LEMMA ClosedWaitRow ==
    ASSUME TypeOK, NEW e \in Execution, NEW lapsed \in BOOLEAN
    PROVE  /\ ClosedWait(e, lapsed) \in WaitRow
           /\ ClosedWait(e, lapsed).node = wait[e].node
           /\ ClosedWait(e, lapsed).seq = wait[e].seq
           /\ wait[e].status = "pending" => ClosedWait(e, lapsed).status \in {"expired", "cancelled"}
           /\ wait[e].status # "pending" => ClosedWait(e, lapsed) = wait[e]
<1>1. wait[e] \in WaitRow
    BY Zenon DEF TypeOK
<1>2. CASE wait[e].status = "pending"
  <2>1. CASE lapsed
    <3>1. ClosedWait(e, lapsed) = [wait[e] EXCEPT !.status = "expired", !.resolution = "expired"]
      BY Zenon, <1>2, <2>1 DEF ClosedWait
    <3> QED BY <1>1, <1>2, <3>1, Zenon DEF WaitRow
  <2>2. CASE ~ lapsed
    <3>1. ClosedWait(e, lapsed) = [wait[e] EXCEPT !.status = "cancelled", !.resolution = "cancelled"]
      BY Zenon, <1>2, <2>2 DEF ClosedWait
    <3> QED BY <1>1, <1>2, <3>1, Zenon DEF WaitRow
  <2> QED BY Zenon, <2>1, <2>2
<1>3. CASE wait[e].status # "pending"
    BY <1>1, <1>3, Zenon DEF ClosedWait
<1> QED BY Zenon, <1>2, <1>3

-----------------------------------------------------------------------------
\* What a step keeps, it still fits.

\* A step leaves alone what the events of execution x are read against: its progress,
\* its wait and the calls it made.
RowsKept(x) ==
    /\ path'[x] = path[x]
    /\ current'[x] = current[x]
    /\ wait'[x].node = wait[x].node
    /\ wait'[x].seq = wait[x].seq
    /\ wait'[x].status = wait[x].status
    /\ \A c \in Execution : call[c].parent = x \/ call'[c].parent = x =>
          /\ call'[c].parent = call[c].parent
          /\ call'[c].node = call[c].node
          /\ call'[c].seq = call[c].seq
          /\ call'[c].status = call[c].status

\* While its rows are kept, an execution is at the same step and awaits the same event.
LEMMA KeptReading ==
    ASSUME NEW x, RowsKept(x)
    PROVE  /\ StepCount(x)' = StepCount(x)
           /\ ReadyNodes(x)' = ReadyNodes(x)
           /\ WaitHere(x)' <=> WaitHere(x)
           /\ CallsHere(x)' = CallsHere(x)
           /\ \A ev : Awaits(x, ev)' <=> Awaits(x, ev)
<1>1. StepCount(x)' = StepCount(x) /\ ReadyNodes(x)' = ReadyNodes(x)
    BY Zenon DEF RowsKept, StepCount, ReadyNodes
<1>2. WaitHere(x)' <=> WaitHere(x)
    BY Zenon, <1>1 DEF RowsKept, WaitHere
<1>3. CallsHere(x)' = CallsHere(x)
    BY Zenon, <1>1 DEF RowsKept, CallsHere
<1>4. \A c \in CallsHere(x) : call'[c].status = call[c].status
    BY Zenon DEF RowsKept, CallsHere
<1>5. \A ev : Awaits(x, ev)' <=> Awaits(x, ev)
    BY Zenon, <1>1, <1>2, <1>3, <1>4 DEF RowsKept, Awaits, ReadyEvent, WaitEvent, CallEvent
<1> QED BY Zenon, <1>1, <1>2, <1>3, <1>5

\* What an execution awaits is its own and one thing.
LEMMA AwaitsOne ==
    ASSUME EngineInv, NEW e \in Execution, status[e] \in Live, NEW a, NEW b, Awaits(e, a), Awaits(e, b)
    PROVE  a = b
<1>1. WaitHere(e) => CallsHere(e) = {}
    BY Zenon DEF EngineInv, WaitFits, WaitHere
<1>2. \A c, d \in CallsHere(e) : c = d
  <2> SUFFICES ASSUME NEW c \in CallsHere(e), NEW d \in CallsHere(e)
               PROVE  c = d
    BY Zenon
  <2>1. call[c].parent = e /\ call[d].parent = e /\ call[c].seq = call[d].seq
    BY Zenon DEF CallsHere
  <2>2. IsChild(c)
    BY <2>1, EngineAssumption DEF EngineInv, CallFits, CallsHere
  <2> QED BY Zenon, <2>1, <2>2 DEF EngineInv, OneCallAStep, CallsHere
<1> QED
    BY <1>1, <1>2 DEF Awaits, ReadyEvent, WaitEvent, CallEvent

\* An awaited event is one of the execution's own, and never a stop or a finalize.
LEMMA AwaitsOwn ==
    ASSUME NEW e, NEW ev, Awaits(e, ev)
    PROVE  ev.exec = e /\ ev.kind \in {"ready", "wake", "resume", "timeout", "settled"}
BY DEF Awaits, ReadyEvent, WaitEvent, CallEvent

\* An execution whose rows, status and events are kept, or that is only told to stop.
LEMMA EventsStay ==
    ASSUME EngineInv, NEW x \in Execution, RowsKept(x), status'[x] = status[x],
           sealed[x] => sealed'[x],
           \A ev \in outbox' : ev.exec = x =>
              \/ ev \in outbox
              \/ ev = StopEvent(x) /\ status[x] # "none" /\ call'[x].status \in {"cancelled", "timed_out"},
           \A ev \in outbox : Awaits(x, ev) =>
              ev \in outbox' /\ (ev \in dispatched' => ev \in dispatched),
           status[x] = "cancelled" /\ FinalizeEvent(x) \in outbox =>
              sealed'[x] \/ FinalizeEvent(x) \in outbox',
           call[x].status \in {"cancelled", "timed_out"} => call'[x].status = call[x].status
    PROVE  EventsFit(x)'
<1>1. EventsFit(x)
    BY Zenon DEF EngineInv
<1>2. \A ev : Awaits(x, ev)' <=> Awaits(x, ev)
    BY Zenon, KeptReading
<1>3. (status[x] \in Live =>
          \E ev \in outbox : Awaits(x, ev) /\ (ev \in dispatched => status[x] = "running"))'
    BY Zenon, <1>1, <1>2 DEF EventsFit
<1>4. (status[x] = "cancelled" => sealed[x] \/ FinalizeEvent(x) \in outbox)'
    BY Zenon, <1>1 DEF EventsFit, FinalizeEvent
<1>5. ASSUME NEW ev \in outbox', ev.exec = x
      PROVE  /\ status'[x] # "none"
             /\ status'[x] \in Live => Awaits(x, ev)' \/ ev = StopEvent(x)
             /\ ev.kind = "stop" => call'[x].status \in {"cancelled", "timed_out"}
             /\ ev.kind = "finalize" => status'[x] = "cancelled"
  <2>1. CASE ev \in outbox
    BY Zenon, <1>1, <1>2, <1>5, <2>1 DEF EventsFit
  <2>2. CASE ev = StopEvent(x) /\ status[x] # "none" /\ call'[x].status \in {"cancelled", "timed_out"}
    BY Zenon, <2>2 DEF StopEvent
  <2> QED BY Zenon, <1>5, <2>1, <2>2
<1> QED
    BY Zenon, <1>3, <1>4, <1>5 DEF EventsFit, StopEvent

StaysLive(x) == status'[x] = status[x] \/ (status[x] \in Live /\ status'[x] \in Live)

CallKept(c) ==
    /\ call'[c].parent = call[c].parent
    /\ call'[c].node = call[c].node
    /\ call'[c].seq = call[c].seq
    /\ call'[c].status = call[c].status

\* A call still fits when neither its row, its parent's progress nor its child changes.
LEMMA CallStays ==
    ASSUME EngineInv, NEW c \in Execution, CallKept(c), StaysLive(c),
           IsChild(c) =>
              LET p == call[c].parent
              IN  StaysLive(p) /\ path'[p] = path[p] /\ current'[p] = current[p],
           call[c].status = "pending" /\ FinalizeEvent(c) \in outbox => FinalizeEvent(c) \in outbox'
    PROVE  CallFits(c)'
<1>1. CallFits(c)
    BY Zenon DEF EngineInv
<1>2. IsChild(c)' <=> IsChild(c)
    BY Zenon DEF IsChild, CallKept
<1>3. CASE ~ IsChild(c)
    BY Zenon, <1>1, <1>2, <1>3 DEF CallFits, CallKept
<1>4. CASE IsChild(c)
  <2> DEFINE p == call[c].parent
  <2>1. StepCount(p)' = StepCount(p) /\ ReadyNodes(p)' = ReadyNodes(p)
    BY Zenon, <1>4 DEF StepCount, ReadyNodes, CallKept
  <2>2. call'[c].parent = p /\ StaysLive(p)
    BY Zenon, <1>4 DEF CallKept
  <2>3. /\ (call[c].status = "completed" <=> status[c] = "completed")'
        /\ (call[c].status = "failed" <=> status[c] = "failed")'
    BY Zenon, <1>1, <1>4 DEF CallFits, CallKept, StaysLive, Live
  <2>4. /\ p \in Execution \ {c} /\ status'[c] # "none" /\ status'[p] # "none"
        /\ call'[c].seq <= StepCount(p)'
        /\ call'[c].seq < StepCount(p)' => call'[c].status = "completed"
    BY Zenon, <1>1, <1>4, <2>1, <2>2 DEF CallFits, CallKept, StaysLive, Live
  <2>5. call'[c].status = "pending" =>
          /\ status'[p] \in Live
          /\ status'[c] \in Live \/ FinalizeEvent(c) \in outbox'
    BY Zenon, <1>1, <1>4, <2>2 DEF CallFits, CallKept, StaysLive
  <2>6. status'[p] \in Live /\ call'[c].seq = StepCount(p)' =>
          /\ call'[c].status # "timed_out"
          /\ TypeOf[call'[c].node] = "subworkflow"
          /\ First(ReadyNodes(p)', call'[c].node)
    BY Zenon, <1>1, <1>4, <2>1, <2>2 DEF CallFits, CallKept, StaysLive
  <2> QED
    BY Zenon, <1>2, <1>4, <2>1, <2>2, <2>3, <2>4, <2>5, <2>6 DEF CallFits, FinalizeEvent, StepCount, ReadyNodes
<1> QED BY Zenon, <1>3, <1>4

\* A wait still fits when neither its row nor its execution's progress changes.
LEMMA WaitStays ==
    ASSUME EngineInv, NEW x \in Execution, RowsKept(x), StaysLive(x)
    PROVE  WaitFits(x)'
<1>1. WaitFits(x)
    BY Zenon DEF EngineInv
<1>2. /\ StepCount(x)' = StepCount(x) /\ ReadyNodes(x)' = ReadyNodes(x)
      /\ CallsHere(x)' = CallsHere(x)
    BY Zenon, KeptReading
<1> QED
    BY Zenon, <1>1, <1>2 DEF WaitFits, RowsKept, StaysLive, Live

\* A claim still fits while its event and the execution it holds are kept.
LEMMA ClaimStays ==
    ASSUME EngineInv, NEW v \in Worker, worker'[v] = worker[v],
           Advancing(v) /\ Valid(v) =>
              LET e == worker[v].exec
              IN  /\ worker[v].event \in outbox' /\ status'[e] = "running" /\ holder'[e] = v
                  /\ call'[e].status = call[e].status \/ call'[e].status # "none"
    PROVE  ClaimFits(v)'
BY DEF EngineInv, ClaimFits, Advancing, Valid, IsChild

\* A step that makes no call leaves at most one call to each step.
LEMMA OneCallStays ==
    ASSUME EngineInv,
           \A c \in Execution :
              /\ call'[c].parent = call[c].parent
              /\ call'[c].seq = call[c].seq
              /\ call[c].status = "none" => call'[c].status = "none"
    PROVE  OneCallAStep'
BY DEF EngineInv, OneCallAStep, IsChild

-----------------------------------------------------------------------------
\* What the invariant says of claims, calls and executions not yet created.

\* A valid claim is on the event its execution awaits, or tells it to stop.
LEMMA ValidClaim ==
    ASSUME EngineInv, NEW w \in Worker, worker[w] # Idle, Valid(w)
    PROVE  LET e == worker[w].exec
               ev == worker[w].event
           IN  /\ e \in Execution /\ ev \in outbox /\ ev.exec = e
               /\ status[e] = "running" /\ holder[e] = w
               /\ \/ Awaits(e, ev) /\ ev.kind # "stop"
                  \/ ev = StopEvent(e) /\ call[e].status \in {"cancelled", "timed_out"}
<1>1. worker[w].exec \in Execution
    BY Zenon, ClaimTypes DEF EngineInv
<1>2. worker[w].event.exec = worker[w].exec
    BY Zenon DEF EngineInv, ClaimFits
<1>3. EventsFit(worker[w].exec)
    BY Zenon, <1>1 DEF EngineInv
<1> QED
    BY <1>1, <1>2, <1>3, AwaitsOwn DEF Valid, EventsFit, StopEvent, Live

\* The claim of a turn is on the event its execution awaits.
LEMMA TurnClaim ==
    ASSUME EngineInv, NEW w \in Worker, worker[w] # Idle, Turn(w),
           NEW e, worker[w].exec = e, NEW ev, worker[w].event = ev
    PROVE  /\ e \in Execution /\ ev \in outbox /\ ev.exec = e /\ Awaits(e, ev)
           /\ status[e] = "running" /\ holder[e] = w
           /\ StepCount(e) \in Nat
<1>1. /\ e \in Execution /\ ev \in outbox /\ ev.exec = e
      /\ status[e] = "running" /\ holder[e] = w
      /\ \/ Awaits(e, ev)
         \/ ev = StopEvent(e) /\ call[e].status \in {"cancelled", "timed_out"}
    BY Zenon, ValidClaim DEF Turn
<1>2. ~ (ev = StopEvent(e) /\ call[e].status \in {"cancelled", "timed_out"})
    BY SMTT(30) DEF Turn, IsChild, EngineInv, ClaimFits, Advancing, StopEvent
<1>3. StepCount(e) \in Nat
    BY SMTT(30), <1>1 DEF EngineInv, TypeOK, StepCount
<1> QED BY Zenon, <1>1, <1>2, <1>3

\* A turn is at the first ready node, and at the node of an open wait or call.
LEMMA TurnNode ==
    ASSUME EngineInv, NEW w \in Worker, worker[w] # Idle,
           NEW e, worker[w].exec = e, NEW n \in Node, AtNode(w, n)
    PROVE  /\ First(ReadyNodes(e), n)
           /\ StepCount(e) < MaxSteps
           /\ WaitHere(e) => /\ n = wait[e].node /\ TypeOf[n] \in WaitTypes
                             /\ wait[e].status \in {"pending", "resolved"}
                             /\ CallsHere(e) = {}
           /\ \A c \in CallsHere(e) : n = call[c].node /\ TypeOf[n] = "subworkflow"
<1> DEFINE ev == worker[w].event
<1>1. /\ e \in Execution /\ ev \in outbox /\ Awaits(e, ev) /\ status[e] \in Live /\ StepCount(e) \in Nat
    BY SMTT(30), TurnClaim DEF AtNode, Live
<1>2. StepCount(e) < MaxSteps
    BY SMTT(30), <1>1, EngineAssumption DEF AtNode, Refusal
<1>3. WaitHere(e) => /\ CallsHere(e) = {} /\ wait[e].status \in {"pending", "resolved"}
                     /\ TypeOf[wait[e].node] \in WaitTypes /\ First(ReadyNodes(e), wait[e].node)
    BY Zenon, <1>1 DEF EngineInv, WaitFits, WaitHere
<1>4. \A c \in CallsHere(e) : TypeOf[call[c].node] = "subworkflow" /\ First(ReadyNodes(e), call[c].node)
    BY SMTT(30), <1>1, EngineAssumption DEF EngineInv, CallFits, CallsHere
<1>5. CASE WaitHere(e)
  <2>1. WakesWait(ev)
    BY SMTT(30), <1>1, <1>3, <1>5 DEF Awaits, WakesWait, WaitEvent
  <2>2. n = wait[e].node
    BY Zenon, <2>1 DEF AtNode, NodeAt
  <2> QED BY Zenon, <1>2, <1>3, <1>5, <2>2
<1>6. CASE ~ WaitHere(e) /\ CallsHere(e) # {}
  <2>0. PICK c \in CallsHere(e) :
            ev = CallEvent(e, "timeout", c) \/ ev = CallEvent(e, "settled", c)
    BY <1>1, <1>6, Zenon DEF Awaits
  <2>1. ev.id = c /\ ev.kind \in {"timeout", "settled"}
    BY SMTT(30), <2>0 DEF CallEvent
  <2>2. n = call[c].node
    BY Zenon, <2>1 DEF AtNode, NodeAt, WakesWait, WakesCall
  <2>3. \A d \in CallsHere(e) : d = c
    BY SMTT(30), <1>1, <2>1, EngineAssumption DEF EngineInv, OneCallAStep, CallFits, CallsHere
  <2> QED BY Zenon, <1>2, <1>4, <1>6, <2>2, <2>3
<1>7. CASE ~ WaitHere(e) /\ CallsHere(e) = {}
  <2>1. ev.kind = "ready"
    BY SMTT(30), <1>1, <1>7 DEF Awaits, ReadyEvent
  <2>2. First(ReadyNodes(e), n)
    BY Zenon, <2>1 DEF AtNode, NodeAt, WakesWait, WakesCall
  <2> QED BY Zenon, <1>2, <1>7, <2>2
<1> QED BY Zenon, <1>5, <1>6, <1>7

\* A pending call is at its parent's current step.
LEMMA PendingCall ==
    ASSUME EngineInv, NEW e \in Execution, call[e].status = "pending", NEW p, call[e].parent = p
    PROVE  /\ p \in Execution \ {e}
           /\ status[p] \in Live
           /\ e \in CallsHere(p)
           /\ call[e].seq = StepCount(p)
           /\ \A ev : Awaits(p, ev) <=> ev = CallEvent(p, "timeout", e)
           /\ CallEvent(p, "settled", e) \notin outbox
<1>1. /\ p \in Execution \ {e} /\ status[p] \in Live
      /\ call[e].seq <= StepCount(p) /\ ~ (call[e].seq < StepCount(p))
    BY Zenon DEF EngineInv, CallFits, IsChild
<1>2. call[e].seq \in Nat /\ StepCount(p) \in Nat
    BY <1>1 DEF EngineInv, TypeOK, CallRow, StepCount
<1>3. call[e].seq = StepCount(p)
    BY <1>1, <1>2
<1>4. e \in CallsHere(p)
    BY Zenon, <1>3 DEF CallsHere
<1>5. Awaits(p, CallEvent(p, "timeout", e))
    BY Zenon, <1>4 DEF Awaits
<1>6. \A ev : Awaits(p, ev) <=> ev = CallEvent(p, "timeout", e)
    BY Zenon, <1>1, <1>5, AwaitsOne
<1>7. CallEvent(p, "settled", e) \notin outbox
    BY Zenon, <1>1, <1>6 DEF EngineInv, EventsFit, CallEvent, StopEvent
<1> QED
    BY Zenon, <1>1, <1>3, <1>4, <1>6, <1>7

\* An execution not yet created has no events, waits, calls or evidence.
LEMMA FreshRows ==
    ASSUME EngineInv, NEW c \in Execution, status[c] = "none"
    PROVE  /\ \A ev \in outbox : ev.exec # c
           /\ \A d \in Execution : call[d].parent # c
           /\ wait[c].status = "none"
           /\ call[c].status = "none" /\ call[c].parent = NoOne
           /\ ~ sealed[c]
<1>1. EventsFit(c) /\ CallFits(c) /\ WaitFits(c)
    BY Zenon DEF EngineInv
<1>2. \A d \in Execution : call[d].parent # c
    BY EngineAssumption DEF EngineInv, CallFits
<1> QED
    BY Zenon, <1>1, <1>2 DEF EngineInv, EventsFit, CallFits, WaitFits, IsChild, Terminal

\* A created execution awaits the ready event of its first step.
LEMMA FreshAwaits ==
    ASSUME NEW c \in Execution, NEW n \in Nat, Len(path'[c]) = n,
           wait'[c].status = "none", \A d \in Execution : call'[d].parent # c
    PROVE  \A ev : Awaits(c, ev)' <=> ev = ReadyEvent(c, n)
<1>1. StepCount(c)' = n /\ ~ WaitHere(c)' /\ CallsHere(c)' = {}
    BY Zenon DEF StepCount, WaitHere, CallsHere
<1> QED
    BY Zenon, <1>1 DEF Awaits, ReadyEvent

\* Completing a node: what becomes of the progress of its execution.
Walks(e, n, b) ==
    LET now == (current[e] \ {n}) \cup NextNodes(n, b)
        walked == Append(path[e], n)
        counts == [loops[e] EXCEPT ![n] = LoopCount(n, b, loops[e][n])]
    IN  /\ current' = [current EXCEPT ![e] = now]
        /\ path' = [path EXCEPT ![e] = walked]
        /\ loops' = [loops EXCEPT ![e] = counts]
        /\ checkpoints' = [checkpoints EXCEPT ![e] = @ \cup {Checkpoint(now, walked, counts)}]

-----------------------------------------------------------------------------
\* The invariant holds when nothing has happened, and what it means.

\* Nothing has happened: everything fits.
LEMMA InitFits == Init => EngineInv
<1> SUFFICES ASSUME Init PROVE EngineInv
    BY Zenon
<1>1. NoWait \in WaitRow /\ NoCall \in CallRow
    BY Zenon DEF NoWait, NoCall, WaitRow, CallRow
<1>2. TypeOK
    BY <1>1 DEF Init, TypeOK, FreshLoops, Errors
<1>3. \A e \in Execution : EventsFit(e) /\ CallFits(e) /\ WaitFits(e) /\ ~ sealed[e]
    BY Zenon DEF Init, EventsFit, CallFits, WaitFits, IsChild, NoCall, NoWait, Live
<1>4. OneCallAStep
    BY Zenon DEF Init, OneCallAStep, IsChild, NoCall
<1>5. \A w \in Worker : ClaimFits(w)
    BY Zenon DEF Init, ClaimFits
<1> QED
    BY Zenon, <1>2, <1>3, <1>4, <1>5 DEF EngineInv

\* The awaited event is in the outbox and no worker has taken it away.
LEMMA NothingIsStranded == EngineInv => NothingStranded
<1> SUFFICES ASSUME EngineInv, NEW e \in Execution
             PROVE  LET events == {ev \in outbox : ev.exec = e /\ ev.kind # "finalize"}
                    IN  /\ status[e] \in {"queued", "waiting"} => events \ dispatched # {}
                        /\ status[e] = "running" => events # {}
                        /\ status[e] = "cancelled" => sealed[e] \/ FinalizeEvent(e) \in outbox
    BY Zenon DEF NothingStranded
<1>1. EventsFit(e)
    BY Zenon DEF EngineInv
<1>2. \A ev \in outbox : Awaits(e, ev) => ev.exec = e /\ ev.kind # "finalize"
    BY Zenon, AwaitsOwn
<1> QED
    BY Zenon, <1>1, <1>2 DEF EventsFit, Live

\* An event of a live execution is the awaited one, or a stop of a call that was given up.
LEMMA EventsAreExpected == EngineInv => EventsMatchRows
<1> SUFFICES ASSUME EngineInv, NEW ev \in outbox, status[ev.exec] \in Live
             PROVE  CASE ev.kind = "ready" -> ev.id = StepCount(ev.exec)
                      [] ev.kind = "wake" -> ~ Misdirected(ev.exec, ev) /\ wait[ev.exec].status = "pending"
                      [] ev.kind = "resume" -> ~ Misdirected(ev.exec, ev) /\ wait[ev.exec].status = "resolved"
                      [] ev.kind = "timeout" -> ~ Misdirected(ev.exec, ev) /\ call[ev.id].status = "pending"
                      [] ev.kind = "settled" ->
                            /\ ~ Misdirected(ev.exec, ev)
                            /\ call[ev.id].status \in {"completed", "failed", "cancelled"}
                      [] ev.kind = "stop" -> call[ev.exec].status \in {"cancelled", "timed_out"}
                      [] OTHER -> FALSE
    BY Zenon DEF EventsMatchRows
<1>1. PICK e \in Execution : e = ev.exec
    BY Zenon DEF EngineInv, TypeOK, Event
<1>2. Awaits(e, ev) \/ (ev = StopEvent(e) /\ call[e].status \in {"cancelled", "timed_out"})
    BY <1>1 DEF EngineInv, EventsFit, StopEvent
<1>3. WaitHere(e) => wait[e].node \in ReadyNodes(e)
    BY Zenon, <1>1 DEF EngineInv, WaitFits, WaitHere, First
<1>4. \A c \in CallsHere(e) : call[c].node \in ReadyNodes(e) /\ call[c].seq = StepCount(e)
    BY <1>1, EngineAssumption DEF EngineInv, CallFits, CallsHere, First
<1>5. CASE ev = ReadyEvent(e, StepCount(e))
    BY <1>1, <1>5 DEF ReadyEvent
<1>6. CASE WaitHere(e) /\ wait[e].status = "pending" /\ ev = WaitEvent(e, "wake", StepCount(e))
    BY <1>1, <1>3, <1>6 DEF WaitEvent, Misdirected, WakesWait, WakesCall
<1>7. CASE WaitHere(e) /\ wait[e].status = "resolved" /\ ev = WaitEvent(e, "resume", StepCount(e))
    BY <1>1, <1>3, <1>7 DEF WaitEvent, Misdirected, WakesWait, WakesCall
<1>8. ASSUME NEW c \in CallsHere(e), call[c].status = "pending", ev = CallEvent(e, "timeout", c)
      PROVE  ev.kind = "timeout" /\ ~ Misdirected(ev.exec, ev) /\ call[ev.id].status = "pending"
    BY <1>1, <1>4, <1>8 DEF CallEvent, Misdirected, WakesWait, WakesCall
<1>9. ASSUME NEW c \in CallsHere(e), call[c].status \in {"completed", "failed", "cancelled"},
             ev = CallEvent(e, "settled", c)
      PROVE  /\ ev.kind = "settled" /\ ~ Misdirected(ev.exec, ev)
             /\ call[ev.id].status \in {"completed", "failed", "cancelled"}
    BY <1>1, <1>4, <1>9 DEF CallEvent, Misdirected, WakesWait, WakesCall
<1>10. CASE ev = StopEvent(e) /\ call[e].status \in {"cancelled", "timed_out"}
    BY <1>1, <1>10 DEF StopEvent
<1> QED
    BY <1>2, <1>5, <1>6, <1>7, <1>8, <1>9, <1>10 DEF Awaits

\* A fitting call agrees with its child.
LEMMA CallsAreTrue == EngineInv => CallsTellTheTruth
BY Zenon DEF EngineInv, CallFits, CallsTellTheTruth

\* A fitting call or wait is at the current step or settled at an earlier one.
LEMMA NothingIsSkipped == EngineInv => NothingSkipped
<1> SUFFICES ASSUME EngineInv PROVE NothingSkipped
    BY Zenon
<1>1. ASSUME NEW c \in Execution, IsChild(c)
      PROVE  LET p == call[c].parent
             IN  /\ call[c].seq < StepCount(p) => call[c].status = "completed"
                 /\ call[c].status = "pending" => call[c].seq = StepCount(p)
    BY <1>1, PendingCall DEF EngineInv, CallFits
<1>2. ASSUME NEW e \in Execution, wait[e].status # "none"
      PROVE  /\ wait[e].seq < StepCount(e) => wait[e].status = "resolved"
             /\ wait[e].status = "pending" => wait[e].seq = StepCount(e) /\ status[e] \in Live
  <2>1. wait[e].seq \in Nat /\ StepCount(e) \in Nat
    BY DEF EngineInv, TypeOK, WaitRow, StepCount
  <2> QED BY <1>2, <2>1 DEF EngineInv, WaitFits
<1> QED BY Zenon, <1>1, <1>2 DEF NothingSkipped
=============================================================================
