--------------------------- MODULE WorkflowEngine ---------------------------
(***************************************************************************)
(* The durable workflow engine: executions, the workflow.ready outbox,     *)
(* workers that claim and advance one node at a time, durable waits,       *)
(* referenced subworkflows, timeouts, cancellation and final evidence.     *)
(*                                                                         *)
(* One step is one database transaction, except that advance of a child    *)
(* execution is two: it reads the row of its parent's call without a lock  *)
(* and the ORM hands that object back, unrefreshed, when the call is       *)
(* settled at the end of the same transaction.  Between the two the        *)
(* execution and the claimed event stay locked.  A trigger of the database *)
(* refuses the second settlement of a call and so aborts the transaction.  *)
(*                                                                         *)
(* The outbox holds the unprocessed events.  Time is what the code         *)
(* compares it with: a lease, a wait, a call or a deadline has run out or  *)
(* not.  A worker holds one claim at a time, so the worker that holds a    *)
(* claim names its token.  Tool and agent nodes are not in this module.    *)
(***************************************************************************)
EXTENDS WorkflowGraph, Sequences

CONSTANTS
    Execution,  \* workflow executions, created or not
    Worker,     \* workflow workers
    MaxSteps,   \* limits.max_steps of every definition
    MaxRoots,   \* bound: runs that callers start or fork
    NoOne       \* no worker, or no parent

ASSUME EngineAssumption ==
    /\ MaxSteps \in Nat
    /\ NoOne \notin Execution

VARIABLES
    status,       \* [Execution -> workflow_executions.status, "none" before]
    error,        \* [Execution -> error_code]
    holder,       \* [Execution -> whose claim token it carries]
    lease,        \* [Execution -> lease_expires_at against now]
    overdue,      \* [Execution -> deadline_at has passed]
    current,      \* [Execution -> current_nodes_json]
    path,         \* [Execution -> path_json; its length is step_count]
    loops,        \* [Execution -> loop_counts_json]
    checkpoints,  \* [Execution -> its run_checkpoints rows]
    wait,         \* [Execution -> its latest workflow_waits row]
    call,         \* [Execution -> the workflow_subworkflow_calls row it is the child of]
    sealed,       \* [Execution -> its evidence bundle is signed]
    outbox,       \* unprocessed outbox events
    dispatched,   \* those with dispatched_at set
    worker        \* [Worker -> what process_once holds in memory]

progressVars == <<current, path, loops, checkpoints>>
claimVars == <<holder, lease>>
vars == <<status, error, claimVars, overdue, progressVars, wait, call, sealed,
          outbox, dispatched, worker>>

Terminal == {"completed", "failed", "cancelled"}
Live == {"queued", "running", "waiting"}
Idle == [phase |-> "idle"]
NoWait == [node |-> 0, seq |-> 0, status |-> "none", resolution |-> "none", due |-> FALSE]
NoCall == [parent |-> NoOne, node |-> 0, seq |-> 0, status |-> "none", due |-> FALSE]

\* Outbox rows are named by their deduplication keys: a step, a wait of a step,
\* the call a child was created by.
ReadyEvent(e, step) == [exec |-> e, kind |-> "ready", id |-> step]
WaitEvent(e, kind, step) == [exec |-> e, kind |-> kind, id |-> step]
CallEvent(e, kind, child) == [exec |-> e, kind |-> kind, id |-> child]
StopEvent(child) == [exec |-> child, kind |-> "stop", id |-> child]
FinalizeEvent(e) == [exec |-> e, kind |-> "finalize", id |-> e]

StepCount(e) == Len(path[e])
IsChild(e) == call[e].status # "none"
\* Mutant: an execution that ends leaves its pending calls as they are.
CallsLeftPending(e) == {}
PendingCalls(e) == {c \in Execution : call[c].parent = e /\ call[c].status = "pending"}

\* available_at: wakes and timeouts become available when their row is due.
Available(ev) ==
    CASE ev.kind = "wake" -> wait[ev.exec].seq = ev.id => wait[ev.exec].due
      [] ev.kind = "timeout" -> call[ev.id].due
      [] OTHER -> TRUE

\* Rows an unfinished advance of a child has locked.
Advancing(w) == worker[w].phase = "advancing"
RowLocked(e) == \E w \in Worker : Advancing(w) /\ worker[w].exec = e
EventLocked(ev) == \E w \in Worker : Advancing(w) /\ worker[w].event = ev

Init ==
    /\ status = [e \in Execution |-> "none"]
    /\ error = [e \in Execution |-> "none"]
    /\ holder = [e \in Execution |-> NoOne]
    /\ lease = [e \in Execution |-> "none"]
    /\ overdue = [e \in Execution |-> FALSE]
    /\ current = [e \in Execution |-> {}]
    /\ path = [e \in Execution |-> <<>>]
    /\ loops = [e \in Execution |-> FreshLoops]
    /\ checkpoints = [e \in Execution |-> {}]
    /\ wait = [e \in Execution |-> NoWait]
    /\ call = [e \in Execution |-> NoCall]
    /\ sealed = [e \in Execution |-> FALSE]
    /\ outbox = {}
    /\ dispatched = {}
    /\ worker = [w \in Worker |-> Idle]

-----------------------------------------------------------------------------
\* _create_execution_records, from a start or a checkpoint.
CreateExecution(e, checkpoint) ==
    /\ status[e] = "none"
    /\ current' = [current EXCEPT ![e] = checkpoint.current]
    /\ path' = [path EXCEPT ![e] = checkpoint.path]
    /\ loops' = [loops EXCEPT ![e] = checkpoint.loops]
    /\ checkpoints' = [checkpoints EXCEPT ![e] = {checkpoint}]

Roots == {e \in Execution : status[e] # "none" /\ ~ IsChild(e)}
Beginning(entry) == Checkpoint({entry}, <<>>, FreshLoops)

StartWorkflow(e, entry) ==
    /\ Cardinality(Roots) < MaxRoots
    /\ CreateExecution(e, Beginning(entry))
    /\ status' = [status EXCEPT ![e] = "queued"]
    /\ outbox' = outbox \cup {ReadyEvent(e, 0)}
    /\ UNCHANGED <<error, claimVars, overdue, wait, call, sealed, dispatched, worker>>

\* fork_workflow_run refuses a checkpoint with no remaining node.
ForkWorkflow(e, origin) ==
    \E checkpoint \in checkpoints[origin] :
        /\ Cardinality(Roots) < MaxRoots
        /\ checkpoint.current # {}
        /\ CreateExecution(e, checkpoint)
        /\ status' = [status EXCEPT ![e] = "queued"]
        /\ outbox' = outbox \cup {ReadyEvent(e, Len(checkpoint.path))}
        /\ UNCHANGED <<error, claimVars, overdue, wait, call, sealed, dispatched, worker>>

-----------------------------------------------------------------------------
\* Mutant: an expired lease is never taken over.
NeverRecovered(e) == FALSE

\* claim_ready: an idle execution, or a running one whose lease has expired.
Recoverable(e) == status[e] = "running" /\ lease[e] = "expired"

Claimable(ev) ==
    /\ ev.kind # "finalize"
    /\ Available(ev)
    /\ \/ status[ev.exec] \in {"queued", "waiting"} /\ ev \notin dispatched
       \/ Recoverable(ev.exec)
    /\ ~ RowLocked(ev.exec)

ClaimReady(w, ev) ==
    /\ worker[w] = Idle
    /\ ev \in outbox
    /\ Claimable(ev)
    /\ status' = [status EXCEPT ![ev.exec] = "running"]
    /\ holder' = [holder EXCEPT ![ev.exec] = w]
    /\ lease' = [lease EXCEPT ![ev.exec] = "live"]
    /\ dispatched' = dispatched \cup {ev}
    /\ worker' = [worker EXCEPT ![w] = [phase |-> "claimed", exec |-> ev.exec, event |-> ev]]
    /\ UNCHANGED <<error, overdue, progressVars, wait, call, sealed, outbox>>

-----------------------------------------------------------------------------
\* The first lines of advance: the event is unprocessed and the claim is current.
Valid(w) ==
    LET e == worker[w].exec
    IN  worker[w].event \in outbox /\ status[e] = "running" /\ holder[e] = w

\* advance returns at once for a processed event or a stale claim.
AdvanceStale(w) ==
    /\ worker[w].phase = "claimed"
    /\ ~ RowLocked(worker[w].exec)
    /\ ~ EventLocked(worker[w].event)
    /\ ~ Valid(w)
    /\ worker' = [worker EXCEPT ![w] = Idle]
    /\ UNCHANGED <<status, error, claimVars, overdue, progressVars, wait, call, sealed,
                   outbox, dispatched>>

\* The status settle_parent_subworkflow_call gives the call of an ended child.
SettledAs(how) == IF how \in {"completed", "cancelled"} THEN how ELSE "failed"

\* The rows and events of an execution that ends: its pending wait and calls are
\* closed, their children told to stop, and a pending call it serves is settled,
\* which replaces the parent's timeout by a resume.
ClosedWait(e, lapsed) ==
    IF wait[e].status = "pending"
    THEN LET how == IF lapsed THEN "expired" ELSE "cancelled"
         IN  [wait[e] EXCEPT !.status = how, !.resolution = how]
    ELSE wait[e]

ClosedCalls(e, how, lapsed) ==
    [c \in Execution |->
        IF c \in PendingCalls(e)
        THEN [call[c] EXCEPT !.status = IF lapsed THEN "timed_out" ELSE "cancelled"]
        ELSE IF c = e /\ call[e].status = "pending"
        THEN [call[e] EXCEPT !.status = SettledAs(how)]
        ELSE call[c]]

\* Mutants: the parent is not resumed; its timeout event stays.
SettledSilently(e, events) == events \ {CallEvent(call[e].parent, "timeout", e)}
TimeoutLeftBehind(e, events) ==
    IF call[e].status = "pending"
    THEN events \cup {CallEvent(call[e].parent, "settled", e)}
    ELSE events

SettlementEvents(e, events) ==
    IF call[e].status = "pending"
    THEN (events \ {CallEvent(call[e].parent, "timeout", e)})
            \cup {CallEvent(call[e].parent, "settled", e)}
    ELSE events

\* _fail, _cancel_claimed_execution and the end of advance.
Finish(w, how, code, lapsed) ==
    LET e == worker[w].exec
    IN  /\ status' = [status EXCEPT ![e] = how]
        /\ error' = [error EXCEPT ![e] = code]
        /\ holder' = [holder EXCEPT ![e] = NoOne]
        /\ lease' = [lease EXCEPT ![e] = "none"]
        /\ wait' = [wait EXCEPT ![e] = ClosedWait(e, lapsed)]
        /\ call' = ClosedCalls(e, how, lapsed)
        /\ outbox' = SettlementEvents(e, outbox \ {worker[w].event})
                        \cup {StopEvent(c) : c \in PendingCalls(e)}
        /\ sealed' = [sealed EXCEPT ![e] = TRUE]
        /\ worker' = [worker EXCEPT ![w] = Idle]
        /\ dispatched' = dispatched \cap outbox'
        /\ UNCHANGED overdue

\* advance of a child reads its parent's call, and cancels the child when the
\* parent no longer waits for it.
BeginAdvance(w) ==
    LET e == worker[w].exec
    IN  /\ worker[w].phase = "claimed"
        /\ Valid(w)
        /\ IsChild(e)
        /\ ~ RowLocked(e)
        /\ \/ /\ call[e].status \in {"cancelled", "timed_out"}
              /\ Finish(w, "cancelled", "parent_subworkflow_cancelled", FALSE)
              /\ UNCHANGED progressVars
           \/ /\ call[e].status = "pending"
              /\ worker' = [worker EXCEPT ![w].phase = "advancing"]
              /\ UNCHANGED <<status, error, claimVars, overdue, progressVars, wait, call,
                             sealed, outbox, dispatched>>

-----------------------------------------------------------------------------
\* The rest of advance, for a claim that is still valid.
Turn(w) ==
    /\ Valid(w)
    /\ worker[w].phase = IF IsChild(worker[w].exec) THEN "advancing" ELSE "claimed"

\* A transaction that ends a child settles the call as it was read.  It waits for
\* the lock on the timeout event, and the trigger aborts it if the call is settled.
RollBack(w) ==
    /\ worker' = [worker EXCEPT ![w] = Idle]
    /\ UNCHANGED <<status, error, claimVars, overdue, progressVars, wait, call, sealed,
                   outbox, dispatched>>

\* Mutant: no trigger guards the settled call.
NeverRefused(e) == FALSE

SettlementRefused(e) == IsChild(e) /\ call[e].status # "pending"
SettlementBlocked(e) ==
    call[e].status = "pending" /\ EventLocked(CallEvent(call[e].parent, "timeout", e))

Fail(w, code, lapsed) ==
    LET e == worker[w].exec
    IN  \/ SettlementRefused(e) /\ RollBack(w)
        \/ /\ ~ SettlementRefused(e)
           /\ ~ SettlementBlocked(e)
           /\ Finish(w, "failed", code, lapsed)
           /\ UNCHANGED progressVars

ReadyNodes(e) == Ready(current[e], Completed(path[e]))
WakesWait(ev) == ev.kind \in {"wake", "resume"}
WakesCall(ev) == ev.kind \in {"timeout", "settled"}

\* A wake names a wait or a call that is not at the current step.
Misdirected(e, ev) ==
    \/ WakesWait(ev) /\ (ev.id # StepCount(e) \/ wait[e].node \notin ReadyNodes(e))
    \/ WakesCall(ev) /\ (call[ev.id].seq # StepCount(e) \/ call[ev.id].node \notin ReadyNodes(e))

\* Mutant: steps are not limited.
NoStepLimit(e, ev) ==
    IF overdue[e] THEN "workflow_deadline_exceeded"
    ELSE IF ReadyNodes(e) = {} THEN "workflow_no_ready_node"
    ELSE IF Misdirected(e, ev) THEN "workflow_wake_mismatch"
    ELSE "none"

Refusal(e, ev) ==
    IF overdue[e] THEN "workflow_deadline_exceeded"
    ELSE IF StepCount(e) >= MaxSteps THEN "workflow_step_limit_exceeded"
    ELSE IF ReadyNodes(e) = {} THEN "workflow_no_ready_node"
    ELSE IF Misdirected(e, ev) THEN "workflow_wake_mismatch"
    ELSE "none"

NodeAt(e, ev, n) ==
    IF WakesWait(ev) THEN n = wait[e].node
    ELSE IF WakesCall(ev) THEN n = call[ev.id].node
    ELSE First(ReadyNodes(e), n)

AdvanceRefused(w) ==
    LET code == Refusal(worker[w].exec, worker[w].event)
    IN  Turn(w) /\ code # "none" /\ Fail(w, code, FALSE)

\* The node w's claim leads to, once nothing refuses it.
AtNode(w, n) ==
    /\ Turn(w)
    /\ Refusal(worker[w].exec, worker[w].event) = "none"
    /\ NodeAt(worker[w].exec, worker[w].event, n)

\* The policy of the node is evaluated again at every wake.
PolicyDenies(w) == \E n \in Node : AtNode(w, n) /\ Fail(w, "policy_denied", FALSE)

\* The end of create_workflow_wait and create_subworkflow_call: the execution is
\* parked, its claim released, and the timeout event takes the claimed one's place.
Park(w, children, events) ==
    LET e == worker[w].exec
    IN  /\ status' = [x \in Execution |->
                        IF x = e THEN "waiting" ELSE IF x \in children THEN "queued" ELSE status[x]]
        /\ holder' = [holder EXCEPT ![e] = NoOne]
        /\ lease' = [lease EXCEPT ![e] = "none"]
        /\ outbox' = (outbox \ {worker[w].event}) \cup events
        /\ dispatched' = dispatched \ {worker[w].event}
        /\ worker' = [worker EXCEPT ![w] = Idle]
        /\ UNCHANGED <<error, overdue, sealed>>

WaitHere(e) == wait[e].status # "none" /\ wait[e].seq = StepCount(e)
CallsHere(e) == {c \in Execution : call[c].parent = e /\ call[c].seq = StepCount(e)}

\* create_workflow_wait; a timer that would outlive the deadline fails instead.
CreateWait(w) ==
    LET e == worker[w].exec
    IN  \E n \in Node :
        /\ AtNode(w, n)
        /\ TypeOf[n] \in WaitTypes
        /\ ~ WaitHere(e)
        /\ \/ TypeOf[n] = "timer" /\ Fail(w, "workflow_wait_exceeds_deadline", FALSE)
           \/ /\ wait' = [wait EXCEPT ![e] = [node |-> n, seq |-> StepCount(e),
                            status |-> "pending", resolution |-> "none", due |-> FALSE]]
              /\ Park(w, {}, {WaitEvent(e, "wake", StepCount(e))})
              /\ UNCHANGED <<progressVars, call>>

\* create_subworkflow_call, with the child it starts; the referenced deployment
\* may be unavailable.
CreateSubworkflow(w) ==
    LET e == worker[w].exec
    IN  \E n \in Node :
        /\ AtNode(w, n)
        /\ TypeOf[n] = "subworkflow"
        /\ CallsHere(e) = {}
        /\ \/ Fail(w, "invalid_transition", FALSE)
           \/ \E c \in Execution :
                /\ CreateExecution(c, Beginning(Referenced[n]))
                /\ call' = [call EXCEPT ![c] = [parent |-> e, node |-> n, seq |-> StepCount(e),
                                status |-> "pending", due |-> FALSE]]
                /\ Park(w, {c}, {CallEvent(e, "timeout", c), ReadyEvent(c, 0)})
                /\ UNCHANGED wait

\* A wait or a call that is still pending when its timeout wakes the execution.
WaitExpires(w) ==
    LET e == worker[w].exec
    IN  \E n \in Node :
        /\ AtNode(w, n)
        /\ TypeOf[n] \in WaitTypes \ {"timer"}
        /\ WaitHere(e)
        /\ wait[e].status = "pending"
        /\ wait[e].due
        /\ Fail(w, "workflow_wait_expired", TRUE)

CallTimesOut(w) ==
    \E n \in Node, c \in CallsHere(worker[w].exec) :
        /\ AtNode(w, n)
        /\ TypeOf[n] = "subworkflow"
        /\ call[c].status = "pending"
        /\ call[c].due
        /\ Fail(w, "workflow_subworkflow_timed_out", TRUE)

CallEnded(w) ==
    \E n \in Node, c \in CallsHere(worker[w].exec) :
        /\ AtNode(w, n)
        /\ TypeOf[n] = "subworkflow"
        /\ call[c].status \in {"failed", "cancelled", "timed_out"}
        /\ Fail(w, "workflow_subworkflow_ended", FALSE)

\* Mutant: a call that has ended in any way lets its node complete.
FulfilledByAnyEnd(e, n) ==
    CASE TypeOf[n] = "timer" -> WaitHere(e) /\ wait[e].status = "pending" /\ wait[e].due
      [] TypeOf[n] \in WaitTypes \ {"timer"} -> WaitHere(e) /\ wait[e].status = "resolved"
      [] TypeOf[n] = "subworkflow" -> \E c \in CallsHere(e) : call[c].status # "pending"
      [] OTHER -> TRUE

\* What lets a node complete: a wait that is resolved or a timer that is due, a
\* call whose child completed.
Fulfilled(e, n) ==
    CASE TypeOf[n] = "timer" -> WaitHere(e) /\ wait[e].status = "pending" /\ wait[e].due
      [] TypeOf[n] \in WaitTypes \ {"timer"} -> WaitHere(e) /\ wait[e].status = "resolved"
      [] TypeOf[n] = "subworkflow" ->
            \E c \in CallsHere(e) : call[c].status = "completed" /\ status[c] = "completed"
      [] OTHER -> TRUE

ResolvedWait(e, n) ==
    IF TypeOf[n] = "timer"
    THEN [wait[e] EXCEPT !.status = "resolved", !.resolution = "elapsed"]
    ELSE wait[e]

\* A node of an unfinished execution is done: the execution is queued again.
Requeue(w, step) ==
    LET e == worker[w].exec
    IN  /\ status' = [status EXCEPT ![e] = "queued"]
        /\ holder' = [holder EXCEPT ![e] = NoOne]
        /\ lease' = [lease EXCEPT ![e] = "none"]
        /\ outbox' = (outbox \ {worker[w].event}) \cup {ReadyEvent(e, step)}
        /\ dispatched' = dispatched \ {worker[w].event}
        /\ worker' = [worker EXCEPT ![w] = Idle]
        /\ UNCHANGED <<error, overdue, call, sealed>>

\* The node's successors become current, the path grows, a checkpoint is written;
\* an execution without current nodes is completed.
CompleteNode(w) ==
    LET e == worker[w].exec
    IN  \E n \in Node : \E b \in BranchesTaken(n, loops[e][n]) :
        LET now == (current[e] \ {n}) \cup NextNodes(n, b)
            walked == Append(path[e], n)
            counts == [loops[e] EXCEPT ![n] = LoopCount(n, b, loops[e][n])]
        IN  /\ AtNode(w, n)
            /\ Fulfilled(e, n)
            /\ TypeOf[n] = "approval" => b = wait[e].resolution
            /\ \/ now = {} /\ SettlementRefused(e) /\ RollBack(w)
               \/ /\ current' = [current EXCEPT ![e] = now]
                  /\ path' = [path EXCEPT ![e] = walked]
                  /\ loops' = [loops EXCEPT ![e] = counts]
                  /\ checkpoints' = [checkpoints EXCEPT ![e] =
                                        @ \cup {Checkpoint(now, walked, counts)}]
                  /\ \/ /\ now = {}
                        /\ ~ SettlementRefused(e)
                        /\ ~ SettlementBlocked(e)
                        /\ Finish(w, "completed", "none", FALSE)
                     \/ /\ now # {}
                        /\ wait' = [wait EXCEPT ![e] = ResolvedWait(e, n)]
                        /\ Requeue(w, Len(walked))

Advance(w) ==
    \/ AdvanceStale(w)
    \/ BeginAdvance(w)
    \/ AdvanceRefused(w)
    \/ PolicyDenies(w)
    \/ CreateWait(w)
    \/ CreateSubworkflow(w)
    \/ WaitExpires(w)
    \/ CallTimesOut(w)
    \/ CallEnded(w)
    \/ CompleteNode(w)

-----------------------------------------------------------------------------
\* resolve_workflow_wait: an approval, an event or an answer arrives in time.
Resolutions(n) ==
    IF TypeOf[n] = "approval" THEN {"approved", "denied"} ELSE {"received"}

ResolveWait(e) ==
    /\ wait[e].status = "pending"
    /\ TypeOf[wait[e].node] # "timer"
    /\ ~ wait[e].due
    /\ ~ EventLocked(WaitEvent(e, "wake", wait[e].seq))
    /\ status[e] = "waiting"
    /\ wait[e].node \in current[e]
    /\ wait[e].seq = StepCount(e)
    /\ \E r \in Resolutions(wait[e].node) :
          wait' = [wait EXCEPT ![e].status = "resolved", ![e].resolution = r]
    /\ outbox' = (outbox \ {WaitEvent(e, "wake", wait[e].seq)})
                    \cup {WaitEvent(e, "resume", wait[e].seq)}
    /\ dispatched' = dispatched \ {WaitEvent(e, "wake", wait[e].seq)}
    /\ UNCHANGED <<status, error, claimVars, overdue, progressVars, call, sealed, worker>>

\* cancel_workflow_run: only an idle execution; a worker seals the evidence later.
CancelWorkflow(e) ==
    /\ status[e] \in {"queued", "waiting"}
    /\ ~ RowLocked(e)
    /\ status' = [status EXCEPT ![e] = "cancelled"]
    /\ error' = [error EXCEPT ![e] = "workflow_cancelled"]
    /\ wait' = [wait EXCEPT ![e] = ClosedWait(e, FALSE)]
    /\ call' = [c \in Execution |->
                    IF c \in PendingCalls(e) THEN [call[c] EXCEPT !.status = "cancelled"] ELSE call[c]]
    /\ outbox' = outbox \cup {StopEvent(c) : c \in PendingCalls(e)} \cup {FinalizeEvent(e)}
    /\ UNCHANGED <<claimVars, overdue, progressVars, sealed, dispatched, worker>>

\* finalize_cancelled_once reads the call under its lock.
FinalizeCancelled(e) ==
    /\ FinalizeEvent(e) \in outbox
    /\ status[e] = "cancelled"
    /\ ~ SettlementBlocked(e)
    /\ call' = IF call[e].status = "pending"
               THEN [call EXCEPT ![e].status = SettledAs("cancelled")]
               ELSE call
    /\ outbox' = SettlementEvents(e, outbox \ {FinalizeEvent(e)})
    /\ dispatched' = dispatched \cap outbox'
    /\ sealed' = [sealed EXCEPT ![e] = TRUE]
    /\ UNCHANGED <<status, error, claimVars, overdue, progressVars, wait, worker>>

\* A worker dies, or an exception reaches its loop: its transaction is rolled back.
WorkerFails(w) == worker[w] # Idle /\ RollBack(w)

-----------------------------------------------------------------------------
\* The database clock passes a column.  No wait or call outlives the deadline.
LeaseExpires(e) ==
    /\ lease[e] = "live"
    /\ lease' = [lease EXCEPT ![e] = "expired"]
    /\ UNCHANGED <<status, error, holder, overdue, progressVars, wait, call, sealed,
                   outbox, dispatched, worker>>

WaitDue(e) ==
    /\ wait[e].status = "pending"
    /\ ~ wait[e].due
    /\ wait' = [wait EXCEPT ![e].due = TRUE]
    /\ UNCHANGED <<status, error, claimVars, overdue, progressVars, call, sealed,
                   outbox, dispatched, worker>>

CallDue(c) ==
    /\ call[c].status = "pending"
    /\ ~ call[c].due
    /\ call' = [call EXCEPT ![c].due = TRUE]
    /\ UNCHANGED <<status, error, claimVars, overdue, progressVars, wait, sealed,
                   outbox, dispatched, worker>>

DeadlinePasses(e) ==
    /\ status[e] \in Live
    /\ ~ overdue[e]
    /\ overdue' = [overdue EXCEPT ![e] = TRUE]
    /\ wait' = [wait EXCEPT ![e].due = @ \/ wait[e].status = "pending"]
    /\ call' = [c \in Execution |-> [call[c] EXCEPT !.due = @ \/ c \in PendingCalls(e)]]
    /\ UNCHANGED <<status, error, claimVars, progressVars, sealed, outbox, dispatched, worker>>

-----------------------------------------------------------------------------
Next ==
    \/ \E e \in Execution :
          \/ \E entry \in Entry : StartWorkflow(e, entry)
          \/ \E origin \in Execution : ForkWorkflow(e, origin)
          \/ ResolveWait(e)
          \/ CancelWorkflow(e)
          \/ FinalizeCancelled(e)
          \/ LeaseExpires(e)
          \/ WaitDue(e)
          \/ CallDue(e)
          \/ DeadlinePasses(e)
    \/ \E w \in Worker :
          \/ \E ev \in outbox : ClaimReady(w, ev)
          \/ worker[w] # Idle /\ Advance(w)
          \/ WorkerFails(w)

Spec == Init /\ [][Next]_vars

Claims(e) == \E w \in Worker, ev \in outbox : ev.exec = e /\ ClaimReady(w, ev)
Begins(e) ==
    \E w \in Worker : worker[w] # Idle /\ worker[w].exec = e /\ BeginAdvance(w)
Returns(w) == worker[w] # Idle /\ AdvanceStale(w)
Advances(e) ==
    \E w \in Worker :
        /\ worker[w] # Idle
        /\ worker[w].exec = e
        /\ \/ AdvanceRefused(w) \/ PolicyDenies(w) \/ CreateWait(w) \/ CreateSubworkflow(w)
           \/ WaitExpires(w) \/ CallTimesOut(w) \/ CallEnded(w) \/ CompleteNode(w)

\* Workers poll for ever and take the oldest event first; a worker that dies is
\* restarted and does not die in every advance; clocks run.  Nobody has to start,
\* answer, cancel or fork anything.
Fairness ==
    /\ \A e \in Execution :
          /\ SF_vars(Claims(e))
          /\ SF_vars(Begins(e))
          /\ SF_vars(Advances(e))
          /\ WF_vars(FinalizeCancelled(e))
          /\ WF_vars(LeaseExpires(e))
          /\ WF_vars(DeadlinePasses(e))
    /\ \A w \in Worker : WF_vars(Returns(w))

FairSpec == Spec /\ Fairness

-----------------------------------------------------------------------------
Event == [exec : Execution, kind : {"ready"}, id : Nat]
    \cup [exec : Execution, kind : {"wake", "resume"}, id : Nat]
    \cup [exec : Execution, kind : {"timeout", "settled", "stop", "finalize"}, id : Execution]

Errors == {"none", "workflow_deadline_exceeded", "workflow_step_limit_exceeded",
    "workflow_no_ready_node", "workflow_wake_mismatch", "policy_denied",
    "workflow_wait_exceeds_deadline", "invalid_transition", "workflow_wait_expired",
    "workflow_subworkflow_timed_out", "workflow_subworkflow_ended",
    "parent_subworkflow_cancelled", "workflow_cancelled"}

CheckpointRow == [current : SUBSET Node, path : Seq(Node), loops : [Node -> Nat]]
WaitRow == [node : Node \cup {0}, seq : Nat,
    status : {"none", "pending", "resolved", "expired", "cancelled"},
    resolution : {"none", "approved", "denied", "received", "elapsed", "expired", "cancelled"},
    due : BOOLEAN]
CallRow == [parent : Execution \cup {NoOne}, node : Node \cup {0}, seq : Nat,
    status : {"none", "pending", "completed", "failed", "cancelled", "timed_out"},
    due : BOOLEAN]
Claim == [phase : {"claimed", "advancing"}, exec : Execution, event : Event]

\* Types of the rows, the outbox and the workers' memory.
TypeOK ==
    /\ status \in [Execution -> Live \cup Terminal \cup {"none"}]
    /\ error \in [Execution -> Errors]
    /\ holder \in [Execution -> Worker \cup {NoOne}]
    /\ lease \in [Execution -> {"none", "live", "expired"}]
    /\ overdue \in [Execution -> BOOLEAN]
    /\ current \in [Execution -> SUBSET Node]
    /\ path \in [Execution -> Seq(Node)]
    /\ loops \in [Execution -> [Node -> Nat]]
    /\ checkpoints \in [Execution -> SUBSET CheckpointRow]
    /\ wait \in [Execution -> WaitRow]
    /\ call \in [Execution -> CallRow]
    /\ sealed \in [Execution -> BOOLEAN]
    /\ outbox \subseteq Event
    /\ dispatched \subseteq outbox
    /\ worker \in [Worker -> {Idle} \cup Claim]

\* No execution is stranded: as long as one is queued or waiting, an event that no
\* worker has taken can still wake it; a running one has an unprocessed event to be
\* recovered by; a cancelled one is sealed or has its finalize event (claim_ready).
NothingStranded ==
    \A e \in Execution :
        LET events == {ev \in outbox : ev.exec = e /\ ev.kind # "finalize"}
        IN  /\ status[e] \in {"queued", "waiting"} => events \ dispatched # {}
            /\ status[e] = "running" => events # {}
            /\ status[e] = "cancelled" => sealed[e] \/ FinalizeEvent(e) \in outbox

\* Every unprocessed event of a live execution finds the rows as it expects them:
\* its wait or call is at the current step, a timeout's is still open, a resume's is
\* closed, and a stop's call was given up.  So no late event fails a run (advance,
\* workflow_wait_wake_mismatch) or wakes it for nothing.
EventsMatchRows ==
    \A ev \in outbox : status[ev.exec] \in Live =>
        CASE ev.kind = "ready" -> ev.id = StepCount(ev.exec)
          [] ev.kind = "wake" -> ~ Misdirected(ev.exec, ev) /\ wait[ev.exec].status = "pending"
          [] ev.kind = "resume" -> ~ Misdirected(ev.exec, ev) /\ wait[ev.exec].status = "resolved"
          [] ev.kind = "timeout" -> ~ Misdirected(ev.exec, ev) /\ call[ev.id].status = "pending"
          [] ev.kind = "settled" ->
                /\ ~ Misdirected(ev.exec, ev)
                /\ call[ev.id].status \in {"completed", "failed", "cancelled"}
          [] ev.kind = "stop" -> call[ev.exec].status \in {"cancelled", "timed_out"}
          [] OTHER -> FALSE

\* A call and its child agree, although the child's worker reads the call before it
\* is locked: the call says completed or failed exactly when the child is, and while
\* it is pending the parent lives and the child has not ended unnoticed
\* (settle_parent_subworkflow_call and the single-use trigger).
CallsTellTheTruth ==
    \A c \in Execution : IsChild(c) =>
        /\ call[c].status = "completed" <=> status[c] = "completed"
        /\ call[c].status = "failed" <=> status[c] = "failed"
        /\ call[c].status = "pending" =>
              /\ status[call[c].parent] \in Live
              /\ status[c] \in Live \/ FinalizeEvent(c) \in outbox

\* An execution goes past a subworkflow only with a completed child, and past a wait
\* only with its resolution; what it is still waiting for is at the current step.
NothingSkipped ==
    /\ \A c \in Execution : IsChild(c) =>
          LET p == call[c].parent
          IN  /\ call[c].seq < StepCount(p) => call[c].status = "completed"
              /\ call[c].status = "pending" => call[c].seq = StepCount(p)
    /\ \A e \in Execution : wait[e].status # "none" =>
          /\ wait[e].seq < StepCount(e) => wait[e].status = "resolved"
          /\ wait[e].status = "pending" => wait[e].seq = StepCount(e) /\ status[e] \in Live

\* The signed evidence stays true: once an execution is sealed, neither its status
\* and path nor the waits and calls the bundle lists ever change again, however
\* late its children, its workers or its callers are (_seal_workflow_evidence).
EvidenceStaysTrue ==
    [][\A e \in Execution : sealed[e] =>
          /\ status'[e] = status[e]
          /\ path'[e] = path[e]
          /\ wait'[e] = wait[e]
          /\ \A c \in Execution : call[c].parent = e => call'[c] = call[c]]_vars

\* A join runs only after every predecessor has run since the join's last run
\* (ARCHITECTURE.md: branches "join only after every predecessor has completed").
JoinsWaitForAll ==
    \A e \in Execution : \A i \in DOMAIN path[e] :
        TypeOf[path[e][i]] = "join" =>
            \A p \in Parents(path[e][i]) : \E j \in 1..(i - 1) :
                /\ path[e][j] = p
                /\ \A k \in j..(i - 1) : path[e][k] # path[e][i]

-----------------------------------------------------------------------------
\* The one event a live execution is waiting for: the step's own, the timeout of its
\* open wait or call, or the wake that replaced that timeout.
Awaits(e, ev) ==
    \/ ~ WaitHere(e) /\ CallsHere(e) = {} /\ ev = ReadyEvent(e, StepCount(e))
    \/ WaitHere(e) /\ wait[e].status = "pending" /\ ev = WaitEvent(e, "wake", StepCount(e))
    \/ WaitHere(e) /\ wait[e].status = "resolved" /\ ev = WaitEvent(e, "resume", StepCount(e))
    \/ \E c \in CallsHere(e) :
          \/ call[c].status = "pending" /\ ev = CallEvent(e, "timeout", c)
          \/ /\ call[c].status \in {"completed", "failed", "cancelled"}
             /\ ev = CallEvent(e, "settled", c)

\* The outbox rows of an execution fit its state.
EventsFit(e) ==
    /\ status[e] \in Live =>
          \E ev \in outbox : Awaits(e, ev) /\ (ev \in dispatched => status[e] = "running")
    /\ status[e] = "cancelled" => sealed[e] \/ FinalizeEvent(e) \in outbox
    /\ \A ev \in outbox : ev.exec = e =>
          /\ status[e] # "none"
          /\ status[e] \in Live => Awaits(e, ev) \/ ev = StopEvent(e)
          /\ ev.kind = "stop" => call[e].status \in {"cancelled", "timed_out"}
          /\ ev.kind = "finalize" => status[e] = "cancelled"

CallFits(c) ==
    LET p == call[c].parent
    IN  IF ~ IsChild(c) THEN p = NoOne
        ELSE /\ p \in Execution \ {c}
             /\ status[c] # "none"
             /\ status[p] # "none"
             /\ call[c].status = "completed" <=> status[c] = "completed"
             /\ call[c].status = "failed" <=> status[c] = "failed"
             /\ call[c].seq <= StepCount(p)
             /\ call[c].seq < StepCount(p) => call[c].status = "completed"
             /\ call[c].status = "pending" =>
                   /\ status[p] \in Live
                   /\ status[c] \in Live \/ FinalizeEvent(c) \in outbox
             /\ status[p] \in Live /\ call[c].seq = StepCount(p) =>
                   /\ call[c].status # "timed_out"
                   /\ TypeOf[call[c].node] = "subworkflow"
                   /\ First(ReadyNodes(p), call[c].node)

\* A step of an execution makes at most one call.
OneCallAStep ==
    \A c, d \in Execution :
        IsChild(c) /\ call[c].parent = call[d].parent /\ call[c].seq = call[d].seq => c = d

WaitFits(e) ==
    wait[e].status # "none" =>
        /\ status[e] # "none"
        /\ wait[e].seq <= StepCount(e)
        /\ wait[e].seq < StepCount(e) => wait[e].status = "resolved"
        /\ wait[e].status = "pending" => status[e] \in Live
        /\ status[e] \in Live /\ wait[e].seq = StepCount(e) =>
              /\ CallsHere(e) = {}
              /\ wait[e].status \in {"pending", "resolved"}
              /\ TypeOf[wait[e].node] \in WaitTypes
              /\ First(ReadyNodes(e), wait[e].node)

\* A worker between the two halves of advance still has its claim.
ClaimFits(w) ==
    worker[w] # Idle =>
        /\ worker[w].event.exec = worker[w].exec
        /\ Advancing(w) => Valid(w) /\ IsChild(worker[w].exec) /\ worker[w].event.kind # "stop"

\* The rows, the outbox and the workers' memory always fit together: a live execution
\* awaits exactly one event, named by its open wait or call; calls and children agree;
\* an unfinished advance keeps its claim; and only ended executions are sealed.
EngineInv ==
    /\ TypeOK
    /\ \A e \in Execution : EventsFit(e) /\ CallFits(e) /\ WaitFits(e)
    /\ \A e \in Execution : sealed[e] => status[e] \in Terminal
    /\ OneCallAStep
    /\ \A w \in Worker : ClaimFits(w)

\* Every started run ends with signed evidence, if callers never answer at all.
EveryRunEnds == \A e \in Execution : status[e] # "none" ~> sealed[e]

\* A child whose parent gave it up is cancelled, although it is woken by an event
\* and may be running at that moment.
OrphansStop ==
    \A c \in Execution :
        call[c].status \in {"cancelled", "timed_out"} ~> status[c] = "cancelled"
=============================================================================
