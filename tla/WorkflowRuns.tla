---------------------------- MODULE WorkflowRuns ----------------------------
(***************************************************************************)
(* What the workflow engine promises: every execution is a sequential run  *)
(* of its definition.  It starts at an entry node, or as a fork of a       *)
(* checkpoint; each step completes the first ready node, in the order of   *)
(* node ids, appends it to the path and makes its successors current; the  *)
(* run completes when no node is current, and may be ended before that.    *)
(* No worker, claim, event, lease or timeout appears here.                 *)
(***************************************************************************)
EXTENDS WorkflowGraph, Sequences

CONSTANTS
    Execution,  \* executions, created or not
    MaxSteps    \* limits.max_steps of every definition

VARIABLES
    phase,       \* [Execution -> "none", "active" or how it ended]
    current,     \* [Execution -> current_nodes_json]
    path,        \* [Execution -> path_json; its length is step_count]
    loops,       \* [Execution -> loop_counts_json]
    checkpoints  \* [Execution -> its run_checkpoints rows]

runVars == <<phase, current, path, loops, checkpoints>>

Init ==
    /\ phase = [e \in Execution |-> "none"]
    /\ current = [e \in Execution |-> {}]
    /\ path = [e \in Execution |-> <<>>]
    /\ loops = [e \in Execution |-> FreshLoops]
    /\ checkpoints = [e \in Execution |-> {}]

\* An execution that begins where the checkpoint says.
Create(e, checkpoint) ==
    /\ phase[e] = "none"
    /\ phase' = [phase EXCEPT ![e] = "active"]
    /\ current' = [current EXCEPT ![e] = checkpoint.current]
    /\ path' = [path EXCEPT ![e] = checkpoint.path]
    /\ loops' = [loops EXCEPT ![e] = checkpoint.loops]
    /\ checkpoints' = [checkpoints EXCEPT ![e] = {checkpoint}]

Start(e, entry) == Create(e, Checkpoint({entry}, <<>>, FreshLoops))

Fork(e, origin) ==
    \E checkpoint \in checkpoints[origin] :
        checkpoint.current # {} /\ Create(e, checkpoint)

Step(e) ==
    \E n \in Node : \E b \in BranchesTaken(n, loops[e][n]) :
        LET now == (current[e] \ {n}) \cup NextNodes(n, b)
            walked == Append(path[e], n)
            counts == [loops[e] EXCEPT ![n] = LoopCount(n, b, loops[e][n])]
        IN  /\ phase[e] = "active"
            /\ First(Ready(current[e], Completed(path[e])), n)
            /\ Len(path[e]) < MaxSteps
            /\ current' = [current EXCEPT ![e] = now]
            /\ path' = [path EXCEPT ![e] = walked]
            /\ loops' = [loops EXCEPT ![e] = counts]
            /\ checkpoints' = [checkpoints EXCEPT ![e] = @ \cup {Checkpoint(now, walked, counts)}]
            /\ phase' = [phase EXCEPT ![e] = IF now = {} THEN "completed" ELSE "active"]

End(e) ==
    /\ phase[e] = "active"
    /\ \E how \in {"failed", "cancelled"} : phase' = [phase EXCEPT ![e] = how]
    /\ UNCHANGED <<current, path, loops, checkpoints>>

Next ==
    \E e \in Execution :
        \/ \E entry \in Entry : Start(e, entry)
        \/ \E origin \in Execution : Fork(e, origin)
        \/ Step(e)
        \/ End(e)

Spec == Init /\ [][Next]_runVars
=============================================================================
