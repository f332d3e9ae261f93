-------------------------- MODULE MCWorkflowEngine --------------------------
(* Instances of WorkflowEngine for TLC.                                     *)
EXTENDS WorkflowRefinement, TLC

E(source, branch, target) == [source |-> source, target |-> target, branch |-> branch]
D(source, target) == E(source, "default", target)
NoLoop == [n \in Node |-> 0]
NoReference == [n \in Node |-> 0]

\* Three levels of subworkflows; the last one has an approval.
NestedNode == 1..9
NestedEntry == {1, 4, 7}
NestedType == <<"input", "subworkflow", "output", "input", "subworkflow", "output",
                "input", "approval", "output">>
NestedEdge == {D(1, 2), D(2, 3), D(4, 5), D(5, 6),
               D(7, 8), E(8, "approved", 9), E(8, "denied", 9)}
NestedReference == [n \in Node |-> CASE n = 2 -> 4 [] n = 5 -> 7 [] OTHER -> 0]

\* A parent of one subworkflow, and a child that waits for an event.
PairNode == 1..6
PairEntry == {1, 4}
PairType == <<"input", "subworkflow", "output", "input", "event", "output">>
PairEdge == {D(1, 2), D(2, 3), D(4, 5), D(5, 6)}
PairReference == [n \in Node |-> IF n = 2 THEN 4 ELSE 0]

\* A fan-out of two conditions and their join; a loop around a timer, one of whose
\* two ways in exceeds the step limit; and a parent whose child has an approval.
MixedNode == 1..17
MixedEntry == {1, 7, 12, 15}
MixedType == <<"input", "parallel", "condition", "join", "condition", "output",
               "input", "condition", "timer", "bounded_loop", "output",
               "input", "subworkflow", "output", "input", "approval", "output">>
MixedEdge == {D(1, 2), D(2, 3), D(2, 5), E(3, "true", 4), E(3, "false", 4),
              E(5, "true", 4), E(5, "false", 4), D(4, 6),
              D(7, 8), E(8, "true", 9), E(8, "false", 10), D(9, 10),
              E(10, "continue", 9), E(10, "exit", 11),
              D(12, 13), D(13, 14), D(15, 16), E(16, "approved", 17), E(16, "denied", 17)}
MixedLoops == [n \in Node |-> IF n = 10 THEN 1 ELSE 0]
MixedReference == [n \in Node |-> IF n = 13 THEN 15 ELSE 0]

\* The same fan-out inside a loop: the join's id is between those of its branches.
LoopedNode == 1..7
LoopedEntry == {1}
LoopedType == <<"input", "bounded_loop", "parallel", "condition", "join", "condition", "output">>
LoopedEdge == {D(1, 2), E(2, "continue", 3), E(2, "exit", 7), D(3, 4), D(3, 6),
               E(4, "true", 5), E(4, "false", 5), E(6, "true", 5), E(6, "false", 5), D(5, 2)}
LoopedLoops == [n \in Node |-> IF n = 2 THEN 2 ELSE 0]

\* Executions and workers are interchangeable in every safety property.
Symmetry == Permutations(Worker) \cup Permutations(Execution)
=============================================================================
