------------------------- MODULE WorkflowRefinement -------------------------
(***************************************************************************)
(* The workflow engine implements the sequential runs of WorkflowRuns.  An *)
(* execution is active while its status is a live one.                     *)
(***************************************************************************)
EXTENDS WorkflowEngine

Runs == INSTANCE WorkflowRuns
            WITH phase <- [e \in Execution |-> IF status[e] \in Live THEN "active" ELSE status[e]]

\* Every execution is a sequential run of its definition, in the order of node ids,
\* whatever claims, crashes, timeouts and cancellations interleave.
SequentialRuns == Runs!Spec
=============================================================================
