------------------------ MODULE MCWorkflowToolCalls ------------------------
(* Instances of WorkflowToolCalls for TLC, with the budgets of              *)
(* MCGovernedActions.                                                       *)
EXTENDS WorkflowToolCalls, MCGovernedActions
=============================================================================
