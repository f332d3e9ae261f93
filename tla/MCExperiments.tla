--------------------------- MODULE MCExperiments ---------------------------
(* An instance of Experiments for TLC.                                      *)
EXTENDS Experiments

N(type, guarded) == [type |-> type, guarded |-> guarded, refers |-> NoVersion]
Sub(v) == [type |-> "subworkflow", guarded |-> FALSE, refers |-> v]

\* Two versions of one workflow, the second with a tool, and two parents, of which the
\* second refers to the tool.
MCVersion == {"pure", "tool", "parent", "nested"}
MCWorkflow == {"main", "other"}
MCWorkflowOf == [v \in Version |-> IF v \in {"pure", "tool"} THEN "main" ELSE "other"]
MCDefinition ==
    [v \in Version |->
        CASE v = "pure" -> <<N("approval", TRUE)>>
          [] v = "tool" -> <<N("approval", FALSE), N("tool", TRUE)>>
          [] v = "parent" -> <<Sub("pure")>>
          [] v = "nested" -> <<Sub("tool")>>]

\* The second evaluation is compared with the first.
CONSTANTS v1, v2
MCBaselineOf == [ev \in Evaluation |-> IF ev = v2 THEN v1 ELSE None]

MCScenario == {1, 2}
MCDataset ==
    [s \in Scenario |->
        IF s = 1 THEN [output |-> <<"approved">>, path |-> <<1>>, required |-> {1},
                       forbidden |-> {}, maximum |-> 2]
        ELSE [output |-> <<"denied">>, path |-> <<>>, required |-> {}, forbidden |-> {2},
              maximum |-> 1]]

R(action, effect) ==
    [action |-> action, environments |-> {"test"}, risks |-> {"low"}, maximum |-> NoMaximum,
     effect |-> effect]
MCContext == [action |-> "node", environment |-> "test", risk |-> "low", amount |-> 0]
Allowing == [enabled |-> TRUE, rules |-> <<R("other", "deny"), R("node", "allow"), R("node", "deny")>>]
Denying == [enabled |-> TRUE, rules |-> <<R("node", "deny"), R("node", "allow")>>]
MCInitialBundle == [status |-> "active", document |-> Allowing, expired |-> FALSE]
MCBundles ==
    {MCInitialBundle,
     [status |-> "active", document |-> Denying, expired |-> FALSE],
     [status |-> "active", document |-> Allowing, expired |-> TRUE]}
=============================================================================
