------------------------- MODULE MCGovernedActions -------------------------
(* Instances of GovernedActions for TLC: the currency budget belongs to the *)
(* organization, the concurrency budget to the project, and a second        *)
(* currency budget to the agent that only the second action runs as.        *)
EXTENDS GovernedActions, TLC

OneAction == {"first"}
TwoActions == {"first", "second"}

MCBudget == {"org_usd", "project_runs", "agent_usd"}
MCResource == {"currency:USD", "concurrent_runs"}
MCEstimate == [r \in MCResource |-> IF r = "currency:USD" THEN 2 ELSE 1]
MCReleasable == {"concurrent_runs"}
MCResourceOf ==
    [b \in MCBudget |-> IF b = "project_runs" THEN "concurrent_runs" ELSE "currency:USD"]
MCScope ==
    [b \in MCBudget |->
        CASE b = "org_usd" -> [type |-> "organization", target |-> "any"]
          [] b = "project_runs" -> [type |-> "project", target |-> "project"]
          [] b = "agent_usd" -> [type |-> "agent", target |-> "agent_of_second"]]
MCContext ==
    [a \in TwoActions |->
        [project |-> "project", environment |-> "development",
         agent |-> IF a = "second" THEN "agent_of_second" ELSE "agent_of_first",
         user |-> "user", route |-> "none"]]

\* Room for both actions, and for one at a time.
AmpleLimit == [b \in MCBudget |-> 4]
TightLimit == [b \in MCBudget |-> IF b = "project_runs" THEN 1 ELSE 4]

\* Workers are interchangeable in every safety property.
Symmetry == Permutations(Worker)
=============================================================================
