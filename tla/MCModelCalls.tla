---------------------------- MODULE MCModelCalls ----------------------------
(* One agent node beside one governed action of the same organization: its  *)
(* currency budget has room for one of them, and the provider reports twice *)
(* what was reserved.                                                       *)
EXTENDS ModelCalls

MCCall == {"call"}
MCAction == MCCall \cup {"action"}

MCBudget == {"org_usd", "org_requests", "route_usd"}
MCResource == {"currency:USD", "requests"}
MCEstimate == [r \in MCResource |-> IF r = "currency:USD" THEN 2 ELSE 1]
MCResourceOf == [b \in MCBudget |-> IF b = "org_requests" THEN "requests" ELSE "currency:USD"]
MCScope ==
    [b \in MCBudget |->
        IF b = "route_usd" THEN [type |-> "model_route", target |-> "route"]
        ELSE [type |-> "organization", target |-> "any"]]
MCContext ==
    [a \in MCAction |->
        [project |-> "project", environment |-> "development", agent |-> "agent",
         user |-> "user", route |-> IF a = "call" THEN "route" ELSE "none"]]
MCLimit == [b \in MCBudget |-> 3]
MCUsage == [a \in MCCall |-> [r \in MCResource |-> IF r = "currency:USD" THEN 4 ELSE 1]]
=============================================================================
