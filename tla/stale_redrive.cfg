CONSTANTS
    Action <- OneAction
    Budget <- MCBudget
    Resource <- MCResource
    Estimate <- MCEstimate
    Releasable <- MCReleasable
    ResourceOf <- MCResourceOf
    Scope <- MCScope
    Context <- MCContext
    Limit <- AmpleLimit
    Worker = {w1}
    Operator = {o1, o2}
    MaxReconciliation = 1
    MaxRedrives = 1
SPECIFICATION Spec
INVARIANTS
    RedrivesBounded
CHECK_DEADLOCK FALSE
