CONSTANTS
    Action <- OneAction
    Budget <- MCBudget
    Resource <- MCResource
    Estimate <- MCEstimate
    Releasable <- MCReleasable
    ResourceOf <- MCResourceOf
    Scope <- MCScope
    Context <- MCContext
    Limit <- AmpleLimit
    Worker = {w1, w2}
    Operator = {}
    MaxReconciliation = 1
    MaxRedrives = 0
SPECIFICATION FairSpec
PROPERTIES
    ClaimsAreRecovered
CHECK_DEADLOCK FALSE
