CONSTANTS
    Action <- OneAction
    Budget <- MCBudget
    Resource <- MCResource
    Estimate <- MCEstimate
    Releasable <- MCReleasable
    ResourceOf <- MCResourceOf
    Scope <- MCScope
    Context <- MCContext
    Limit <- AmpleLimit
    Worker = {w1}
    Operator = {}
    MaxReconciliation = 1
    MaxRedrives = 0
SPECIFICATION Spec
INVARIANTS
    HeldUntilProviderAnswers
CHECK_DEADLOCK FALSE
