CONSTANTS
    Action <- TwoActions
    Budget <- MCBudget
    Resource <- MCResource
    Estimate <- MCEstimate
    Releasable <- MCReleasable
    ResourceOf <- MCResourceOf
    Scope <- MCScope
    Context <- MCContext
    Limit <- TightLimit
    Worker = {w1, w2}
    Operator = {}
    MaxReconciliation = 1
    MaxRedrives = 0
SYMMETRY Symmetry
SPECIFICATION Spec
INVARIANTS
    WithinLimit
    AlwaysReconcilable
    ReservationsFollowAction
PROPERTIES
    LedgerSpec
CHECK_DEADLOCK FALSE
