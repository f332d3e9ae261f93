CONSTANTS
    Action <- MCAction
    Call <- MCCall
    Budget <- MCBudget
    Resource <- MCResource
    Estimate <- MCEstimate
    Releasable = {}
    ResourceOf <- MCResourceOf
    Scope <- MCScope
    Context <- MCContext
    Limit <- MCLimit
    Worker = {w1, w2}
    Usage <- MCUsage
    MaxReconciliation = 2
SPECIFICATION FairSpec
INVARIANTS
    ExecutedAtMostOnce
    ServedIsCharged
    OverspendIsReported
    IndInv
PROPERTIES
    EndedIsEnded
    ParentLeavesNode
CHECK_DEADLOCK FALSE
