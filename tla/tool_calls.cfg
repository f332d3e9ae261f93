CONSTANTS
    Action <- OneAction
    Budget <- MCBudget
    Resource <- MCResource
    Estimate <- MCEstimate
    Releasable <- MCReleasable
    ResourceOf <- MCResourceOf
    Scope <- MCScope
    Context <- MCContext
    Limit <- AmpleLimit
    Worker = {w1, w2}
    Operator = {o1}
    MaxReconciliation = 2
    MaxRedrives = 1
SPECIFICATION FairToolSpec
INVARIANTS
    ExecutedAtMostOnce
    EffectNeedsApproval
    CommittedHasEffect
    IndInv
    CancelledBeforeEffect
    ParentFollowsCall
    CallsInv
PROPERTIES
    EndedIsEnded
    Spec
    ParentLeavesNode
CHECK_DEADLOCK FALSE
