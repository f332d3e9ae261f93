CONSTANTS
    Node <- PairNode
    Entry <- PairEntry
    TypeOf <- PairType
    Edge <- PairEdge
    MaxIterations <- NoLoop
    Referenced <- PairReference
    Execution = {e1, e2}
    Worker = {w1}
    MaxSteps = 3
    MaxRoots = 2
    NoOne = NoOne
SPECIFICATION FairSpec
PROPERTIES
    EveryRunEnds
    OrphansStop
CHECK_DEADLOCK FALSE
