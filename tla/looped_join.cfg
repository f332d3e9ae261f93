CONSTANTS
    Node <- LoopedNode
    Entry <- LoopedEntry
    TypeOf <- LoopedType
    Edge <- LoopedEdge
    MaxIterations <- LoopedLoops
    Referenced <- NoReference
    Execution = {e1}
    Worker = {w1}
    MaxSteps = 20
    MaxRoots = 1
    NoOne = NoOne
SPECIFICATION Spec
INVARIANTS
    JoinsWaitForAll
CHECK_DEADLOCK FALSE
