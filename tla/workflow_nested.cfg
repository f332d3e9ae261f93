CONSTANTS
    Node <- NestedNode
    Entry <- NestedEntry
    TypeOf <- NestedType
    Edge <- NestedEdge
    MaxIterations <- NoLoop
    Referenced <- NestedReference
    Execution = {e1, e2, e3}
    Worker = {w1}
    MaxSteps = 3
    MaxRoots = 1
    NoOne = NoOne
SYMMETRY Symmetry
SPECIFICATION Spec
INVARIANTS
    CallsTellTheTruth
PROPERTIES
    EvidenceStaysTrue
CHECK_DEADLOCK FALSE
