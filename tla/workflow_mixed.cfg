CONSTANTS
    Node <- MixedNode
    Entry <- MixedEntry
    TypeOf <- MixedType
    Edge <- MixedEdge
    MaxIterations <- MixedLoops
    Referenced <- MixedReference
    Execution = {e1, e2}
    Worker = {w1, w2}
    MaxSteps = 6
    MaxRoots = 1
    NoOne = NoOne
SYMMETRY Symmetry
SPECIFICATION Spec
INVARIANTS
    EngineInv
    NothingStranded
    EventsMatchRows
    CallsTellTheTruth
    NothingSkipped
    JoinsWaitForAll
PROPERTIES
    SequentialRuns
CHECK_DEADLOCK FALSE
