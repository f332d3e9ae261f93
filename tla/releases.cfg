CONSTANTS
    Version <- MCVersion
    Workflow <- MCWorkflow
    WorkflowOf <- MCWorkflowOf
    Definition <- MCDefinition
    NoVersion = NoVersion
    Root = {r1}
    Copy = {c1}
    v1 = v1
    v2 = v2
    Evaluation = {v1, v2}
    BaselineOf <- MCBaselineOf
    Scenario <- MCScenario
    Dataset <- MCDataset
    Minimum = 700
    MaxRegression = 100
    Context <- MCContext
    InitialBundle <- MCInitialBundle
    Bundles <- MCBundles
    MaxRequests = 3
    None = None
SPECIFICATION Spec
INVARIANTS
    ReleasesInv
    SomeVersionServes
    OneServesUnlessOverlapped
    OnlyRunsHaveEffects
    LastResultCompletes
    GateIsEarned
    VerdictIsComing
PROPERTIES
    VerdictsAreFinal
    
CHECK_DEADLOCK FALSE
