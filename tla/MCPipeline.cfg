SPECIFICATION Spec
CONSTANTS
    r1 = r1
    r2 = r2
    Workloads <- OneWorkload
    Requests <- TwoRequests
    Window = 1
    MaxTime = 1
    MaxScrapes = 2
    MaxConsolidations = 2
    MaxGen = 2
SYMMETRY RequestSymmetry
INVARIANTS
    SnapshotsWhole
    ReportsWhole
    TornOnlyByErasure
    ReadsOfOneSelection
    HeardWasSaved
    AtMostOneSurvivor
PROPERTIES
    ImplementsAnalysisStore
