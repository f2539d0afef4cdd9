SPECIFICATION Spec
CONSTANTS
    r1 = r1
    r2 = r2
    Workloads <- OneWorkload
    Requests <- OneRequest
    Window = 1
    MaxTime = 0
    MaxScrapes = 2
    MaxConsolidations = 3
    MaxGen = 1
INVARIANTS
    CleanAfterReset
