SPECIFICATION FairSpec
CONSTANTS
    p1 = p1
    p2 = p2
    p3 = p3
    Procs <- ThreeProcs
    Last = 3
    Wipes <- OnlyLast
    MaxRows = 2
    MaxFaults = 2
INVARIANTS
    VersionsTellTheTruth
    ReadyMeansComplete
PROPERTIES
    WrittenHistoryKept
    ImplementsSchemaLog
    AllGetReady
CHECK_DEADLOCK FALSE
