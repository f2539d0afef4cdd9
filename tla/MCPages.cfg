SPECIFICATION PagesSpec
CONSTANTS
    w1 = w1
    Workloads <- OneWorkload
    PageSize = 2
    DefaultPageSize = 2
    MaxPageSize = 3
    IntSize = 16
    MaxIds = 5
INVARIANTS
    RowsWhole
    MissesOnlyLate
    RepeatsBounded
    ExistingPageShown
