SPECIFICATION IndicatorsSpec
CONSTANTS
    WorkloadKeys <- TwoPods
    Usages = {12}
    Requests = {0, 1, 3}
    Limits = {2}
    Queries = {"cpuReq", "cpuUse", "cpuLim"}
    Asked = {"", "a"}
    Hidden = {"prometheus"}
    DefaultPageSize = 3
    MaxPageSize = 4
    IntSize = 32
    PageQueries <- PagesAsked
INVARIANTS
    UsageConserved
    OrderIrrelevant
    AskedIsPartOfAll
    PageIsRight
CHECK_DEADLOCK FALSE
