SPECIFICATION Spec
CONSTANTS
    positive = positive
    negative = negative
    Scenarios <- TwoScenarios
    Positive <- OnePositive
    Repetitions = 1
    MaxSessions = 3
    MaxInterrupts = 1
    MaxBlinds = 0
    MaxKills = 0
INVARIANTS
    SummaryAgrees
CHECK_DEADLOCK FALSE
