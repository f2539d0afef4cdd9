SPECIFICATION Spec
CONSTANTS
    positive = positive
    negative = negative
    Scenarios <- TwoScenarios
    Positive <- OnePositive
    Repetitions = 1
    MaxSessions = 3
    MaxInterrupts = 1
    MaxBlinds = 1
    MaxKills = 1
INVARIANTS
    OneRecord
    FinishedIsComplete
    IsolatedUnlessBlind
    SummaryOfValidRuns
PROPERTIES
    ResultsKept
CHECK_DEADLOCK FALSE
