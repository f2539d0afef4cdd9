SPECIFICATION Spec
CONSTANTS
    k1 = k1
    Keys <- OneKey
    Required <- RequiredThree
    Cooldown = 4
    MaxGap = 2
    MaxTime = 7
    MaxObs = 6
INVARIANTS
    StateSummarisesHistory
    LatencyBounded
PROPERTIES
    ImplementsSustainedAlert
    AlertsSpaced
