SPECIFICATION CadenceSpec
CONSTANTS
    k1 = k1
    Keys <- OneKey
    Required <- RequiredThree
    Cooldown = 3
    MaxGap = 4
    MaxTime = 12
    MaxObs = 12
    Interval = 2
    MaxCycle = 2
    MaxFaults = 3
    MaxFlips = 1
INVARIANTS
    HeardInTime
    SignalledInTime
PROPERTIES
    NoAlertAfterBlindness
