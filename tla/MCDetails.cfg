SPECIFICATION Spec
CONSTANTS
    Pods <- ThreePods
    AskedPods <- PatternsAsked
    AskedDates <- DatesAsked
    AskedLimits <- LimitsAsked
    DefaultLimit = 1
    MaxLimit = 2
    MaxTime = 2
INVARIANTS
    ExactPodFirst
    PartsAgree
    NewestRowsShown
