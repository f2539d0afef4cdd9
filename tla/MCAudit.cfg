SPECIFICATION AuditSpec
CONSTANTS
    w1 = w1
    w2 = w2
    Workloads <- TwoWorkloads
    Requested <- LargeAndSmallRequest
    Used <- LargeAndSmallUsage
    Grain = 10
    MaxIds = 3
INVARIANTS
    NoFalseDivergence
    CompleteUnlessErased
