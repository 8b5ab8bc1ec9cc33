SPECIFICATION Spec
CONSTANTS
    TargetLists <- TwoQueries
    Scalers <- AllScalers
    Values = {2, 8}
    QueueStates <- EmptyOrBusy
    PodAdvice = {}
    MinReplicas = 1
    MaxReplicas = 4
    InitialReplicas = 2
    Toleration = 5
    Week = 4
    Changes = 1
    Unset = Unset
PROPERTY
    EveryTargetCounts
