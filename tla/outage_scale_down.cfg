SPECIFICATION Spec
CONSTANTS
    TargetLists <- LastValueTarget
    Scalers <- AllScalers
    Values = {4, 8}
    QueueStates <- EmptyOrBusy
    PodAdvice = {}
    MinReplicas = 1
    MaxReplicas = 8
    InitialReplicas = 8
    Toleration = 5
    Week = 4
    Changes = 1
    Unset = Unset
PROPERTY
    NoScaleDownInOutage
