SPECIFICATION Spec
CONSTANTS
    TargetLists <- MixedTargets
    Scalers <- AllScalers
    Values = {0, 8}
    QueueStates <- EmptyOrBusy
    PodAdvice = {0, 3}
    MinReplicas = 0
    MaxReplicas = 4
    InitialReplicas = 0
    Toleration = 5
    Week = 4
    Changes = 2
    Unset = Unset
INVARIANTS
    TypeOK
    TargetsUnique
    LastValueRemembered
    SettingsFollowSchedules
PROPERTIES
    EveryTargetCounts
    BacklogWakesTarget
