SPECIFICATION Spec
CONSTANTS
    InitializationPeriod = 2
    ReadinessDelay = 1
    MetricWindow = 1
    Toleration = 5
    Names = {"p1", "p2", "p3"}
    InitialSets = {{}, {"p1"}, {"p1", "p2", "p3"}}
    Values = {1, 3}
    Requests <- SomeRequests
    Targets = {80}
    Threshold <- Half
    Timeout = 0
    MinReplicas = 2
    MaxReplicas = 3
    InitialTime = 2
    MaxTime = 3
    Events = 3
INVARIANTS
    TypeOK
    MissingMetricsNeverMislead
    DirectionKept
PROPERTIES
    ExhaustionSettles
