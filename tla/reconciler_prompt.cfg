SPECIFICATION FairSpec
CONSTANTS
    Nil = Nil
    PatchTable <- NoPatches
    Day = 8
    Specs <- ScalingSpecs
    InitialSpecs <- PanicSpecs
    Annotations <- NoAnnotation
    DryRuns = {"false"}
    Loads = {0, 4}
    TargetSizes = {0, 2}
    Window = 1
    Faults = {}
    Disturbances = {"spec", "load", "resize"}
    Budget = 2
    InformerLag = FALSE
    Prompt = TRUE
    MaxTime = 14
INVARIANTS
    ScaleTimeRecorded
    SettlesInTime
PROPERTIES
    ColdDownRespected
    GenerationObserved
CHECK_DEADLOCK FALSE
