SPECIFICATION Spec
CONSTANTS
    Nil = Nil
    PatchTable <- NoPatches
    Day = 4
    Specs <- NoScalerSpecs
    InitialSpecs <- NoScalerSpecs
    Annotations <- NoAnnotation
    DryRuns = {"false"}
    Loads = {0, 3}
    TargetSizes = {1}
    Window = 1
    Faults = {}
    Disturbances = {"load"}
    Budget = 1
    InformerLag = FALSE
    Prompt = TRUE
    MaxTime = 4
INVARIANT
    FailureIsNotReady
CHECK_DEADLOCK FALSE
