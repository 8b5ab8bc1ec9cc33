SPECIFICATION Spec
CONSTANTS
    Nil = Nil
    PatchTable <- ThreePatches
    Day = 4
    Specs <- PlainSpecs
    InitialSpecs <- PlainSpecs
    Annotations <- SomePatches
    DryRuns = {"false"}
    Loads = {0, 3}
    TargetSizes = {1}
    Window = 1
    Faults = {}
    Disturbances = {"annotation"}
    Budget = 1
    InformerLag = TRUE
    Prompt = FALSE
    MaxTime = 3
PROPERTY
    PatchHeldUntilExpiry
CHECK_DEADLOCK FALSE
