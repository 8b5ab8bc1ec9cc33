SPECIFICATION Spec
CONSTANTS
    Nil = Nil
    PatchTable <- ThreePatches
    Day = 4
    Specs <- PlainSpecs
    InitialSpecs <- PlainSpecs
    Annotations <- AllThree
    DryRuns = {"false"}
    Loads = {0, 3}
    TargetSizes = {1}
    Window = 1
    Faults = {}
    Disturbances = {"load"}
    Budget = 1
    InformerLag = FALSE
    Prompt = TRUE
    MaxTime = 4
INVARIANT
    ScaleTimeRecorded
CHECK_DEADLOCK FALSE
