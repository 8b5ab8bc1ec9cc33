SPECIFICATION Spec
CONSTANTS
    Nil = Nil
    PatchTable <- ThreePatches
    Day = 4
    Specs <- PlainSpecs
    InitialSpecs <- PlainSpecs
    Annotations <- DailyOrGarbled
    DryRuns = {"false"}
    Loads = {0, 3}
    TargetSizes = {2}
    Window = 2
    Faults = {"updateReply"}
    Disturbances = {"load", "crash", "annotation"}
    Budget = 2
    InformerLag = FALSE
    Prompt = FALSE
    MaxTime = 4
PROPERTY
    NoEarlyDownscale
CHECK_DEADLOCK FALSE
