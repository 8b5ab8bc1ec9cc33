SPECIFICATION Spec
CONSTANTS
    Nil = Nil
    PatchTable <- ThreePatches
    Day = 4
    Specs <- CalmSpecs
    InitialSpecs <- CalmSpecs
    Annotations <- AllThree
    DryRuns = {"false", "unset"}
    Loads = {4}
    TargetSizes = {1}
    Window = 1
    Faults = {"getScale", "exhaust", "selector", "scaler", "update", "updateReply", "patch", "patchReply"}
    Disturbances = {"delete", "recreate", "target", "crash", "spec", "dryRun"}
    Budget = 1
    InformerLag = TRUE
    Prompt = FALSE
    MaxTime = 3
INVARIANTS
    TypeOK
    LastScaleTimeJustified
    LoopStopsOnlyOnPurpose
PROPERTIES
    PatchHeldUntilExpiry
CHECK_DEADLOCK FALSE
