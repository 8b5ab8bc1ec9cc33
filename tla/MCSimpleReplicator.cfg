SPECIFICATION Spec
CONSTANTS
    Keys = {a}
    Replicas = {0, 1, 2}
    Window = 1
    MaxTime = 5
    CallsPerTick = 2
INVARIANTS
    TypeOK
    HistoryBounded
PROPERTIES
    ImplementsWindowMax
