SPECIFICATION Spec
CONSTANTS
    Plugins <- ThreePlugins
    Registered = {"simple", "cpu", "prometheus", "rabbitmq"}
    Files <- SomeFiles
    Keys = {"a", "b"}
    Workers = {"w1", "w2"}
    Replicas = {1, 2}
    Window = 0
    MaxTime = 1
    MaxPasses = 2
    MaxEdits = 1
    MaxDeaths = 1
INVARIANTS
    TypeOK
    ServesFullyConfigured
    StabilizedUnlessRaced
PROPERTIES
    EveryKeyServed
CHECK_DEADLOCK FALSE
