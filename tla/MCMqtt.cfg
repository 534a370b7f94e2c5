CONSTANTS
    Ids <- AllIds
    MaxSamples = 1
    MaxCommands = 1
    MaxFailures = 1
    Window = 1
    MayExpire = TRUE
SPECIFICATION Spec
INVARIANTS MqttTypeOK NothingDropped
PROPERTIES KeepsPromise Recovers
