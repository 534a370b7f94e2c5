CONSTANTS
    Commands <- AnyCommands
    Bursts <- SomeBursts
    RxBufferSize = 21
    MaxSent = 3
    MaxNoise = 0
    MqttMayFail = FALSE
SPECIFICATION Spec
PROPERTIES Delivers
CHECK_DEADLOCK FALSE
