CONSTANTS
    Commands <- PlainCommands
    Bursts <- SomeBursts
    RxBufferSize = 1
    MaxSent = 2
    MaxNoise = 2
    MqttMayFail = TRUE
SPECIFICATION Spec
INVARIANTS UartTypeOK
PROPERTIES ActsOnValidFrames Resynchronises
CHECK_DEADLOCK FALSE
