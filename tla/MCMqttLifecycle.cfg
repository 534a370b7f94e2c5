CONSTANTS
    Owner = owner
    Others = {other}
    MaxStarts = 3
    Careful = TRUE
SPECIFICATION Spec
INVARIANTS LifecycleTypeOK OneTask NoUseAfterFree StopMeansStopped
PROPERTIES DisconnectOnlyWhenAsked CallsReturn ReconnectsAsAsked
CHECK_DEADLOCK FALSE
