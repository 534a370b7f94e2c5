CONSTANTS
    BufferLength = 10
    Messages <- FewMessages
    MaxMessages = 2
    MaxFailures = 1
SPECIFICATION FairSpec
INVARIANTS ReceiveTypeOK HeardIsSent RepliesMatch
PROPERTIES KeepsSoundConnection HearsEverything
CHECK_DEADLOCK FALSE
