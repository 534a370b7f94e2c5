CONSTANTS
    OutLength = 200
    InLength = 60
    Info <- MCInfo
    ConnectConfig <- MCConnectConfig
    WillProperty <- Will
    Publications <- MCPublications
    Stored <- MCStored
    Subscriptions <- MCSubscriptions
    Unsubscriptions <- MCUnsubscriptions
    Disconnections <- MCDisconnections
    Answers <- MCAnswers
    Messages <- MCMessages
    MaxCalls = 2
    MaxMessages = 2
    MaxLosses = 1
    Window = 2
SPECIFICATION Spec
INVARIANTS Mqtt5TypeOK SaysWhatIsMeant HearsWhatIsMeant CountsInFlight OnceOnly
PROPERTIES ArrivesOrExpires
CHECK_DEADLOCK FALSE
