CONSTANTS
    Ssids = {home, office}
    NoSsid = NoSsid
    QueueLen = 2
    Callers = {app_main, worker}
    Groups = {g1}
    NoGroup = NoGroup
    MaxRetry = 1
    Serial = TRUE
SPECIFICATION CalmSpec
INVARIANTS ManagerTypeOK NoFault NoDataRace NothingLeftBehind RetryBound CalmOkMeansJoined
PROPERTIES CallsReturn
