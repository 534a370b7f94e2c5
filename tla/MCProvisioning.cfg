CONSTANTS
    Ssids = {home}
    NoSsid = NoSsid
    QueueLen = 1
    Callers = {app_main, w1}
    Passes = {pw}
    NoPass = NoPass
    AppMain = app_main
    Workers = {w1}
    Groups = {g1}
    NoGroup = NoGroup
    MaxRetry = 0
    Serial = TRUE
    Phones = {phone}
    NoPhone = NoPhone
    AdvMayFail = FALSE
    NvsMayFail = FALSE
SPECIFICATION Spec
INVARIANTS TypeOK Reachable
PROPERTIES ManagerSafety KeepsPromise Answered SuccessStartsServices
