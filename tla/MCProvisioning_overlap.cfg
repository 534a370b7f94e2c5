CONSTANTS
    Ssids = {home}
    NoSsid = NoSsid
    QueueLen = 1
    Callers = {app_main, w1}
    Passes = {pw}
    NoPass = NoPass
    AppMain = app_main
    Workers = {w1}
    Groups = {g1, g2}
    NoGroup = NoGroup
    MaxRetry = 0
    Serial = FALSE
    Phones = {phone}
    NoPhone = NoPhone
    AdvMayFail = FALSE
    NvsMayFail = FALSE
SPECIFICATION Spec
INVARIANTS NoFault
