CONSTANTS
    Phones = {p1, p2}
    NoPhone = NoPhone
    AdvMayFail = TRUE
    Scanners = {s1, s2}
    WIFI_SCAN_MAX_AP = 3
    Polite = FALSE
    NotifyMayFail = TRUE
SPECIFICATION Spec
INVARIANTS OwnList
PROPERTIES ListEnds
