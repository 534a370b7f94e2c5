CONSTANTS
    Phones = {p1, p2}
    NoPhone = NoPhone
    AdvMayFail = FALSE
    Scanners = {s1, s2}
    WIFI_SCAN_MAX_AP = 3
    Polite = TRUE
    NotifyMayFail = FALSE
SPECIFICATION Spec
INVARIANTS EndIsLast
