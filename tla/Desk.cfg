SPECIFICATION MCSpec
CONSTANTS
    Files = {f1}
    Contents = {a, b}
    Tasks = {t1, t2}
    MaxVersion = 3
    MaxCloses = 1
    Kinds = {"bump", "receive", "reload", "replace", "open"}
    CloseWhileBusy = FALSE
    OpenTwice = FALSE
    CanFail = TRUE
    NoEntry = NoEntry
    NoRequest = NoRequest
    NotLoaded = NotLoaded
    Reports <- MCReports
    Here = "me"
    NoProject = "none"
    Ttl = 2
    MaxTime = 3
    MaxReports = 3
    Windows = {}
    Starts = {s1, s2}
    Keys = {k1, k2, k3}
    Passphrases = {"pw", "other"}
    None = "none"
SYMMETRY Symmetry
INVARIANTS ConflictKept IdentityStable
PROPERTIES Allocates NoClobber
CHECK_DEADLOCK FALSE
