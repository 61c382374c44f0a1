CONSTANTS
    k1 = k1
    k2 = k2
    c1 = c1
    c2 = c2
    b1 = b1
    b2 = b2
    Keys = {k1, k2}
    Contents = {c1, c2}
    Backends = {b1}
    Here = Here
    NoRef = NoRef
    Publishable <- Conflicting
    TagNames = {t1}
    Temporaries = {}
    CanFail = TRUE
    CanCorrupt = FALSE
    MaxTime = 2
    MaxVersions = {0, 1}
    MaxBytes = {0, 1, 2}
    Daemons = {d1, d2}
    Kinds = {"local_path", "s3", "gdrive"}
    MaxFiles = 2
    Clerks = {u1, u2}
    Versions = {1, 2}
    Papers = {"m"}
    MaxCommands = 2
    MaxOutside = 3
SPECIFICATION MCSpec
INVARIANTS Served RetentionExact CopyKept
PROPERTIES OnlyGcDestroys TidyingSpares
CHECK_DEADLOCK FALSE
