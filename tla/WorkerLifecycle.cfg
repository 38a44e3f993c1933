CONSTANTS
    Thresholds = {0, 1, 3}
    Default = 3
    Period = 2
    MaxIdle = 4
    MayRestart = TRUE
    Ids = {r1, r2}
SPECIFICATION WorkerSpec
INVARIANTS
    WorkerTypeOK
    LateIsBounded
    UnseenIsBadged
