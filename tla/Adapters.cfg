CONSTANTS
    r1 = r1
    r2 = r2
    r3 = r3
    Reads = {r1, r2, r3}
    Absent = Absent
    Tasks = {"reads", "history", "price"}
    Kinds = {"balance", "status", "direct", "unsupported"}
    Period = 2
    Burst = 2
    Attempts = 3
    Base = 2
    MaxDelay = 3
    MaxTime = 6
    Indexers <- MCIndexers
    PageSize = 2
    MaxTx = 9
    Prices <- MCPrices
SYMMETRY SameReads
SPECIFICATION AdaptersSpec
INVARIANTS
    RateRespected
    PagesLeaveNoGap
CHECK_DEADLOCK FALSE
