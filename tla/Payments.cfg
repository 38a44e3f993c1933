CONSTANTS
    popup = popup
    panel = panel
    Surfaces = {popup, panel}
    Reaches <- MCReaches
    Forms = {f1}
    Empty = Empty
    MaxRecords = 1
    Mounts <- MCMounts
    Asks = 2
    Polls = 2
    None = None
    Null = Null
SPECIFICATION Spec
INVARIANTS ReviewedIsSent HistoryIsNewest
PROPERTIES ResolvedSticks StatusIsLearnt
CHECK_DEADLOCK FALSE
