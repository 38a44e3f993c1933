CONSTANTS
    addr = addr
    blocks = blocks
    None = None
    Subs = {addr, blocks}
    Filters <- MCFilters
    Sids = {1, 2, 3}
    Offered <- MCLowest
    MaxReconnects = 2
    MaxDrops = 2
SPECIFICATION Spec
CHECK_DEADLOCK FALSE
INVARIANTS
    TypeOK
    RoutesAreTheServers
    HeldIdsRoute
PROPERTIES
    CallsEnd
    ServedAgain
