CONSTANTS
    Origins = {o1, o2}
    Entries = {e1, e2}
    NoEntry = NoEntry
    Callers = {c1}
    MaxWrites = 3
SYMMETRY Symmetry
SPECIFICATION AuditSpec
INVARIANTS
    AuditTypeOK
    RevokedStaysRevoked
    LastWriteIsMemory
PROPERTY NothingLostUnasked
