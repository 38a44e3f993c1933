CONSTANTS
    o1 = o1
    s1 = s1
    s2 = s2
    mainnet = mainnet
    other = other
    a0 = a0
    NoSeed = NoSeed
    NoEntry = NoEntry
    NoCall = NoCall
    NoAccount = NoAccount
    NoAddress = NoAddress
    NoChain = NoChain
    Reqs = {r1, r2}
    Surfaces = {popup, panel}
    Origins = {o1}
    Chains = {mainnet, other}
    DefaultChain = mainnet
    Accounts = {a0}
    Seeds = {s1}
    PageCalls <- MCEffectCalls
    AutoLockOn = TRUE
    MayImport = TRUE
    MayRestart = TRUE
    MayFail = TRUE
    MaxWrites = 4
SPECIFICATION Spec
SYMMETRY Symmetry
INVARIANTS
    TypeOK
    LocksDisposeOfSeed
    WithdrawnNeverActs
    WaitingIsPending
    AccountsWereGranted
PROPERTIES
    EventsFollowStorage
    KeepsContract
