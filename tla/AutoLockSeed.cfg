CONSTANTS
    o1 = o1
    s1 = s1
    s2 = s2
    mainnet = mainnet
    other = other
    a0 = a0
    NoSeed = NoSeed
    NoEntry = NoEntry
    NoCall = NoCall
    NoAccount = NoAccount
    NoAddress = NoAddress
    NoChain = NoChain
    Reqs = {r1}
    Surfaces = {popup}
    Origins = {o1}
    Chains = {mainnet, other}
    DefaultChain = mainnet
    Accounts = {a0}
    Seeds = {s1, s2}
    PageCalls <- MCSignCalls
    AutoLockOn = TRUE
    MayImport = FALSE
    MayRestart = FALSE
    MayFail = FALSE
    MaxWrites = 2
SPECIFICATION Spec
PROPERTIES
    LockDisposesOrCancels
