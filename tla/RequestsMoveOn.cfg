CONSTANTS
    o1 = o1
    s1 = s1
    s2 = s2
    mainnet = mainnet
    other = other
    a0 = a0
    NoSeed = NoSeed
    NoEntry = NoEntry
    NoCall = NoCall
    NoAccount = NoAccount
    NoAddress = NoAddress
    NoChain = NoChain
    Reqs = {r1, r2}
    Surfaces = {popup}
    Origins = {o1}
    Chains = {mainnet, other}
    DefaultChain = mainnet
    Accounts = {a0}
    Seeds = {s1, s2}
    PageCalls <- MCMoveCalls
    AutoLockOn = TRUE
    MayImport = FALSE
    MayRestart = FALSE
    MayFail = TRUE
    MaxWrites = 3
SPECIFICATION Spec
PROPERTIES
    RequestsMoveOn
