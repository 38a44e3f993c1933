CONSTANTS
    load = load
    store = store
    again = again
    account = account
    Calls = {load, store, again, account}
    MayBe <- MCMayBe
    Chains = {evm}
    Seeds = {s1, s2}
    Garbage = Garbage
    Found = {s1, None}
    None = None
    MaxLoads = 2
    Restarts = 1
SPECIFICATION Spec
CHECK_DEADLOCK FALSE
INVARIANTS
    KeysOfOneSeed
    RegisteredBeforeUse
    CallKeepsItsSeed
PROPERTIES
    FailedOpenIsFinal
    CallsEnd
