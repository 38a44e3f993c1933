CONSTANTS
    dapp = dapp
    other = other
    here = here
    there = there
    Tabs = {dapp, other}
    Origins = {here, there}
    DappTabs = {dapp}
    Home <- MCHome
    Visits <- MCVisits
    Frames <- MCFrames
    Calls = {c1}
    Events = 2
    Moves = 1
    Deaths = 1
    None = None
SPECIFICATION Spec
CHECK_DEADLOCK FALSE
INVARIANTS
    ServedUnderItsOrigin
    HearsItsOwnInOrder
PROPERTIES
    CallsSettle
    DappFindsWallet
