CONSTANTS
    popup = popup
    panel = panel
    minted1 = minted1
    phrase = phrase
    typo = typo
    long = long
    pw1 = pw1
    wrong = wrong
    None = None
    Damaged = Damaged
    Surfaces = {popup, panel}
    Minted = {minted1}
    Typed = {phrase, typo, long}
    Valid = {phrase, long}
    Kept <- MCKept
    Passwords = {pw1, wrong}
    Strong = {pw1}
    Firsts <- MCFirsts
    Uses <- MCUses
    MaxJobs <- MCMaxJobs
    MaxPolls <- MCMaxPolls
SPECIFICATION Spec
INVARIANTS
    WalletIsUsersOwn
PROPERTIES
    ShownSinceRefresh
    LoadingEnds
CHECK_DEADLOCK FALSE
