CONSTANTS
    ethereum = ethereum
    polygon = polygon
    solana = solana
    bitcoin = bitcoin
    usdt = usdt
    ETH = ETH
    MATIC = MATIC
    SOL = SOL
    BTC = BTC
    None = None
    Evm = {ethereum, polygon}
    Others = {solana, bitcoin}
    Balanced = {bitcoin}
    Default = ethereum
    Offered = {ethereum, polygon, solana}
    Settable = {ethereum, polygon, solana, bitcoin}
    Tokens <- MCTokens
    Symbol <- MCSymbol
    Tabs = {"activity"}
    MaxAccount = 1
    MaxAsks = 2
SPECIFICATION Spec
INVARIANTS
    ShownIsOfKey
    TokenIsOnChain
