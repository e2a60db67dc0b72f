SPECIFICATION TradersSpec
CONSTANTS
    Users = {alice, bob}
    NoOne = NoOne
    PositionIds = {p}
    MaxLiquidity = 2
    Currency0 = eth
    Currency1 = usd
    ProtocolFeeBps = 1
    BpsDenominator = 2
    Funds0 = 2
    Funds1 = 1
    Gifts0 = 1
    Gifts1 = 0
    ZapFunds = 2
    ZapGifts = 1
    MaxZaps = 1
SYMMETRY Symmetry
INVARIANTS
    LedgerSound
PROPERTIES
    CallersTermsKept
CHECK_DEADLOCK FALSE
