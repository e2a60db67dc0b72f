CONSTANTS
    MaxFetches = 2
    MaxCalls = 2
    MaxTx = 2
    MaxAmount = 2
    Slippages = {5}
    Rates = {10, 30}
    Ticks = 6
    Spacing = 2
    Scan = 1
    MaxBlock = 2
    MaxQuoted = 3
    Fee = 3
    Positions <- MCPositions
    Pools = {p1, p2}
    Loads = {l1, l2}
    Wallets = {w1, w2}
    Ids <- MCIds
    Owner <- MCOwner
    Runs = {r1, r2}
    MaxDeposits = 1
    Amounts = {0, 4}
    MaxQuotes = 2
    Slip = 5
    BuyRates = {1, 3}
    Prices = {0, 1, 9, 15, 80, 99}
    Scale = 3
    Q = 4
    MaxSqrt = 12
    MaxFee = 1
    MaxSpacing = 1
    MaxTime = 1
SPECIFICATION WebSpec
INVARIANTS
    ExecutedAsQuoted
    OneSwapAtATime
    RecordedOnce
    QuoteExact
    DepositAsPressed
    PagesShowTheirOwn
    PriceEncoded
PROPERTIES
    PageSettles
CHECK_DEADLOCK FALSE
