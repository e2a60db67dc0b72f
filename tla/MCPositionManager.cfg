SPECIFICATION Spec
CONSTANTS
    Users = {alice, bob}
    NoOne = NoOne
    Operators <- MCOperators
    MaxTokens = 2
    Ranges = {near, far}
    NoRange = NoRange
    MaxLiquidity = 2
    Currencies = {ether}
    Native = {ether}
    Funds = 1
    Gifts = 1
SYMMETRY Symmetry
INVARIANTS
    PoolBacksTokens
PROPERTIES
    CallsSettleUp
CHECK_DEADLOCK FALSE
