SPECIFICATION MCSpec
CONSTANTS
    Parts = {"oracle"}
    alice = alice
    bob = bob
    pool = pool
    native = native
    NoOwner = NoOwner
    NoTwap = NoTwap
    Owners <- MCOwners
    Pools <- MCPools
    NativePools <- MCNative
    Requests <- MCRequests
    Prices <- MCPrices
    MaxOrders = 2
    MaxTime = 3
    Funds = 2
    MaxSlippageBps = 2
    MaxTwapWindow = 2
    Size = 3
    Ticks <- MCTicks
    LastSecond = 5
    InputPositive = FALSE
    Jobs = {j1, j2}
    NoJob = NoJob
    OrderOf <- MCOrderOf
    Signers = {s1, s2}
    Assignments <- MCAssignments
    Environments <- MCEnvironments
    MaxTries = 2
    MaxNonce = 3
INVARIANTS
    TradesAreSampled
CHECK_DEADLOCK FALSE
