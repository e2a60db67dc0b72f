CONSTANTS
    Usd = {0, 1, 4}
    Twaps = {4, 5}
    Scale = 4
    Trigger = 4
    PriceTtl = 1
    SpotTtl = 1
    TwapTtl = 1
    Period = 2
    MaxDelay = 1
    Jobs = {j1}
    FeedTime = 4
    Tokens2 = {t1, t2}
    Sockets = {s1, s2}
    Capacity = 1
    MaxVersion = 2
    Listeners = {s1}
    Pools = {p1, p2}
    Ticks = {i1, i2}
    Window = 1
    Threshold = 1
    Cooldown = 2
    KvMinTtl = 1
    AlertPeriod = 1
    AlertTime = 3
    Conns = {c1, c2, c3, c4}
    Timers = {i1, i2, i3}
    Attempts = 3
    MaxMoves = 1
    MaxFaults = 2
    Callers = {c1, c2}
    Horizon = 5
    KvTtl = 1
    D1Fresh = 2
    External <- MCExternal
    Par = 2
    Asked = {1}
    MaxDeviation = 500
    Coins = {t1, t2}
    Lists <- MCLists
    Queries = {q1, q2}
    Blank = Blank
    Loads = {l1, l2}
    Searches = {f1, f2}
SPECIFICATION FeedsSpec
INVARIANTS
    SubmitsOnFreshBreach
    SocketsServed
    AlertsSpaced
    CachesHonest
PROPERTIES
    TickerRecovers
CHECK_DEADLOCK FALSE
