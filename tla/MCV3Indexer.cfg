CONSTANTS
    v1 = v1
    v2 = v2
    alice = alice
    bob = bob
    Ticks = {t1, t2}
    MaxHead = 4
    Versions = {v1, v2}
    Confirmations = 1
    MaxRange = 1
    DeploymentBlock = 0
    ReorgDepth = 1
    MaxLag = 1
    NoCursor = NoCursor
    Users = {alice, bob}
    Nobody = Nobody
    Requests = {r1}
    Claims = {1}
    MaxRows = 1
    History <- MCHistory
SPECIFICATION MCSpec
INVARIANTS
    OnlyCanonicalEvents
    NoGapBelowCursor
    ShownPositionsWereReal
PROPERTIES
    EventsIndexed
