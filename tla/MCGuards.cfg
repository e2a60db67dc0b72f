CONSTANTS
    Nonces = {n1, n2}
    Requests = {r1, r2}
    Lifetime = 2
    MaxTime = 4
    Callers = {c1, c2}
    Threshold = 3
    Cooldown = 2
    Weights = {1, 2}
    Limit = 2
    Window = 2
    MaxDelay = 1
    Tokens = {t1}
    SessionLife = 2
    Tolerance = 2
    Skew = 1
    Staleness = 2
    Horizon = 5
SPECIFICATION GuardsSpec
INVARIANTS
    OneSessionPerNonce
    LiveNonceUsable
    OpensOnRealFailures
PROPERTIES
    SessionsSound
    NoncesCleanedUp
    NoEarlyRejection
    GuardsLetThrough
CHECK_DEADLOCK FALSE
