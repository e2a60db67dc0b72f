SPECIFICATION Spec
CONSTANTS
    NoRow = NoRow
    NoTx = NoTx
    Orders = {o1}
    Deadline <- MCDeadline
    Messages = {m1, m2}
    Txs = {t1, t2}
    MaxRows = 2
    MaxTime = 2
    MaxRetries = 1
    TickLimit = 1
PROPERTIES
    SettledRowKept
CHECK_DEADLOCK FALSE
