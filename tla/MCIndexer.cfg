CONSTANTS
    Log <- MCLog
    Sources <- MCSources
    Ticks = {t1, t2}
    Backfills = {b1}
    Ranges <- MCRanges
    Broken = {}
    BatchSize = 1
    GenesisBlock = None
    StartWindow = 3
    MaxHead = 2
    None = None
SPECIFICATION Spec
INVARIANTS
    RowsSound
    NoGapBelowCursor
PROPERTIES
    WorkingSourcesIndexed
