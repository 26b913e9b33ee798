SPECIFICATION Spec
CONSTANTS
    Clients = {c1}
    NTickers = 3
    NDays = 2
    NAdjustments = 2
    BatchSize = 2
    MaxRetries = 2
    Starts = {2}
    Window = 1
    StaleAfter = 0
INVARIANTS
    TypeOK
    NothingSuppressed
    SessionIsRecent
    CacheIsWhole
PROPERTIES
    CacheOnlyImproves
    CommandsEnd
CHECK_DEADLOCK FALSE
