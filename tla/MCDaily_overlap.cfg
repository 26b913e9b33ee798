SPECIFICATION Spec
CONSTANTS
    Tickers = {1, 2}
    Scale = 2
    NSessions = 2
    InitialCapital = 9
    Fee = 0
    Threshold = 50
    MaxPositions = 2
    MaxWeight = 100
    MaxNotional = 24
    CashReserve = 0
    StopLoss = 10
    TakeProfit = 0
    Procs = {p1, p2}
    Serialized = FALSE
    Lag = 0
    Universes <- Turnover
    Prices = {15}
    Opening <- OneShareHeld
    Scores = {60}
    Benchmarked = {TRUE}
SYMMETRY ProcSymmetry
INVARIANTS
    SessionsExclusive
    ErpAgreesWithLedger
    CashNeverNegative
PROPERTY
    ImplementsSessionBook
CHECK_DEADLOCK FALSE
