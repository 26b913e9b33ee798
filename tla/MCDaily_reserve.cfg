SPECIFICATION Spec
CONSTANTS
    Tickers = {1, 2}
    Scale = 1
    NSessions = 2
    InitialCapital = 40
    Fee = 0
    Threshold = 50
    MaxPositions = 2
    MaxWeight = 100
    MaxNotional = 40
    CashReserve = 4
    StopLoss = 10
    TakeProfit = 0
    Procs = {p1}
    Serialized = TRUE
    Lag = 0
    Universes <- Rotation
    Prices = {8, 10}
    Opening <- OneShareHeld
    Scores = {40, 60}
    Benchmarked = {TRUE, FALSE}
INVARIANT
    PurchasesLeaveReserve
CHECK_DEADLOCK FALSE
