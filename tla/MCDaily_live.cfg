SPECIFICATION FairSpec
CONSTANTS
    Tickers = {1}
    Scale = 1
    NSessions = 2
    InitialCapital = 20
    Fee = 0
    Threshold = 50
    MaxPositions = 1
    MaxWeight = 100
    MaxNotional = 24
    CashReserve = 0
    StopLoss = 10
    TakeProfit = 0
    Procs = {p1, p2}
    Serialized = FALSE
    Lag = 1
    Universes = {{1}}
    Prices = {8}
    Opening <- NothingHeld
    Scores = {40, 60}
    Benchmarked = {TRUE}
PROPERTY
    InvocationsEnd
CHECK_DEADLOCK FALSE
