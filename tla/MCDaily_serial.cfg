SPECIFICATION Spec
CONSTANTS
    Tickers = {1, 2}
    Scale = 2
    NSessions = 2
    InitialCapital = 40
    Fee = 0
    Threshold = 50
    MaxPositions = 2
    MaxWeight = 100
    MaxNotional = 32
    CashReserve = 4
    StopLoss = 10
    TakeProfit = 20
    Procs = {p1}
    Serialized = TRUE
    Lag = 0
    Universes <- Rotation
    Prices = {15, 21}
    Opening <- OddShareHeld
    Scores = {40, 60}
    Benchmarked = {TRUE, FALSE}
INVARIANTS
    TypeOK
    CompletedIsAccountedFor
    BooksBalance
    PlansAreExecutable
    ProfitTelescopes
    PeakIsMaximum
    OnlyEndorsedHoldings
    DecisionsCohere
CHECK_DEADLOCK FALSE
