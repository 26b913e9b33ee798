SPECIFICATION Spec
CONSTANTS
    Runners = {r1, r2}
    NSessions = 3
    NUniverses = 2
    NRuns = 6
    Lag = 1
    Triggers = {"daily-market-cycle", "manual-strategy-run"}
    Failing = TRUE
SYMMETRY RunnerSymmetry
INVARIANTS
    TypeOK
    DailyHistoryIsOneChain
    UploadedIsDelivered
    NoSessionTwice
    FailedSessionsCanBeRetried
CHECK_DEADLOCK FALSE
