SPECIFICATION Spec
CONSTANTS
    Runners = {r1}
    NSessions = 2
    NUniverses = 1
    NRuns = 4
    Lag = 0
    Triggers = {"daily-market-cycle", "manual-strategy-run"}
    Failing = FALSE
INVARIANT
    OneBatchPerSession
CHECK_DEADLOCK FALSE
