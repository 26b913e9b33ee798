SPECIFICATION Spec
CONSTANTS
    MaximumSymbols = 4
    SectorPercent = 50
    Categories = {"chips", "power"}
    AllowMultiTag = TRUE
    CategoryMin <- One
    CategoryMax <- TwoChips
    CategoryTarget <- Two
    Spelling <- Spellings
    Blank = ""
    Upper <- Uppercased
    ExpectedSize = 2
    MaxFormatAttempts = 2
    Horizon = 2
    Lookback = 1
    Embargo = 2
    TrainDays = 2
    ValidationDays = 1
    MaxPicks = 1
    ScoreThreshold = 60
    BacktestPositions = 1
    HoldingSessions = 2
    SlippageBps = 1000
    Commission = 1
    VolumePercent = 1
    StartingCash = 50
    LastSession = 8
    PolicyRequests <- AnyPolicy
    ResearchRequests <- AnyResearch
    FileRequests <- AnyFile
    TrainingRequests <- AnyPanel
    BacktestRequests <- AnyBacktest
INVARIANTS
    EveryCandidateDecided
    SectorShareHolds
    CategoryCapsHold
    UniverseFileIsComplete
    CompleteRowsSurvive
    NoLabelLeaks
    NoPickIsTrainedOn
    BacktestIsExecutable
CHECK_DEADLOCK FALSE
