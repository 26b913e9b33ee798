SPECIFICATION Spec
CONSTANTS
    Researchers = {r1, r2}
    Overlapping = TRUE
    NPeriods = 2
    Symbols = {"A", "B", "C"}
    UniverseSize = 2
    Categories = {"chips", "power", "cloud"}
    AiPolicy <- Tagging
    Answers <- SomeAnswers
    MaxAttempts = 2
    MaxCalls = 3
INVARIANTS
    TypeOK
    OneChainPerMonth
    ErpUniversesAreStored
    ReportedIsDelivered
PROPERTIES
    ImplementsMonthlyUniverse
    ResearchEnds
CHECK_DEADLOCK FALSE
