SPECIFICATION EngineSpec
CONSTANTS
    Procs = {"p", "q"}
    Framing = 1
    Scenarios <- MCScenarios
INVARIANT StagersOwnTheirDirectory
INVARIANT NothingLeaks
INVARIANT CapturedIsKept
INVARIANT FlushCatalogs
PROPERTY SpoolsDrain
CHECK_DEADLOCK FALSE
