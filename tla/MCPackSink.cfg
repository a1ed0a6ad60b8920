SPECIFICATION FairSinkSpec
CONSTANTS
    MaxQueueBytes = 4
    MaxPackBytes = 4
    MaxPackRecords = 2
    StageQueuePacks = 1
    Framing = 1
    Flushers = {"host"}
    Scenarios <- MCScenarios
INVARIANT ReturnedIsDurable
INVARIANT ScopeOrder
PROPERTY CallsReturn
CHECK_DEADLOCK FALSE
