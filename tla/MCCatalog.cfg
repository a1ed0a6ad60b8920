SPECIFICATION Spec
CONSTANTS
    Writers = {"w1", "w2"}
    Packs = {"p", "q"}
    Ids = {1, 2, 3}
    AllocationAttempts = 2
    MaxPublishAttempts = 2
    Scenarios <- MCSafety
INVARIANT OneFencedStatement
INVARIANT CommittedVisible
PROPERTY ImplementsSnapshotLog
CHECK_DEADLOCK FALSE
