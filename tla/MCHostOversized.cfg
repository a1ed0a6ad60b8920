SPECIFICATION Spec
CONSTANTS
    Stagers = {"worker", "c1"}
    Uploaders = {"u1", "u2"}
    PassLimit = 2
    MaxAttempts = 2
    Submitters = {"s1", "s2"}
    Flushers = {"f1", "f2"}
    Records <- MCRecords
    Header = 2
    Unit = 4
    Trailer = 2
    FooterBase = 2
    RecordJson = 3
    MaxFooter = 12
    Scenarios <- Oversized
INVARIANT
    DropCostsOneRecord
CHECK_DEADLOCK FALSE
