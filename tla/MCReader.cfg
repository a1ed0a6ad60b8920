SPECIFICATION Spec
CONSTANTS
    Readers = {"r1", "r2"}
    Packs = {1, 2, 3}
    Captures = {1, 2, 3}
    Contents <- MCContents
    PayloadBytes <- MCPayloadBytes
    Header = 2
    Unit = 4
    Trailer = 2
    FooterBase = 2
    RecordJson = 3
    MaxFooter = 12
    Scenarios <- MCSafety
INVARIANT WalkShowsSnapshot
INVARIANT SelectionsHydrate
INVARIANT CacheAccounted
CHECK_DEADLOCK FALSE
