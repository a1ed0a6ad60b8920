SPECIFICATION Spec
CONSTANTS
    Processes = {p1, p2}
    Packs = {k1}
    OldPacks = {o1}
    Ttl = 2
    Margin = 1
    Scenarios <- SchemaScenarios
INVARIANTS
    ReadyMeansInstalled
    SkippedPacksAreVisible
PROPERTIES
    EnsureEnds
CHECK_DEADLOCK FALSE
