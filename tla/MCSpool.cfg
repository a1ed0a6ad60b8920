SPECIFICATION FairSpec
CONSTANTS
    Packs = {"a", "b", "c", "d"}
    Stagers = {"s1", "s2"}
    Workers = {"w1", "w2"}
    Id <- Ids
    Size <- Sizes
    MaxAttempts = 2
    Scenarios <- MCScenarios
INVARIANT AckedSurvives
PROPERTY NeverGrowsPastLimit
PROPERTY AckedIsUploaded
