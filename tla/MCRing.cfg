SPECIFICATION FairSpec
CONSTANTS
    TaskCap = 2
    PayloadCap = 3
    StagingCap = 2
    Plans <- MCPlans
    Scenarios <- MCScenarios
INVARIANT NoUnreadSlotOverwritten
INVARIANT DeliveryMatchesMeta
INVARIANT WaitedForIsDelivered
PROPERTY NothingDrainedAfterFailure
PROPERTY WaitsEnd
