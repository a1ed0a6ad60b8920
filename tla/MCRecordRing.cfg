SPECIFICATION FairRecordSpec
CONSTANTS
    Pushes = {1, 2}
    MaxRecords = 4
    MaxSteps = 2
    PayloadCap = 3
    TaskCap = 2
    StagingCap = 3
    Scenarios <- MCScenarios
INVARIANT SubmitsOwnPayload
INVARIANT RingNeverOverrun
INVARIANT FlushStoresAll
PROPERTY RefinesConsumer
PROPERTY RecordWaitsEnd
CHECK_DEADLOCK FALSE
