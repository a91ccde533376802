SPECIFICATION FairSpec
CONSTANTS
    SensorCount = 2
    DpCount <- MCDpCount
    PollInterval = 1
    Timeout = 2
    MaxRetry = 2
    NoiseBound = 0
    Buses <- MCBuses
INVARIANTS
    TypeOK
    CursorValid
    RetriesBounded
    TimelyBus
    TimelyAnswersMatch
PROPERTIES
    EveryPointPolled
    HealthyPointsRead
