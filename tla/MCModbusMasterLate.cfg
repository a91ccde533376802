SPECIFICATION Spec
CONSTANTS
    SensorCount = 2
    DpCount <- MCDpCount
    PollInterval = 1
    Timeout = 2
    MaxRetry = 2
    NoiseBound = 0
    Buses <- MCBuses
INVARIANT
    AnswersMatchRequests
