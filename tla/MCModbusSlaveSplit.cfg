SPECIFICATION FairSpec
CONSTANT MaxRequests = 1
PROPERTY EveryRequestAnswered
CHECK_DEADLOCK FALSE
