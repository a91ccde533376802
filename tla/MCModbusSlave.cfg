SPECIFICATION FairSpec
CONSTANT MaxRequests = 3
INVARIANTS
    TypeOK
    AppliedInOrder
    AckedApplied
    SpeaksInTurn
PROPERTY WholeRequestAnswered
CHECK_DEADLOCK FALSE
