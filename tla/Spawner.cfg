SPECIFICATION FairSpec
CONSTANTS
    Controllers = {"c1", "c2"}
    Clients = {"s1", "s2"}
    Programs <- MCPrograms
    MaxAttempts = 2
    MaxRetries = 2
INVARIANTS
    OnlyOutsidersMeddle
    SeenIsCurrent
PROPERTY
    SuccessMeansDone
    EveryClientEnds
\* The clients end.
CHECK_DEADLOCK FALSE
