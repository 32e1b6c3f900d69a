SPECIFICATION FairSpecRunning
CONSTANTS
    Controllers = {"c1", "c2"}
    RTMayLock = TRUE
INVARIANTS
    SafelyModified
PROPERTIES
    ImplementsSnapshots
    SwitchReturnsOrMeets
\* After a shutdown both threads stop.
CHECK_DEADLOCK FALSE
