SPECIFICATION MCSpec
CONSTANT IsSensor = FALSE
INVARIANTS
    ControllerIsIdle
    DriverHasOneCaller
    StoppedByFreshFailures
PROPERTY
    FailingAreStopped
