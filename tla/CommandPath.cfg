SPECIFICATION CommandPathSpec
CONSTANTS
    NaN = NaN
    NoValue = NoValue
    Infinity = 99
    PositionBoundsTolerance = 0
    OutOfBoundsTolerance = 1
    SoftLimitReachVelocity = 1
    Setups <- MCSetups
    MaxTries = 2
    JointEnd = 3
INVARIANTS
    PositionIsInLimits
PROPERTIES
    CheckedVelocityStaysInside
    CheckedStepIsBounded
    TargetIsReached
\* An exception of a limiter ends the loop.
CHECK_DEADLOCK FALSE
