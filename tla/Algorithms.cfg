INIT MCInit
NEXT MCNext
CONSTANTS
    Controllers = 4
    TreeControllers = 5
    Nothing = Nothing
    NaN = NaN
    NoValue = NoValue
    Infinity = 1000
    PositionBoundsTolerance = 0
    OutOfBoundsTolerance = 0
    SoftLimitReachVelocity = 1
    NotGiven = NotGiven
    ManagerRates = {7, 10, 20}
    MaxRate = 22
    Period = 4
    Jitter = 1
    OtherKinds = {"velocity"}
    Values = {1, 2}
    NoNumber = NoNumber
    Unreadable = Unreadable
    Null = Null
    NoTransmission = NoTransmission
INVARIANTS
    TreesAreOrdered
    ChainGroupIsWhole
    RangesAreAsDescribed
    NoJointPassesItsMaximum
    GivenIsNominal
    LimitsAreTakenOver
    TransmissionsAreLossless
\* A computation has no next step.
CHECK_DEADLOCK FALSE
