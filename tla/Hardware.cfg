SPECIFICATION FairSpec
CONSTANTS
    Hardware <- MCHardware
    Sensors <- MCSensors
    Groups = {"arm"}
    GroupOf <- OneGroup
    NoGroup = "none"
    Order <- MCOrder
    ReportDeactivated = TRUE
INVARIANTS
    ConfiguredIsOffered
    FailedReadIsDown
PROPERTIES
    LoopNeverActivates
    GroupErrorSpreads
