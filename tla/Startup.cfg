SPECIFICATION FairStartup
CONSTANTS
    Hardware <- MCHardware
    Sensors <- MCSensors
    Groups = {"robot"}
    GroupOf <- MCGroupOf
    NoGroup = "none"
    Order <- MCOrder
    ReportDeactivated = TRUE
    Settings <- MCSettings
    HandleExceptions = TRUE
    MaxDescriptions = 2
INVARIANTS
    ServicesHaveAllHardware
    ShutDownIsFinal
PROPERTIES
    GroupComesUpWhole
    StartupEnds
\* After the start-up, or a shutdown, nothing is left to do.
CHECK_DEADLOCK FALSE
