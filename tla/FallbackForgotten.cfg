SPECIFICATION Spec
CONSTANTS
    Controllers <- MCControllers
    Hardware <- MCHardware
    Interfaces <- MCInterfaces
    CommandInterfaces <- MCCommandInterfaces
    Exporter <- MCExporter
    Uses <- FallbackUses
    Fallbacks <- TeleFallback
    SortedList <- MCSortedList
    Faults = {"read", "update"}
    MaxRequest = 2
PROPERTY
    UsersAreStopped
\* An exception nobody catches ends the process.
CHECK_DEADLOCK FALSE
