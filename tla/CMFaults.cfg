SPECIFICATION Spec
CONSTANTS
    Controllers <- MCControllers
    Hardware <- MCHardware
    Interfaces <- MCInterfaces
    CommandInterfaces <- MCCommandInterfaces
    Exporter <- MCExporter
    Uses <- ChainUses
    Fallbacks <- TeleFallback
    SortedList <- MCSortedList
    Faults = {"configure", "cleanup", "activate", "read", "write", "update"}
    MaxRequest = 2
INVARIANTS
    HardwareClaims
    OnlyActiveHold
PROPERTIES
    StrictIsAtomic
    UsersAreStopped
\* An exception nobody catches ends the process.
CHECK_DEADLOCK FALSE
