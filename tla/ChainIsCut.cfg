SPECIFICATION Spec
CONSTANTS
    Controllers <- LongControllers
    Hardware <- MCHardware
    Interfaces <- LongInterfaces
    CommandInterfaces <- LongCommandInterfaces
    Exporter <- LongExporter
    Uses <- LongUses
    Fallbacks <- LongNoFallbacks
    SortedList <- LongSortedList
    Faults = {}
    MaxRequest = 2
INVARIANT
    ChainsAreWhole
\* An exception nobody catches ends the process.
CHECK_DEADLOCK FALSE
