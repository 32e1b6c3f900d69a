SPECIFICATION Spec
CONSTANTS
    Controllers <- LongControllers
    Hardware <- MCHardware
    Interfaces <- LongInterfaces
    CommandInterfaces <- LongCommandInterfaces
    Exporter <- LongExporter
    Uses <- LongUses
    Fallbacks <- LongNoFallbacks
    SortedList <- LongSortedList
    Faults = {"read", "write", "activate", "update"}
    MaxRequest = 2
PROPERTIES
    ActivatedAreFollowed
    StoppedAreUnused
    FollowersAreChained
\* An exception nobody catches ends the process.
CHECK_DEADLOCK FALSE
