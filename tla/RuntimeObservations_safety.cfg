SPECIFICATION FairRuntimeSpec
CONSTANTS
    Events <- SmallEvents
    Late <- SmallLate
    Allowlists <- SmallAllowlists
    Configurations <- SmallConfigurations
    MaxRuntimeDeliver = 3
    LookbackSeconds = 1
    HostLimit = 1
    MaxTime = 3
    MaxRuntimeFaults = 2
    MaxChanges = 1
PROPERTIES OnlyAuthorizedSubjects ObservationLands
CHECK_DEADLOCK FALSE
