CONSTANTS
    NoAuthority = NoAuthority
    Keys <- MCKeys
    Enrolled <- MCEnrolled
    Providers <- MCProviders
    Unloadable = {}
    Requests <- MCRequests
    Plans <- MCPlans
    Policy <- MCPolicy
    MaxEvents = 2
    MaxChanges = 2
SPECIFICATION KeysSpec
CHECK_DEADLOCK FALSE
PROPERTIES
    KeyChangesAreGoverned
    RotationKeepsSigner
