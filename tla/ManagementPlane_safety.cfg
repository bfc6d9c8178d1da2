SPECIFICATION FairMutationSpec
CONSTANTS
    Clients = {c1, c2}
    NoClient = NoClient
    Keys = {k1, k2}
    NoKey = NoKey
    RequestIds = {i1, i2, i3, i4}
    Values = {v1}
    Absent = Absent
    FreshIds = TRUE
    KeyRequired = FALSE
    MaxCommits = 2
    MaxExpiries = 1
    MaxFaults = 1
INVARIANTS AppliedOnce EveryChangeAnnounced
PROPERTIES EveryRequestAnswered
CHECK_DEADLOCK FALSE
