SPECIFICATION CacheSpec
CONSTANTS
    p1 = p1
    p2 = p2
    s1 = s1
    NoHost = NoHost
    NoUrl = NoUrl
    NoRow = NoRow
    BadHops = BadHops
    Policies <- MCPolicies
    Scans <- OneScan
    RowValues <- MCRowValues
    Urls <- MCUrls
    Hints <- MCHints
    AcceptedRoots = {"root"}
    Providers = {"clear", "deterministic", "composite"}
    Lists <- MCLists
    Tlds <- MCTlds
    MaxTime = 2
    MaxWrites = 2
    MaxFaults = 1
    Keys <- SharedStore
    Hosts = {"h"}
    IssuerRecords <- ShortAndLong
    PolicyRecords <- OneHost
    Tiers = {1, 2}
    ReaderRoots = {"r1", "r2"}
    None = None
    MaxOps = 6
INVARIANTS GreenWasAuthorized ExpiredHidesNoFreshRow PostgresWithinMemory RevokedAuthorityStaysOut
CHECK_DEADLOCK FALSE
