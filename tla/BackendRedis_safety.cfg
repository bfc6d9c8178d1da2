SPECIFICATION RedisSpec
CONSTANTS
    r1 = r1
    r2 = r2
    r3 = r3
    p1 = p1
    p2 = p2
    q1 = q1
    Scans = {s1, s2}
    Processes <- MCProcesses
    Versions = {1, 2}
    Boundary <- RecordBoundaries
    Revoked = {2}
    ClaimsExpiry = 4
    Skew = 1
    TTL = 2
    TicksPerSecond = 2
    MaxTime = 5
    Requests <- MCRequests
    Servers <- MCServers
    Limit = 2
    Window = 2
    Second = 2
    Delay = 2
    MaxLimiterTime = 5
    Replicas = {m1}
    Envelopes = {e1}
    Rooted = {e1}
    Minute = 2
    SpikeWindow = 2
    Baseline = 4
    Ratio = 3
    MinScans = 2
    VerdictTTL = 2
    CandidateLimit = 1
    AlertLimit = 1
    MaxScanTime = 5
    MaxPass = 1
    MaxScans = 3
SYMMETRY Symmetry
INVARIANTS RevokedNeverAllowed OverrunIsBounded BudgetHolds RetryAfterSuffices FloodIsAlerted
