SPECIFICATION Spec
CONSTANTS
    a = a
    Issuers = {a}
    Decodable = {a}
    Workers = {w1, w2}
    Items <- Queue
    Proofs <- SubdomainReproved
    BatchSize = 2
    MaxRuns = 1
    MaxFaults = 1
INVARIANTS CompletedIsAnnounced LossesAreFaults
PROPERTIES GateRespectsRevocation
CHECK_DEADLOCK FALSE
