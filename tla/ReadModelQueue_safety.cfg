SPECIFICATION FairQueueSpec
CONSTANTS
    Artifacts <- Withdrawals
    Genesis <- FullChain
    Items <- TwoItems
    Undecodable = {2}
    Workers = {w1, w2}
    BatchSize = 1
    AuthorizationEnabled = TRUE
    NoArtifact = NoArtifact
    NoEntry = NoEntry
    MaxPublications = 2
    MaxQueueFaults = 1
PROPERTIES RowIsNoOlderThanClaim EveryItemSettles
CHECK_DEADLOCK FALSE
