SPECIFICATION FairSpec
CONSTANTS
    Publications <- Lifecycle
    Genesis <- Manifests
    Filters <- Authorizations
    MaxPublished = 3
    NoRow = NoRow
    NoArtifact = NoArtifact
    MaxDeliver = 2
    MaxFaults = 2
INVARIANTS AuthorityConverges RevocationWins ExpiryCovered
PROPERTIES EveryMessageSettles
CHECK_DEADLOCK FALSE
