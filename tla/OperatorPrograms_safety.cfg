SPECIFICATION ProgramsSpec
CONSTANTS
    ControlCount = 2
    RequirementDocs <- MCRequirements
    IndexDocs <- MCIndexes
    PacketDocs <- MCPackets
    SettingDocs <- MCSettings
    ClaimDocs <- MCClaims
    ReviewStart <- MCReviewStart
    MaxReviewEdits = 2
    ProfileDocs <- MCProfiles
    FleetDocs <- MCFleets
    ProviderDocs <- MCProviders
    ReleaseStart <- MCReleaseStart
    FileDocs <- MCFileDocs
    FirstFiles <- MCFiles
    Policy <- MCPolicy
    Times <- MCTimes
    MaxReleaseEdits = 1
    MaxRuns = 2
    Appliers = {a1, a2}
    Gates = {g}
    Releases <- MCReleases
    DirectReleases <- MCDirect
    Ids = {1, 2}
    Checksums = {"c1", "c1x", "c2"}
    Tables = {"issuers", "keys"}
    MaxFaults = 2
INVARIANTS ReadyHandoffIsProduction LedgerIsHistory VerdictIsCurrent CompleteTraceSpeaksForItsRow
PROPERTIES AcceptedIsBacked
CHECK_DEADLOCK FALSE
