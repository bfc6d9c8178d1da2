SPECIFICATION FairSpec
CONSTANTS
  MaxClicks = 3
  MaxMounts = 2
  Scenarios = {"valid", "expired"}
  Linked = {"expired"}
  Picks <- MCPicks
  Offered = {"authority-setup", "issuer-status"}
INVARIANTS
  OpenedWasAllowed
  RecordedWorkflowIsWhole
PROPERTIES
  EveryBusyEnds
CHECK_DEADLOCK FALSE
