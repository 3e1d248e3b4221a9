CONSTANTS
  PageSize = 2
  QueueSize = 2
  MaxHigh = 4
  MaxDrops = 1
  MpProposals = {p1, p2}
  MpContents = {c1, c2}
  MpUser = user
  MpMaxFaults = 2
  MpMaxLines = 1
  TeTools = {"read_file", "run_shell"}
  TePermissions = {"default", "auto"}
  TeApprovalPolicy = "ask"
  TeMaxSteps = 1
  TeMaxRetries = 1
  TeMaxRepeat = 1
  DgCalls = {"c1", "c2"}
  DgTypes = {"research", "synthesize"}
  DgProfiles <- Profiles
  DgDefaults <- Defaults
  DgLimit <- Limit
  DgMinReserve = 1
  DgConcurrent = 2
  DgTotal = 2
  DgUsages = {1}
  DgReuse = FALSE
  DgMaxRuns = 2
  DgMaxBatch = 2
  DgMaxFaults = 0
  WdCooldown = 2
  WdMaxFaults = 3
  MsScopes = {"s1"}
  MsCallers = {"a", "b"}
  MsNobody = "nobody"
  MsMaxSessions = 1
  MsMaxOwners = 2
  MsMaxFaults = 1
SPECIFICATION LiveSpec
INVARIANTS
  LiveHolds
  InOrder
PROPERTIES
  ImplementsDelivery
  MpImplementsDecision
  TurnsEnd
  WdRecoveryAnnounced
CHECK_DEADLOCK FALSE
