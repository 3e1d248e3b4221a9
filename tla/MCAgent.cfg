CONSTANTS
  CpMinRecent = 1
  CpMaxRecent = 2
  CpIneffectiveLimit = 2
  CpAnchorKeys = {TRUE, FALSE}
  CpMaxItems = 4
  CpMaxAttempts = 3
  CpMaxFaults = 2
  GtCalls = {"c1", "c2", "c4"}
  GtTool <- GraphTool
  GtRiskyTools = {"run_shell", "write_file"}
  GtDirectTools = {"search_web"}
  GtContents = {"small", "big"}
  GtNone = none
  GtMaxBatch = 2
  GtMaxCrashes = 2
  GtMaxFaults = 1
  AuCalls = {"c1", "c2", "c3"}
  AuTool <- AuditTool
  AuArgs <- AuditArgs
  AuValid <- AuditValid
  AuRisky = {"c1"}
  AuPaths = {"p"}
  AuMaxDiffFiles = 1
  AuMaxAttempts = 1
  AuMaxGraphCalls = 2
  AuMaxEdits = 1
  CbTools = {"t1", "t2"}
  CbRisky = {"t2"}
  CbWorkflow = "w"
  CbAlias = "name"
  CbAliased = "t2"
  CbSkills <- Skills
  CbNoSkill = "none"
  CbMaxPromoted = 2
  CbMaxVersion = 1
  CbMaxRuns = 2
  CbMaxSteps = 2
  TsOwners = {"local", "u"}
  TsLocal = "local"
  TsNoOwner = "none"
  TsSkills = {"s1", "s2"}
  TsNoSkill = "noskill"
  TsRefs = {1, 2}
  TsKeep = 2
  TsMaxSkills = 1
  TsMaxRefs = 1
  TsMaxTurns = 3
  TsMaxCalls = 3
  SbCalls = {c1, c2}
  SbKinds = {"local", "container"}
  SbMaxTurns = 2
  SbMaxEdits = 2
  SbMaxFaults = 1
  TeTools = {"read_file", "run_shell", "enter_plan_mode", "exit_plan_mode"}
  TePermissions = {"default", "auto"}
  TeApprovalPolicy = "ask"
  TeMaxSteps = 1
  TeMaxRetries = 1
  TeMaxRepeat = 1
  DgCalls = {"c1", "c2"}
  DgTypes = {"research", "synthesize"}
  DgProfiles <- Profiles
  DgDefaults <- Defaults
  DgLimit <- Limit
  DgMinReserve = 1
  DgConcurrent = 2
  DgTotal = 2
  DgUsages = {1}
  DgReuse = FALSE
  DgMaxRuns = 2
  DgMaxBatch = 2
  DgMaxFaults = 1
  MsScopes = {"s1", "s2"}
  MsCallers = {"a", "b"}
  MsNobody = "nobody"
  MsMaxSessions = 1
  MsMaxOwners = 2
  MsMaxFaults = 1
  PsWords = {"a"}
  PsMaxText = 6
  PsMaxChunk = 2
  PsCap = 4
  PsMaxRuns = 2
  PsNoCitation = bad
  PsCitations <- Citations
  PsMaxCitations = 4
  PsPublic = 3
  PsExcerpts <- ExcerptLimits
  PsRoom = 9
SPECIFICATION AgentSpec
SYMMETRY Symmetry
INVARIANTS
  AgentTypeOK
  TeTurnHolds
  DgRunHolds
  MsSessionsHold
  GraphHolds
  CpProjectionIsWhole
  CbOnlySelected
  TsThreadHolds
  SbSandboxHolds
  AuEvidenceIsTrue
CHECK_DEADLOCK FALSE
