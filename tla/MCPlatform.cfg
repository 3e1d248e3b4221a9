CONSTANTS
  LhRuns = {r1, r2}
  LhCleaner = cleaner
  LhNobody = nobody
  LhPatches = {p1, p2}
  LhDiffs <- Diffs
  LhModes = {"SHADOW_WRITE", "AUTO_MERGE_TIER_A"}
  LhPauseAfter = 2
  LhMaxEvents = 2
  CaEmails = {"e1"}
  CaNoEmail = "none"
  CaCodes = {k1, k2}
  CaNoCode = "nocode"
  CaTxns = {"t1"}
  CaNoTxn = "notxn"
  CaRequests = {q1, q2}
  CaMaxDevices = 1
  PvIds = {"i1", "i2"}
  PvNames = {"n1"}
  PvHosts = {"h"}
  PvKeys = {"k"}
  PvModels = {"m1"}
  PvRequests = {"r1", "r2"}
  PvNone = "none"
  PvMaxWrites = 2
  CdMaxTag = 2
  CdGood = {1, 2}
  CdJobs = {j1, j2}
  CdNoJob = "none"
  CdPauseAfter = 2
  CdMaxRollbacks = 1
  CdMaxRuns = 2
  CdMaxFaults = 1
  SrTabs = {"t1"}
  SrNobody = "nobody"
  SrUser = "user"
  SrDocs <- Docs
  SrPermissions = {"default", "auto"}
  SrMaxRuntimes = 2
  SrMaxTurns = 1
  SrMaxEdits = 2
  EvIds = {"m1", "m2"}
  EvValues = {"a", "b"}
  EvExporters = {"x", "y"}
  EvNoFile = nofile
  EvMaxRows = 2
  EvMaxFaults = 1
  XpDeployments <- Deployments
  XpWait = 1
  XpMaxPages = 1
  XpMaxAttempts = 2
  XpMaxPolls = 2
  XpMaxCrashes = 1
  DbLineKinds = {"blank", "h1", "h2", "h3", "dashes", "ticks", "tildes", "item", "indented", "quote", "text"}
  DbTags = {"h1", "h2", "p", "li", "tr", "td", "template", "svg"}
  DbMaxLines = 4
  DbMaxTokens = 5
  DbMaxPages = 3
  DbEnough = 2
SPECIFICATION PlatformSpec
SYMMETRY Symmetry
INVARIANTS
  PlatformTypeOK
  LhRequestsHold
  CaAdmission
  PvProvidersHold
  CdReleaseHolds
  SrOneConversation
  EvidenceHolds
CHECK_DEADLOCK FALSE
