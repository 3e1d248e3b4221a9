CONSTANTS
  i1 = i1
  i2 = i2
  j1 = j1
  j2 = j2
  k1 = k1
  w1 = w1
  w2 = w2
  Items = {i1, i2}
  Jobs = {j1, j2}
  Keys = {k1}
  Workers = {w1, w2}
  JobOf <- JobOfItem
  KeyOf <- KeyOfItem
  Deletions = {}
  Nobody = Nobody
  MaxAttempts = 1
  MaxPolls = 0
  MaxStalls = 1
  MaxRetries = 0
  q1 = q1
  q2 = q2
  a = a
  b = b
  a1 = a1
  a2 = a2
  Paths = {q1, q2}
  Revisions = {a, b}
  None = None
  Scopes <- RootAndDirectory
  Scanners = {s1}
  MaxEdits = 1
  MaxPlans = 2
  Sources = {"s1"}
  SourceRevs = {1, 2}
  TrustedSources = {"s1"}
  Actors = {a1, a2}
  NoActor = none
  MaxRequests = 2
  MaxFaults = 1
  KvPages = {1, 2}
  KvKind <- ViewKinds
  KvTexts <- ViewTexts
  KvLearningPage = 2
  KvLearningText <- ViewLearning
  KvBudget = 2
  KvTopK = 2
  KvGoals <- UserGoals
  KvMaxRevs = 2
  KvMaxFaults = 1
  KvMaxRequests = 2
  SpReviewers = {"r1", "r2"}
  SpContents = {"c1", "c2"}
  SpMaxRev = 5
  SpMaxFaults = 2
SPECIFICATION KnowledgeSpec
SYMMETRY Symmetry
INVARIANTS
  KnowledgeTypeOK
  IngestHolds
  SyncHolds
  KbStoreHolds
  KvViewsHold
  SpApprovedIsBacked
PROPERTIES
  CommitsHold
  KbUpdatesSurvive
CHECK_DEADLOCK FALSE
