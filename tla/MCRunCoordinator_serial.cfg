CONSTANTS
  r1 = r1
  r2 = r2
  p1 = p1
  p2 = p2
  c1 = c1
  Runs = {r1, r2}
  Owners = {p1, p2}
  Calls = {c1}
  NoRun = NoRun
  Overlap = FALSE
  StreamEnds = {"completed"}
  MaxEvents = 3
  MaxTokens = 3
  MaxFaults = 1
SPECIFICATION Spec
SYMMETRY Symmetry
INVARIANTS
  OneOpenRun
PROPERTIES
  RecoveryKeepsApprovals
  JournalSpec
CHECK_DEADLOCK FALSE
