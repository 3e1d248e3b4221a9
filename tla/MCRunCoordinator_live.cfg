CONSTANTS
  r1 = r1
  p1 = p1
  p2 = p2
  p3 = p3
  c1 = c1
  Runs = {r1}
  Owners = {p1, p2, p3}
  Calls = {c1}
  NoRun = NoRun
  Overlap = FALSE
  StreamEnds = {"completed"}
  MaxEvents = 3
  MaxTokens = 2
  MaxFaults = 0
SPECIFICATION FairSpec
PROPERTIES
  RunsSettle
CHECK_DEADLOCK FALSE
