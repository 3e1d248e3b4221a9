CONSTANTS
  i1 = i1
  i2 = i2
  i3 = i3
  j1 = j1
  j2 = j2
  k1 = k1
  k2 = k2
  w1 = w1
  w2 = w2
  Items = {i2, i3}
  Jobs = {j2}
  Keys = {k1, k2}
  Workers = {w1}
  JobOf <- JobOfItem
  KeyOf <- KeyOfItem
  Deletions = {i3}
  Nobody = Nobody
  MaxAttempts = 2
  MaxPolls = 1
  MaxStalls = 1
  MaxRetries = 1
SPECIFICATION FairSpec
PROPERTIES
  CancelCompletes
CHECK_DEADLOCK FALSE
