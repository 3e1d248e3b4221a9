CONSTANTS
  i1 = i1
  i2 = i2
  i3 = i3
  j1 = j1
  j2 = j2
  k1 = k1
  k2 = k2
  w1 = w1
  w2 = w2
  Items = {i1, i2}
  Jobs = {j1, j2}
  Keys = {k1}
  Workers = {w1}
  JobOf <- JobOfItem
  KeyOf <- KeyOfItem
  Deletions = {}
  Nobody = Nobody
  MaxAttempts = 2
  MaxPolls = 1
  MaxStalls = 1
  MaxRetries = 1
SPECIFICATION FairSpec
PROPERTIES
  ItemsSettle
CHECK_DEADLOCK FALSE
