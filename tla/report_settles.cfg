SPECIFICATION FairSpec
CONSTANTS
  w1 = w1
  w2 = w2
  c1 = c1
  u1 = u1
  f1 = f1
  f2 = f2
  f3 = f3
  f4 = f4
  None = None
  Worker = {w1}
  Caller = {}
  User = {}
  Artifact = {f1, f2, f3, f4}
  Lease = 1
  MaxRetries = 3
  MaxClock = 7
  MaxCrashes = 1
  MaxFaults = 2
  MaxRevocations = 0
PROPERTIES
  Settles
CHECK_DEADLOCK FALSE
