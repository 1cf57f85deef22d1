SPECIFICATION Spec
CONSTANTS
  w1 = w1
  w2 = w2
  c1 = c1
  u1 = u1
  f1 = f1
  f2 = f2
  f3 = f3
  f4 = f4
  None = None
  Worker = {w1}
  Caller = {c1}
  User = {u1}
  Artifact = {f1, f2, f3}
  Lease = 1
  MaxRetries = 1
  MaxClock = 2
  MaxCrashes = 1
  MaxFaults = 1
  MaxRevocations = 0
SYMMETRY Symmetry
INVARIANTS
  OneOwner
CHECK_DEADLOCK FALSE
