SPECIFICATION Spec
CONSTANTS
  w1 = w1
  w2 = w2
  c1 = c1
  u1 = u1
  f1 = f1
  f2 = f2
  f3 = f3
  f4 = f4
  None = None
  Worker = {w1, w2}
  Caller = {}
  User = {u1}
  Artifact = {f1, f2, f3}
  Lease = 1
  MaxRetries = 2
  MaxClock = 3
  MaxCrashes = 1
  MaxFaults = 2
  MaxRevocations = 1
SYMMETRY Symmetry
INVARIANTS
  ReportTypeOK
  LiveArtifactLinked
  DeletedHasNoBlob
PROPERTIES
  PromiseKept
CHECK_DEADLOCK FALSE
