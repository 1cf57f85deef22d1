SPECIFICATION Spec
CONSTANTS
  p1 = p1
  p2 = p2
  b1 = b1
  b2 = b2
  a1 = a1
  a2 = a2
  Process = {p1}
  Block = {b1}
  Targets <- OnLot
  Address = {a1, a2}
  Kinds = {"review", "sample", "document", "investigation", "block"}
  Editable = {"release", "lot", "sample"}
SYMMETRY Symmetry
INVARIANTS
  DispositionTypeOK
  DispositionOfStock
  DispositionAgrees
  ApprovedByRelease
CHECK_DEADLOCK FALSE
