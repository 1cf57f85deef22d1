SPECIFICATION Spec
CONSTANTS
  p1 = p1
  p2 = p2
  b1 = b1
  b2 = b2
  a1 = a1
  a2 = a2
  Process = {p1, p2}
  Block = {b1, b2}
  Targets <- Meeting
  Address = {a1}
  Kinds = {"block"}
  Editable = {"release", "lot", "product", b1}
SYMMETRY Symmetry
INVARIANTS
  BlockTakesHold
PROPERTIES
  FinalStockKept
CHECK_DEADLOCK FALSE
