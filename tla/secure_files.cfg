SPECIFICATION Spec
CONSTANTS
  f1 = f1
  f2 = f2
  f3 = f3
  l1 = l1
  r1 = r1
  r2 = r2
  File = {f1, f2, f3}
  Link = {l1}
  Request = {r1, r2}
  MaxUses = 2
SYMMETRY Symmetry
INVARIANTS
  UsesCounted
PROPERTIES
  LinkPromiseKept
  EndedFilesStay
CHECK_DEADLOCK FALSE
