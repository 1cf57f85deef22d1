SPECIFICATION Spec
CONSTANTS
  o1 = o1
  m1 = m1
  k1 = k1
  k2 = k2
  x1 = x1
  NoLot = NoLot
  Order = {o1}
  NumLines = 1
  Output = {}
  Lot = {k1, k2}
  OrderOf <- SingleOrderOf
  MaterialOf <- SingleMaterialOf
  LotMaterial <- TwoLotsOfOneMaterial
  OutputOrder <- NoOutputs
  Formula <- NoFormula
  Quantity = {0, 1, 2}
  InitialStock <- TwoInFirst
  MaxStock = 1
  Expirable = {k1, 1}
  Closable = {k1}
  Withdrawable = {m1, o1}
INVARIANTS
  CancelledHoldsNothing
  SettledWholly
CHECK_DEADLOCK FALSE
