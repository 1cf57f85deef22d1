SPECIFICATION Spec
CONSTANTS
  o1 = o1
  m1 = m1
  k1 = k1
  k2 = k2
  x1 = x1
  NoLot = NoLot
  Order = {o1}
  NumLines = 2
  Output = {x1}
  Lot = {k1}
  OrderOf <- SharedOrderOf
  MaterialOf <- SharedMaterialOf
  LotMaterial <- OneLotMaterial
  OutputOrder <- OneOutput
  Formula <- OneMaterialFormula
  Quantity = {0, 1}
  InitialStock <- TwoOfEach
  MaxStock = 2
  Expirable = {1}
  Closable = {x1}
  Withdrawable = {}
INVARIANTS
  TypeOK
  ReservedIsOutstanding
  LedgerConservation
  ReservationBacked
  GenealogyMatchesIssues
  OutputStockedOnce
PROPERTIES
  ReservationPromiseKept
  TerminalRowsFrozen
CHECK_DEADLOCK FALSE
