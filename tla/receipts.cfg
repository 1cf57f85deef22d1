SPECIFICATION Spec
CONSTANTS
  r1 = r1
  r2 = r2
  o1 = o1
  l1 = l1
  e1 = e1
  e2 = e2
  Receipt = {r1, r2}
  OrderItem = {o1}
  Lot = {l1}
  Editor = {e1}
  ItemCount = 2
  Ordered = {0, 1, 2}
  Quantity = {0, 1}
SYMMETRY Symmetry
INVARIANTS
  ReceiptTypeOK
  OrderNotExceeded
  StockIsReceived
  PostedWholly
PROPERTIES
  EnteredItemKept
  EntryPromiseKept
CHECK_DEADLOCK FALSE
