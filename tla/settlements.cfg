SPECIFICATION Spec
CONSTANTS
  t1 = t1
  t2 = t2
  a1 = a1
  m1 = m1
  Title = {t1, t2}
  Account = {a1}
  Month = {m1}
  RowCount = 3
  Original = {1, 2}
  Amount = {1, 2}
  Charge <- Charges
  Opening = {0, 1}
SYMMETRY Symmetry
INVARIANTS
  SettlementTypeOK
  PaidIsSettled
  AccountLedger
  StatusTellsPaid
PROPERTIES
  PostedHistoryKept
CHECK_DEADLOCK FALSE
