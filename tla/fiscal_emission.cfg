SPECIFICATION Spec
CONSTANTS
  d1 = d1
  d2 = d2
  p1 = p1
  p2 = p2
  e1 = e1
  m1 = m1
  m2 = m2
  Document = {d1}
  Process = {p1, p2}
  Editor = {e1}
  Mail = {m1, m2}
SYMMETRY Symmetry
INVARIANTS
  EmissionTypeOK
  RecordIsBacked
  MailCarriesInvoice
PROPERTIES
  RecordStands
CHECK_DEADLOCK FALSE
