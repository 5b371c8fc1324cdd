\* Two pages, faults anywhere.
CONSTANTS
  p1 = p1
  p2 = p2
  Absent = Absent
  Products = {p1, p2}
  Existing <- MCExisting
  Categories = {}
  Pages <- MCPages
  MaxRequests = 3
  Faults = TRUE
SPECIFICATION Spec
CHECK_DEADLOCK FALSE
INVARIANTS
  TypeOK
  TotalCoversPage
  StaleOnlyIfLate
PROPERTIES
  ImplementsProductReads
