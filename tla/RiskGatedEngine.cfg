CONSTANTS
  Accounts = {a1, a2}
  ClientIds = {c1, c2}
  Instruments = {i1}
  UnknownInstrument = i0
  Prices = {1, 2}
  Quantities = {1, 2, 3}
  MaxOrderId = 4
  FreshReplaceIds = TRUE
  SeedCash = 4
  SeedPosition = 2
  MaxOrderQuantity = 2
SPECIFICATION Spec
SYMMETRY Symmetry
INVARIANTS
  DirectoryMatchesBook
  TimePriority
  BookNeverCrossed
  FokFillsCompletely
  HoldsMirrorOrders
  ReservedIsHeld
  NeverOverdrawn
  FundsConserved
