CONSTANTS
  Ids = {o1, o2, o3}
  Prices = {2, 3, 5}
  Quantities = {1, 2}
  Bands = {0, 4, 8}
  WordBits = 2
SPECIFICATION Spec
SYMMETRY Symmetry
INVARIANTS
  ChainsAreQueues
  WalkVisitsEveryLevel
  SlotsAccounted
  FokCheckIsExact
