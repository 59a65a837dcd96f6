CONSTANTS
  Producers = {p1}
  Items = {x, y}
  MaxPushes = 5
  Capacity = 2
  SizeModulus = 16
  Destroyed = Destroyed
SPECIFICATION Spec
INVARIANTS
  NoSlotRace
PROPERTIES
  ImplementsFifo
  FullMeansFull
