CONSTANTS
  Instruments = {i1}
  OrderIds = {1, 2}
  Prices = {1, 2}
  Quantities = {1, 2}
  Undecodable = Undecodable
  NoSnapshot = NoSnapshot
  DamagedSnapshot = DamagedSnapshot
  QueueCapacity = 1
  MaxBatch = 2
  MaxEvents = 3
  MaxArrivals = 2
SPECIFICATION FairSpec
INVARIANTS
  HolesAreCounted
  QuietMeansMirrored
PROPERTIES
  QueuedIsSent
