CONSTANTS
  i1 = i1
  Instruments = {i1}
  OrderIds = {1, 2}
  Prices = {1, 2}
  Quantities = {1, 2}
  Undecodable = Undecodable
  NoSnapshot = NoSnapshot
  DamagedSnapshot = DamagedSnapshot
  Feeds <- MCFeeds
  BatchSize = 2
  QueueCapacity = 2
  MaxArrivals = 3
  MaxSessions = 2
SPECIFICATION FairSpec
INVARIANTS
  TrustedBookIsExact
PROPERTIES
  SessionsEnd
