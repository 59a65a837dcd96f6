CONSTANTS
  Producers = {"matching", "io"}
  Items = {c1, c2}
  MaxPushes = 0
  Capacity = 2
  SizeModulus = 16
  Destroyed = Destroyed
  OutboundCapacity = 2
  WriterBatch = 2
  Failing = {c2}
  MaxEvents = 2
  MaxFrames = 1
  Workloads = {{"matching"}, {"io"}}
SPECIFICATION WriterSpec
INVARIANTS
  NoStrandedReport
