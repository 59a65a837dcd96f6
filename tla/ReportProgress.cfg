CONSTANTS
  Producers = {"matching", "io"}
  Items = {c1, c2}
  MaxPushes = 0
  Capacity = 1
  SizeModulus = 16
  Destroyed = Destroyed
  OutboundCapacity = 1
  WriterBatch = 2
  Failing = {}
  MaxEvents = 2
  MaxFrames = 1
  Workloads = {{"matching"}, {"io"}}
SPECIFICATION FairWriterSpec
PROPERTIES
  ReportsAreWritten
