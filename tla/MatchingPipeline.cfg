CONSTANTS
  Producers = {p1, p2}
  MaxPushes = 2
  Capacity = 2
  SizeModulus = 16
  Destroyed = Destroyed
SPECIFICATION FairPipelineSpec
INVARIANTS
  SequencedInAdmissionOrder
  NoSlotRace
PROPERTIES
  ImplementsFifo
  RefusedOnlyIfFullOrRaced
  AdmittedIsProcessed
