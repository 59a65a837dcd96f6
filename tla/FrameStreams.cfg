CONSTANTS
  Base = 16
  W16 = 2
  W32 = 2
  W64 = 3
  Messages <- MCMessages
  Foreign <- MCForeign
  Registered <- MCRegistered
  ChunkSize = 4
  MaxFrames = 2
SPECIFICATION Spec
CHECK_DEADLOCK FALSE
INVARIANTS
  ChunksReassemble
  CutFilesReplayToAPrefix
  ParcelsAreAllOrNothing
