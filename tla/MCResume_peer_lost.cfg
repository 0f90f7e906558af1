SPECIFICATION Spec
CONSTANTS
  Absent = Absent
  NFiles = 2
  Size <- Sizes32
  Lengths <- NoChange
  Kinds = {"peer"}
  Paths <- AllPaths
  FinPath <- Fin
  PartPath <- Part
  SlabLen = 2
  QueueCap = 2
  MaxInterrupts = 1
  MaxSessions = 2
INVARIANT FinalIsComplete
