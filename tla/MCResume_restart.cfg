SPECIFICATION FairSpec
CONSTANTS
  Absent = Absent
  NFiles = 3
  Size <- Sizes302
  Lengths <- Changes
  Kinds = {"crash", "disk", "peer", "source"}
  Paths <- AllPaths
  FinPath <- Fin
  PartPath <- Part
  SlabLen = 2
  QueueCap = 1
  MaxInterrupts = 2
  MaxSessions = 3
INVARIANT TypeOK
INVARIANT FinalIsCompleteUnlessLost
INVARIANT VerifiedIsRight
PROPERTY ResumePointNeverShrinks
PROPERTY EventuallyComplete
