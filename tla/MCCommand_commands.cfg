SPECIFICATION FairSpec
CONSTANTS
  Ifaces <- MCIfaces
  AddrMod = 256
  MaxHosts = 8
  Threads <- MCThreads
  Steady <- MCSteady
  NameOf <- MCNames
  Tasks <- MCTasks
  Tree <- MCTree
  InputLists <- MCInputLists
  Lossy <- MCLossy
  MAX_FILES = 4
  MAX_DEPTH = 1
  MaxMishaps = 1
  Contents <- MCContents
INVARIANTS TypeOK ScanIsComplete ListIsExact NamesLandApart ChecksumIsRight
PROPERTY CommandEnds
CHECK_DEADLOCK FALSE
