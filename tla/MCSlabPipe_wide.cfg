SPECIFICATION FairSpec
CONSTANTS
  NBlocks = 8
  CfgSlabs = 2
  MaxLocal = 4
  Window = 5
  CreditDiv = 2
  ImmCap = 5
  CredSlots = 2
  Batch = 2
  Faults = {}
INVARIANT NoFillOfSlabInFlight
INVARIANT OneWriteInFlight
INVARIANT ImmediatesFitWindow
PROPERTY CreditOnlyGrows
PROPERTY BothReturn
