SPECIFICATION FairSpec
CONSTANTS
  NBlocks = 6
  CfgSlabs = 2
  MaxLocal = 4
  Window = 4
  CreditDiv = 2
  ImmCap = 2
  CredSlots = 1
  Batch = 2
  Faults = {"read", "disk", "link", "idle"}
INVARIANT IInv
INVARIANT DiskIsPrefix
INVARIANT NoWriteIntoBusySlab
INVARIANT AcquireCanBeWoken
INVARIANT SuccessIsComplete
PROPERTY StreamSpec
PROPERTY ReceiverReturns
CHECK_DEADLOCK FALSE
