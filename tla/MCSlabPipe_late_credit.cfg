SPECIFICATION Spec
CONSTANTS
  NBlocks = 4
  CfgSlabs = 2
  MaxLocal = 4
  Window = 4
  CreditDiv = 2
  ImmCap = 4
  CredSlots = 1
  Batch = 2
  Faults = {}
INVARIANT SenderMayFinishFirst
