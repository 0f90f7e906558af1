SPECIFICATION Spec
CONSTANTS
  NBlocks = 5
  CfgSlabs = 3
  MaxLocal = 2
  Window = 4
  CreditDiv = 2
  ImmCap = 4
  CredSlots = 1
  Batch = 2
  Faults = {}
INVARIANT AcquireCanBeWoken
