SPECIFICATION FairSpec
CONSTANTS
  client = client
  server = server
  VERSION = 2
  StrMod = 4
  MaxEntries = 2
  Jobs <- MCJobs
  Blocks = 3
  Window = 2
  NRecv <- MCNRecv
  CTL_PAY = 4
  CTL_MAX = 13
  ImmCap = 2
  Batch = 3
INVARIANT TypeOK
INVARIANT NoCallFails
INVARIANT SlotsConserved
INVARIANT ReadsBack
INVARIANT BothToldOfVersions
PROPERTY QueuesSpec
PROPERTY PlansFinish
CHECK_DEADLOCK FALSE
