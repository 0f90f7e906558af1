SPECIFICATION FairSpec
CONSTANTS
  Lists <- MCLists
  MAX_POOL <- MCMaxPool
  DEFAULT_AVAIL <- MCAvail
  Argv = TRUE
  Limits <- MCLimits
  Desktops <- MCDesktops
  Avail <- MCAvail
  RemotePool <- MCRemotePool
  Total <- MCTotal
  Slabs = 16
  ChanCap = 1
  MaxServes = 1
  MaxActs = 2
INVARIANT TypeOK SelectionInRange IncomingIsCurrent MemlockIsShared
CHECK_DEADLOCK FALSE
PROPERTY EverythingIsShown
