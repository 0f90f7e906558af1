SPECIFICATION FairSpec
CONSTANTS
  big = big
  little = little
  scan = scan
  Senders <- MCSenders
  Probes <- MCProbes
  Tries = 2
  Backlog = 1
  MaxDrain = 2
  Pool <- MCPool
  Slab <- BigSlab
  Total <- MCTotal
  Budget <- MCBudget
  Faults = {"pool", "verbs", "die", "stall", "disk"}
INVARIANT TypeOK LayoutAgreed
PROPERTY SetUpEnds ServesAgain
CHECK_DEADLOCK FALSE
