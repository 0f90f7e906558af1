SPECIFICATION Spec
CONSTANTS
  big = big
  little = little
  scan = scan
  Senders <- MCSenders
  Probes <- MCProbes
  Tries = 1
  Backlog = 1
  MaxDrain = 2
  Pool <- MCPool
  Slab <- HalfSlab
  Total <- MCTotal
  Budget <- MCBudget
  Faults = {}
INVARIANT CarveAlwaysArms
CHECK_DEADLOCK FALSE
