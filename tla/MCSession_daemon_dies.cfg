SPECIFICATION Spec
CONSTANTS
  big = big
  little = little
  scan = scan
  Senders <- MCSenders
  Probes <- MCProbes
  Tries = 1
  Backlog = 1
  MaxDrain = 2
  Pool <- MCPool
  Slab <- NoOverride
  Total <- MCTotal
  Budget <- MCBudget
  Faults = {}
INVARIANT DaemonSurvives
CHECK_DEADLOCK FALSE
