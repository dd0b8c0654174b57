CONSTANTS
  MAX_ATTEMPTS = 3
  UPSTREAM_ATTEMPTS = 3
  MaxRound = 3
SPECIFICATION Spec
INVARIANTS
  OneCanLand
  StakesNeverOverlap
CHECK_DEADLOCK FALSE
