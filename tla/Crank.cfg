CONSTANTS
  MaxStars = 2
  Capacity = 2
  MaxPushes = 2
  MaxErrors = 1
SPECIFICATION Spec
INVARIANTS
  NoWakeLost
  SendsInTurn
PROPERTIES
  DrawnSettles
  CurrentStarMovesOn
CHECK_DEADLOCK FALSE
