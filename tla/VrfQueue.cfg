CONSTANTS
  Contributions = {c1}
  Crankers = {w1}
  Answers = {zero, a1}
  Zero = zero
  MaxStars = 2
  MaxPushes = 2
  MaxSlot = 3
  QUEUE_ITEMS = 2
  SLOT_HASH_LOOKBACK = 2
  ROUND_EXPIRY_SLOTS = 2
SPECIFICATION Spec
INVARIANTS
  RequestsMatchRounds
  SeedsNeverRepeat
PROPERTIES
  ServesRounds
  DrawsAreAnswers
CHECK_DEADLOCK FALSE
