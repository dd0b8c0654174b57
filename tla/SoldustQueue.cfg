CONSTANTS
  Players = {p1, p2}
  Seeds = {c1, c2}
  NoPlayer = NoPlayer
  MaxStars = 1
  MaxPushes = 4
  FEED_MASS = 8
  HOLE_MASS = 20
  PUSH_STEP = 4
  BPS = 4
  PROTOCOL_BPS = 1
  ROUND_WINDOW_SLOTS = 1
  ROUND_TARGET_MEMBERS = 2
  ROUND_EXPIRY_SLOTS = 2
  NURSERY_STALL_SECS = 1
  STALL_SECS = 2
  VRF_REQUEST_FEE = 2
  Outlays = {2}
  DRAW_FLOAT_FLOOR = 3
  RENT = 1
  PREFUND = 0
  MaxAccrued = 6
  PushAmounts = {4, 6, 8, 24}
  FundAmounts = {}
  WithdrawAmounts = {}
SPECIFICATION Spec
SYMMETRY Symmetry
INVARIANTS
  TypeOK
  OnLattice
  CommittedWithinHole
  EscrowBacked
  QueueIsLine
  HeadNeverWedges
  SettleNeverClips
  RoundsAreRanges
  StakeIsMembers
  CurrentRoundJoinable
  NothingLandsAfterKill
  ClaimsNeverBlocked
PROPERTIES
  ImplementsRounds
CHECK_DEADLOCK FALSE
