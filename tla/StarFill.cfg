CONSTANTS
  PUSH_STEP = 5000
  FEED_MASS = 500000
  HOLE_MASS = 10500000
  BPS = 5000
  PROTOCOL_BPS = 157
  Ppb = 1000
  Signed <- MCSigned
  Gifts <- MCGifts
  StageMins <- MCStageMins
  StageMults <- MCStageMults
  StardustAt = 500
SPECIFICATION Spec
INVARIANTS
  PotIsExactShare
  OddsAreFair
  StardustTapers
PROPERTIES
  FillsStopAtBoundaries
CHECK_DEADLOCK FALSE
