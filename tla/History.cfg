CONSTANTS
  Indexers = {i1, i2}
  Listeners = {i1}
  PAGE = 1
  MAX_PAGES = 1
  LIMIT = 1
  Traffic = {"settle", "close"}
  MaxOld = 3
  MaxTxs = 3
  MaxFaults = 1
SPECIFICATION Spec
INVARIANTS
  CursorIsHonest
PROPERTIES
  HistoryCompletes
  CloseGetsLinked
CHECK_DEADLOCK FALSE
