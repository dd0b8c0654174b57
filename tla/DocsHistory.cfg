CONSTANTS
  Indexers = {i1, i2}
  Listeners = {}
  PAGE = 2
  MAX_PAGES = 1
  LIMIT = 1
  Traffic = {"hit"}
  MaxOld = 4
  MaxTxs = 4
  MaxFaults = 0
SPECIFICATION Spec
INVARIANTS
  LiveHistoryComplete
CHECK_DEADLOCK FALSE
