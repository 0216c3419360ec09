\* A profile of two origins of which only the most recent is injected.
SPECIFICATION CaptureSpec
CONSTANTS
  Tabs = {t1, t2}
  Sites = {a, b}
  Blank = Blank
  StoredSites = {a, b}
  EagerLimit = 1
  MaxOrigins = 2
  HardCap = 4
  MaxWrites = 1
  MaxMoves = 1
  MaxFaults = 1
INVARIANT
  NothingStoredIsLost
CHECK_DEADLOCK FALSE
