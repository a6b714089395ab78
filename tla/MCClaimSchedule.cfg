SPECIFICATION FairSpec
CONSTANTS
  Connectors = {1, 2}
  Limit = 2
  ForcedCaps = {0, 1}
  Window = 2
  HistoryWindow = 2
  MaxQueue = 2
  MaxOutages = 1
INVARIANTS
    SharesKept
PROPERTIES
    LiveNeverBehindForced
    HistoryServed
