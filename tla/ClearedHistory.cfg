SPECIFICATION Spec
CONSTANTS
  Operations = {1, 2}
  HistoryLimit = 2
  MaxParts = 1
  None = None
INVARIANT ClearedHistoryStaysCleared
CHECK_DEADLOCK FALSE
