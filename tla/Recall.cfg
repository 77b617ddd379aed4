SPECIFICATION Spec
CONSTANTS
  LastColumn = 0
  LastRow = 0
  MaxLayers = 1
  MaxLines = 1
  SheetTools = {"Copy cell"}
  Tokens = {"2"}
  EngineerKeys = {}
  Modes = {"Calculate", "Complex"}
  InitialHistories <- MCIntegrals
  HistoryLimit = 1
  DocumentLimit = 1
  MaxUndo = 1
  MaxEffort = 2
PROPERTIES
  UpRestoresTheWholeInput
CHECK_DEADLOCK FALSE
