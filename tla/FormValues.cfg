SPECIFICATION Spec
CONSTANTS
  LastColumn = 0
  LastRow = 0
  MaxLayers = 1
  MaxLines = 1
  SheetTools = {"Copy cell"}
  Tokens = {"2"}
  EngineerKeys = {}
  Modes = {"Calculate", "Ratio"}
  InitialHistories <- MCNoHistory
  HistoryLimit = 1
  DocumentLimit = 1
  MaxUndo = 1
  MaxEffort = 3
PROPERTIES
  FormRunsOnWhatItShows
CHECK_DEADLOCK FALSE
