SPECIFICATION Spec
CONSTANTS
  LastColumn = 1
  LastRow = 0
  MaxLayers = 1
  MaxLines = 2
  SheetTools = {"Copy cell", "Edit cell", "Insert reference"}
  Tokens = {"2", "M"}
  EngineerKeys = {"M"}
  Modes = {"Calculate", "Complex", "BaseN", "Matrix", "Vector", "Statistics", "Distribution", "Spreadsheet", "Table", "Equation", "Inequality", "Ratio"}
  InitialHistories <- MCHistories
  HistoryLimit = 3
  DocumentLimit = 1
  MaxUndo = 1
  MaxEffort = 3
INVARIANTS
  TypeOK
  CallbackMeetsItsTemplate
  SubmittedMeansTyped
  DocumentsMatchTheirLines
  KeysHaveOneOwner
  SlotFollowsIndex
PROPERTIES
  UpKeepsItsPromise
  SolvedSystemsAreComplete
CHECK_DEADLOCK FALSE
