\* A grid of two by two; the memory holds two formulas or three constants.
SPECIFICATION MCSpec
CONSTANTS
  Columns = 2
  Rows = 2
  Numbers = {0, 1}
  FormulaBytes = 3
  ValueBytes = 2
  MemoryLimit = 6
  Error = Error
  Inputs <- MCInputs
  Candidates <- MCCandidates
INVARIANTS
  TypeOK
  UnmarkedIsRight
  MarksFitCells
  FitsInMemory
  PassIsRight
PROPERTY RefreshedOnlyByRecalculate
