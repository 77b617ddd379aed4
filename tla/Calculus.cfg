SPECIFICATION Spec
CONSTANTS
  MaxInterior = 2
  MaxRequests = 2
  HistoryLimit = 1
INVARIANTS
  TypeOK
  ValueMeansConvergence
  DivergesByTruncation
PROPERTIES
  AnsHasItsRecord
CHECK_DEADLOCK FALSE
