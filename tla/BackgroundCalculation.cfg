\* Three calculations and two entries of history: a commit, a window action and
\* a trim can meet in one behaviour.
SPECIFICATION Spec
CONSTANTS
  Operations = {1, 2, 3}
  HistoryLimit = 2
  MaxParts = 2
  None = None
INVARIANTS
  TypeOK
  OnlySuccessesRecorded
  HistoryInOrder
  LockFollowsController
  ClearedMessageIsTrue
  OnlyWindowsDisturb
CHECK_DEADLOCK FALSE
