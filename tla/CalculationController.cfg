\* Two operations, kill on the second cleanup turn, give up after the fourth.
SPECIFICATION FairSpec
CONSTANTS
  MaxOperationId = 2
  KillAfter = 1
  MaxAttempts = 3
  None = None
INVARIANTS
  TypeOK
  NeverStranded
  SettledOnce
  CleanupOwnsOnlyDetached
  AnswersAreGenuine
PROPERTIES
  ImplementsService
  OperationsEnd
  DetachedWorkersDie
CHECK_DEADLOCK FALSE
