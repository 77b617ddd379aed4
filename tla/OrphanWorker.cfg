\* One operation is enough: start, cancel, close the window.
SPECIFICATION Spec
CONSTANTS
  MaxOperationId = 1
  KillAfter = 1
  MaxAttempts = 2
  None = None
INVARIANT CancelledWorkersAreStopped
CHECK_DEADLOCK FALSE
