\* Two windows over at most four settings objects.
SPECIFICATION Spec
CONSTANTS
  Windows = {w1, w2}
  Values = {a, b, c}
  Default = a
  MaxObjects = 4
  None = None
INVARIANTS
  TypeOK
  
PROPERTY FailedSaveChangesNothing
CHECK_DEADLOCK FALSE
