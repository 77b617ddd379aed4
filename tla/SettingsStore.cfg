\* Two instances migrate and save side by side; two values tell their writes apart.
SPECIFICATION FairSpec
CONSTANTS
  Instances = {p1, p2}
  Values = {a, b}
  Empty = Empty
  None = None
INVARIANTS
  TypeOK
  VersionMatchesSchema
PROPERTIES
  NewerIsUntouched
  ImplementsRegister
  LockIsReleased
CHECK_DEADLOCK FALSE
