\* One window is enough: Save fails, Save again.
SPECIFICATION Spec
CONSTANTS
  Windows = {w1}
  Values = {a, b}
  Default = a
  MaxObjects = 2
  None = None
PROPERTY SavedIsWhatWasShown
CHECK_DEADLOCK FALSE
