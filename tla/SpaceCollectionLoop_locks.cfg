SPECIFICATION LoopThreeBackups
CONSTANTS
  a = a
  b = b
  c = c
  d = d
  Snap = {a, b, c, d}
  Reader = {}
  NoSnap = NoSnap
  NoReader = NoReader
  NewBackup = {}
  InPlan = {}
  MaxCrashes = 1
PROPERTY MergeLocksReleased
CHECK_DEADLOCK FALSE
