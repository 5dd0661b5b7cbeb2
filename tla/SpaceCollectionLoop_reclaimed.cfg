SPECIFICATION LoopThreeBackups
CONSTANTS
  a = a
  b = b
  c = c
  d = d
  Snap = {a, b, c, d}
  Reader = {r1}
  NoSnap = NoSnap
  NoReader = NoReader
  NewBackup = {}
  InPlan = {b}
  MaxCrashes = 0
PROPERTY EventuallyReclaimed
CHECK_DEADLOCK FALSE
