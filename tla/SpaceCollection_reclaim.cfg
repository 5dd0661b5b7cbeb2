SPECIFICATION SpecThreeBackups
CONSTANTS
  a = a
  b = b
  c = c
  d = d
  Snap = {a, b, c, d}
  Reader = {r1}
  NoSnap = NoSnap
  NoReader = NoReader
  NewBackup = {d}
  InPlan = {}
  MaxCrashes = 0
INVARIANTS TypeOK ChainIntact RestoreStable NothingLeaks MergeDoesAll
CHECK_DEADLOCK FALSE
