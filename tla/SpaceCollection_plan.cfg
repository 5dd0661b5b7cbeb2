SPECIFICATION SpecZeroOrThree
CONSTANTS
  a = a
  b = b
  c = c
  d = d
  Snap = {a, b, c, d}
  Reader = {r1}
  NoSnap = NoSnap
  NoReader = NoReader
  NewBackup = {a, b}
  InPlan = {a}
  MaxCrashes = 1
INVARIANTS ChainIntact LockedNotMerged NothingLeaks CondemnedHasTask MergeDoesAll
CHECK_DEADLOCK FALSE
