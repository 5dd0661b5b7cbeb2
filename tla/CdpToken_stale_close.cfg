SPECIFICATION Spec
CONSTANTS
  d1 = d1  d2 = d2
  Request = {d1}
  Ranged = {}
  MaxFiles = 2
  MaxWrites = 1
  MaxFaults = 0
INVARIANT LastIsWritten
CHECK_DEADLOCK FALSE
