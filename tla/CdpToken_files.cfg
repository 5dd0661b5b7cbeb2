SPECIFICATION FairSpec
CONSTANTS
  d1 = d1  d2 = d2
  Request = {d1, d2}
  Ranged = {2}
  MaxFiles = 3
  MaxWrites = 2
  MaxFaults = 1
CONSTRAINT ThirdIsOrderOnly
INVARIANTS TypeOK DataInOrder RangeKnown
PROPERTY EventuallyClosed
CHECK_DEADLOCK FALSE
