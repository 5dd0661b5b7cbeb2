SPECIFICATION FairFromThere
CONSTANTS
  reader = reader  worker = worker
  N = 3
  Qcow <- OneFile
  Slices = 2
  Broken = {2, 3}
  Looks = 2
  Reader = {reader}
  Asked = {2}
  Worker = worker
  MaxRestarts = 1
INVARIANTS TypeOK CancelSuffices CompletedIsDone
PROPERTIES CancelReturns EventuallyCompressed
CHECK_DEADLOCK FALSE
