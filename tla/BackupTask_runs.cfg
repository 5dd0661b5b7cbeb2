SPECIFICATION FairSpec
CONSTANTS
  t1 = t1  t2 = t2  scheduler = scheduler  user = user  nobody = nobody
  Task = {t1, t2}
  Caller = {scheduler, user}
  Nobody = nobody
  MaxRestarts = 1
INVARIANTS TypeOK SuccessIsOwn SnapshotClosed
PROPERTY TaskFinishes
CHECK_DEADLOCK FALSE
