SPECIFICATION FairSpec
CONSTANTS
  plan1 = plan1  user = user
  Plan = {plan1}
  Counts = {0, 1}
  DefaultCount = 1
  User = {user}
  MaxRestarts = 1
INVARIANTS TypeOK RetriedAsConfigured NeverForgotten
PROPERTY WithheldIsRetried
CHECK_DEADLOCK FALSE
