SPECIFICATION FairSpec
CONSTANTS
  a = a  b = b  h1 = h1  h2 = h2  h3 = h3  h4 = h4  c1 = c1  c2 = c2
  Task = {a, b, h1, h2}
  Endless = {a}
  Stubborn = {b}
  Cluster = {c1}
  SubTask <- TwoHosts
  Limits = {3, 4}
  MaxRestarts = 1
INVARIANT TypeOK
PROPERTIES AdmittedWithinLimit KeepsOrder QueueMoves
CHECK_DEADLOCK FALSE
