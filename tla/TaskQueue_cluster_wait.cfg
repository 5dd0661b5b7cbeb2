SPECIFICATION FairSpec
CONSTANTS
  a = a  b = b  h1 = h1  h2 = h2  h3 = h3  h4 = h4  c1 = c1  c2 = c2
  Task = {h1, h2, h3, h4}
  Endless = {}
  Stubborn = {}
  Cluster = {c1, c2}
  SubTask <- TwoClusters
  Limits = {2}
  MaxRestarts = 0
PROPERTY QueueMoves
CHECK_DEADLOCK FALSE
