CONSTANTS
  Callers = {c1}
  Sweeper = sweeper
  Tokens = {k1, k2}
  NoToken = NoToken
  TTLs = {0}
  MinTTL = 1
  PendingLife = 1
  MaxTime = 2
SPECIFICATION FairSpec
PROPERTIES ElevationEnds CallsReturn
