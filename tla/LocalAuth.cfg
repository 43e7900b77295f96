\* Two calls at once, four tokens, one restart.
CONSTANTS
  Callers = {c1, c2}
  Tokens = {k1, k2, k3, k4}
  NoToken = NoToken
  TTLs <- Lifetimes
  DefaultTTL = 1
  MaxTime = 1
  MaxCrashes = 1
SPECIFICATION Spec
SYMMETRY Symmetry
INVARIANTS RotatedOut LeaseKept FileTokenServesInTurn
