\* Two calls at once, three tokens, no restart.
CONSTANTS
  Callers = {c1, c2}
  Tokens = {k1, k2, k3}
  NoToken = NoToken
  TTLs = {1}
  DefaultTTL = 1
  MaxTime = 1
  MaxCrashes = 0
SPECIFICATION Spec
SYMMETRY Symmetry
INVARIANTS FileTokenServes
