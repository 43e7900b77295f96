\* Two callers and the sweep, two tokens, elevations of one and two ticks.
CONSTANTS
  Callers = {c1, c2}
  Sweeper = sweeper
  Tokens = {k1, k2}
  NoToken = NoToken
  TTLs = {0, 2}
  MinTTL = 1
  PendingLife = 1
  MaxTime = 2
SPECIFICATION DSpec
SYMMETRY Symmetry
INVARIANTS TypeOK ApprovedIsPending AllowedOnGrounds AskedOnlyIfLapsed
PROPERTIES OnlyLapsedElevationEnds ImplementsService
