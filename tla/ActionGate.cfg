\* Two requests to a file and to a messenger, two tokens, one restart.
CONSTANTS
  Domains = {d}
  NoDomain = NoDomain
  Requests = {r1, r2}
  Operations <- FewHandlers
  Tokens = {k1, k2}
  NoToken = NoToken
  TTLs = {1}
  PendingLife = 1
  Policies <- BlockWrites
  MaxTime = 1
  MaxElevations = 1
  MaxCrashes = 1
SPECIFICATION Spec
SYMMETRY Symmetry
INVARIANTS EffectHasConsent BlockedNotDone ExpiryLoggedOnce
