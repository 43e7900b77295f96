\* One request to any of the handlers.
CONSTANTS
  Domains = {d}
  NoDomain = NoDomain
  Requests = {r1}
  Operations <- AllHandlers
  Tokens = {k1, k2}
  NoToken = NoToken
  TTLs = {1}
  PendingLife = 1
  Policies <- BlockAll
  MaxTime = 2
  MaxElevations = 1
  MaxCrashes = 1
SPECIFICATION Spec
SYMMETRY TokenSymmetry
INVARIANTS LogTellsTruth SuccessIsLogged OutsideNeedsElevation
