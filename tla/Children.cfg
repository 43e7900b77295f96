\* Calls, changes and runs are over some day: the system really may stop.
CONSTANTS
  Callers = {c1, c2}
  MaxCalls = 2
  MaxServers = 4
  MaxFaults = 1
  Bundled = {echo}
  Custom = {s1, s2}
  Watch = watcher
  Makers = {m1}
  MaxChanges = 3
  RequestSizes = {1, 2, 3, 4}
  MaxRequest = 3
  PipeSize = 2
  MaxStdout = 3
  MaxOutput = 5
SPECIFICATION Spec
INVARIANTS
  AnswersMatch
  BundledStay RegistryIsCurrent
  SuccessIsWhole
PROPERTIES CallsReturnFromMcp RunEnds
CHECK_DEADLOCK FALSE
