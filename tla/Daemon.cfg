\* The daemon, its watchdog and two requests, one task at a time; two failures.
CONSTANTS
  Boot = boot
  Requests = {r1}
  Watchdog = watchdog
  MaxRequests = 2
  MaxFailures = 2
SPECIFICATION FairSpec
INVARIANTS StatusTellsTruth NoneLeftBehind StopObeyedInTurn
PROPERTIES Revived FallsSilent
CHECK_DEADLOCK FALSE
