\* A stop that overlaps another task.
CONSTANTS
  Boot = boot
  Requests = {r1, r2}
  Watchdog = watchdog
  MaxRequests = 2
  MaxFailures = 0
SPECIFICATION Spec
INVARIANTS StopObeyed
CHECK_DEADLOCK FALSE
