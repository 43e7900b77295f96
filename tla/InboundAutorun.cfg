\* A message that comes by webhook, nothing else going wrong.
CONSTANTS
  Loop = loop
  Requests = {r1}
  Lines = {l1}
  Anonymous = {l1}
  Hooked = {w1}
  MaxSeen = 2
  CompactEvery = 2
  MaxSent = 1
  MaxFailures = 0
  MaxRestarts = 0
SPECIFICATION Spec
INVARIANT AcceptedIsRun
