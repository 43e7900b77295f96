\* The loop and a request.  Two messages cross: one of a feed, and a line of WhatsApp
\* that its webhook delivers too; the file is compacted whenever it grows.
CONSTANTS
  Loop = loop
  Requests = {r1}
  Lines = {l1}
  Anonymous = {}
  Hooked = {l1}
  MaxSeen = 2
  CompactEvery = 1
  MaxSent = 1
  MaxFailures = 1
  MaxRestarts = 1
SPECIFICATION Spec
INVARIANTS NoneSkipped RunOnce
