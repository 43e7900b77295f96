\* Clients stop asking, tasks run out of times: the system really may stop.
CONSTANTS
  Sessions = {s1}
  Unknown = unknown
  Clients = {c1, c2}
  PlanSizes = {2}
  MaxRequests = 5
  MaxCuts = 1
  Tasks = {t1, t2}
  Crons <- Schedules
  TaskLoop = loop
  Users = {u1}
  Horizon = 2
  MaxManual = 1
  MaxWriteErrors = 1
  MaxReboots = 1
  Jobs = {j1, j2}
  Filed = {j1}
  MaxStops = 2
  Plans <- ShortPlans
  MaxElevated = 1
SPECIFICATION Spec
INVARIANTS
  WaitingHasProposal NewestPlanIsWhole
  FiredOnce
  JobTellsTruth
  GatedOnce SuccessIsWholePlan NoIdleApproval
PROPERTIES AloneIsDone DueIsRun
CHECK_DEADLOCK FALSE
