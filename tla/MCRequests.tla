------------------------------ MODULE MCRequests ----------------------------
(* Requests of several steps that no lock or transaction holds together, on *)
(* small instances.  The four components have no state in common, so their  *)
(* interleavings with each other show nothing: a behaviour moves one only.  *)
EXTENDS OperatorSessions, Scheduler, ResearchJobs, PlanExecution

VARIABLE part    \* the component that moves

vars == <<part, sessionsVars, schedulerVars, jobVars, planVars>>

Only(p) ==
  /\ part = p
  /\ UNCHANGED part
  /\ p # "sessions"  => UNCHANGED sessionsVars
  /\ p # "scheduler" => UNCHANGED schedulerVars
  /\ p # "jobs"      => UNCHANGED jobVars
  /\ p # "plan"      => UNCHANGED planVars

Init ==
  /\ part \in {"sessions", "scheduler", "jobs", "plan"}
  /\ SessionsInit
  /\ SchedulerInit
  /\ JobsInit
  /\ PlanInit
  /\ part # "plan" => plan = <<"free">> /\ ~goOn /\ ~elevated

Next ==
  \/ Only("sessions") /\ SessionsNext
  \/ Only("scheduler") /\ SchedulerNext
  \/ Only("jobs") /\ JobsNext
  \/ Only("plan") /\ PlanNext

\* The fairness of FairScheduler.
Spec == Init /\ [][Next]_vars /\ WF_vars(Only("scheduler") /\ LoopSteps)

\* Every plan of one to three steps.
ShortPlans == UNION {[1 .. n -> StepKinds] : n \in 1 .. 3}

\* A schedule with times, and one that has none.
Schedules == {{}, {1, 2}}
=============================================================================
