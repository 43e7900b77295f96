---------------------------- MODULE ResearchJobs ----------------------------
(***************************************************************************)
(* Research jobs past the gate (research_create_job_inner of lib.rs,       *)
(* clawork-operator): a request makes the job, fetches its sources, writes *)
(* the report to a file of the project, registers the file, and completes  *)
(* the job; others read the job and its report meanwhile.  Nothing takes   *)
(* up a job whose request was cut short.                                   *)
(***************************************************************************)
EXTENDS Integers, FiniteSets

CONSTANTS
  Jobs,     \* requests to create a job, and the jobs they make
  Filed,    \* those that name a project
  MaxStops  \* bound: requests that end early

ASSUME JobsAssumption == Filed \subseteq Jobs /\ MaxStops \in Nat

VARIABLES
  job,       \* job -> state of its row
  report,    \* jobs whose row holds a report
  file,      \* job -> its report file
  artifacts, \* jobs whose report is registered with the project
  making,    \* job -> how far its request is
  audit,     \* job -> what the log says of it
  stops,     \* requests ended early so far
  stopped    \* history: jobs of those requests

jobVars == <<job, report, file, artifacts, making, audit, stops, stopped>>

-----------------------------------------------------------------------------

Goes(j, label) == making' = [making EXCEPT ![j] = label]

CreateJob(j) ==
  /\ making[j] = "idle"
  /\ job' = [job EXCEPT ![j] = "running"]
  /\ Goes(j, "sources")
  /\ UNCHANGED <<report, file, artifacts, audit, stops, stopped>>

\* build_research_report: sources that cannot be fetched are part of the report.
BuildReport(j) ==
  /\ making[j] = "sources"
  /\ Goes(j, IF j \in Filed THEN "file" ELSE "complete")
  /\ UNCHANGED <<job, report, file, artifacts, audit, stops, stopped>>

\* register_research_report_artifact.
WriteReport(j) ==
  /\ making[j] = "file"
  /\ file' = [file EXCEPT ![j] = "whole"]
  /\ Goes(j, "register")
  /\ UNCHANGED <<job, report, artifacts, audit, stops, stopped>>

\* Mutant: an artifact that cannot be registered does not matter.
RegisterIfPossible(j) ==
  /\ making[j] = "register"
  /\ artifacts' \in {artifacts, artifacts \union {j}}
  /\ Goes(j, "complete")
  /\ UNCHANGED <<job, report, file, audit, stops, stopped>>

Register(j) ==
  /\ making[j] = "register"
  /\ artifacts' = artifacts \union {j}
  /\ Goes(j, "complete")
  /\ UNCHANGED <<job, report, file, audit, stops, stopped>>

Complete(j) ==
  /\ making[j] = "complete"
  /\ job' = [job EXCEPT ![j] = "completed"]
  /\ report' = report \union {j}
  /\ Goes(j, "audit")
  /\ UNCHANGED <<file, artifacts, audit, stops, stopped>>

AuditJob(j) ==
  /\ making[j] = "audit"
  /\ audit' = [audit EXCEPT ![j] = IF job[j] = "completed" THEN "allowed" ELSE "error"]
  /\ Goes(j, "over")
  /\ UNCHANGED <<job, report, file, artifacts, stops, stopped>>

\* A statement or a write fails, the client hangs up, or the application stops;
\* a file that was being written may be there in part.
Stop(j) ==
  /\ making[j] \notin {"idle", "over"}
  /\ stops < MaxStops
  /\ stops' = stops + 1
  /\ stopped' = stopped \union {j}
  /\ file' \in {file, [file EXCEPT ![j] = IF making[j] = "file" THEN "part" ELSE @]}
  /\ Goes(j, "over")
  /\ UNCHANGED <<job, report, artifacts, audit>>

-----------------------------------------------------------------------------

JobsInit ==
  /\ job = [j \in Jobs |-> "none"]
  /\ report = {}
  /\ file = [j \in Jobs |-> "none"]
  /\ artifacts = {}
  /\ making = [j \in Jobs |-> "idle"]
  /\ audit = [j \in Jobs |-> "none"]
  /\ stops = 0
  /\ stopped = {}

JobsNext ==
  \E j \in Jobs :
    \/ CreateJob(j) \/ BuildReport(j) \/ WriteReport(j) \/ Register(j)
    \/ Complete(j) \/ AuditJob(j)
    \/ Stop(j)

JobsSpec == JobsInit /\ [][JobsNext]_jobVars

-----------------------------------------------------------------------------
(* Properties.                                                             *)

\* Every artifact has its whole file, and every completed job of a project its
\* artifact, at whatever step the request stopped.
CompletedIsFiled ==
  /\ \A j \in artifacts : file[j] = "whole"
  /\ \A j \in Filed : job[j] = "completed" => j \in artifacts

\* A job stays "running" only while its request is at work, or if that was cut
\* short.
RunningIsWorkedOn ==
  \A j \in Jobs : job[j] = "running" =>
    making[j] \notin {"idle", "over"} \/ j \in stopped

\* The state of a job says how far its file, its artifact and its request are.
JobTellsTruth == CompletedIsFiled /\ RunningIsWorkedOn
=============================================================================
