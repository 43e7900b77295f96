-------------------------------- MODULE Daemon -------------------------------
(***************************************************************************)
(* The daemon of crates/clawork-daemon (a heartbeat task and a cron        *)
(* scheduler behind one `running` flag) and those who start and stop it in *)
(* lib.rs: the start of the application, requests, some of which only      *)
(* spawn a task and answer, and a watchdog.  start and stop take one lock  *)
(* after another, and nothing keeps two of them apart.                     *)
(***************************************************************************)
EXTENDS Naturals, FiniteSets

CONSTANTS
  Boot,        \* the task spawned when the application starts
  Requests,    \* tasks of requests to start, stop or restart, at once
  Watchdog,    \* the health loop
  MaxRequests, \* bound: so many requests are made
  MaxFailures  \* bound: so many calls of the cron scheduler fail

ASSUME DaemonAssumption ==
  /\ Boot \notin Requests
  /\ Watchdog \notin Requests \union {Boot}
  /\ MaxRequests \in Nat
  /\ MaxFailures \in Nat

VARIABLES
  want,      \* daemon_should_run
  running,   \* the running flag of the snapshot
  beats,     \* heartbeat tasks that live
  heart,     \* heartbeat_handle
  crons,     \* schedulers that run
  cron,      \* the scheduler slot
  job,       \* what each task is doing, and what it holds
  requests,  \* requests so far
  failures,  \* failed calls so far
  crossed    \* history: a request came, or the watchdog looked, before the
             \* starts and stops under way were over

service == <<running, beats, heart, crons, cron, failures>>
calls   == <<requests, crossed>>
vars    == <<want, service, job, calls>>

Jobs == {Boot, Watchdog} \union Requests

-----------------------------------------------------------------------------

\* Heartbeats and schedulers have numbers; 0 is an empty slot.
Nothing == 0
Fresh(used) == CHOOSE n \in 1 .. Cardinality(used) + 1 : n \notin used

Held == {job[j].hand : j \in Jobs}

Starting == {"test", "spawn", "keep_heart", "make_cron", "keep_cron"}
Stopping == {"stop", "take_heart", "take_cron"}
AtRest   == {"done", "sleep"}

\* then: where the job goes after a stop; hand: a task not yet in its slot.
Job(pc, then) == [pc |-> pc, then |-> then, hand |-> Nothing]

Goto(j, label) == job' = [job EXCEPT ![j].pc = label]

Quiet == \A j \in Jobs : job[j].pc \in AtRest

Crossing == crossed' = (crossed \/ ~Quiet)

\* Mutant: the watchdog ends when it has started the daemon once, or failed to.
FinishedForGood(j) == "done"

\* The watchdog goes on for ever, the other tasks end.
Finished(j) == IF j = Watchdog THEN "sleep" ELSE "done"

-----------------------------------------------------------------------------
(* DaemonService::start.                                                   *)

TestAndSet(j) ==
  /\ job[j].pc = "test"
  /\ running' = TRUE
  /\ Goto(j, IF running THEN Finished(j) ELSE "spawn")
  /\ UNCHANGED <<want, beats, heart, crons, cron, failures, calls>>

Spawn(j) ==
  /\ job[j].pc = "spawn"
  /\ LET b == Fresh(beats \union {heart} \union Held)
     IN /\ beats' = beats \union {b}
        /\ job' = [job EXCEPT ![j].pc = "keep_heart", ![j].hand = b]
  /\ UNCHANGED <<want, running, heart, crons, cron, failures, calls>>

\* A handle that is overwritten is dropped, and its task goes on.
KeepHeart(j) ==
  /\ job[j].pc = "keep_heart"
  /\ heart' = job[j].hand
  /\ job' = [job EXCEPT ![j].pc = "make_cron", ![j].hand = Nothing]
  /\ UNCHANGED <<want, running, beats, crons, cron, failures, calls>>

\* Mutant: a scheduler that cannot be started leaves the daemon as it is.
MakeCronNoStop(j) ==
  /\ job[j].pc = "make_cron"
  /\ \/ LET c == Fresh(crons \union {cron} \union Held)
        IN /\ crons' = crons \union {c}
           /\ job' = [job EXCEPT ![j].pc = "keep_cron", ![j].hand = c]
           /\ UNCHANGED failures
     \/ /\ failures < MaxFailures
        /\ failures' = failures + 1
        /\ Goto(j, Finished(j))
        /\ UNCHANGED crons
  /\ UNCHANGED <<want, running, beats, heart, cron, calls>>

\* The scheduler is made and started; if that fails the daemon is stopped.
MakeCron(j) ==
  /\ job[j].pc = "make_cron"
  /\ \/ LET c == Fresh(crons \union {cron} \union Held)
        IN /\ crons' = crons \union {c}
           /\ job' = [job EXCEPT ![j].pc = "keep_cron", ![j].hand = c]
           /\ UNCHANGED failures
     \/ /\ failures < MaxFailures
        /\ failures' = failures + 1
        /\ job' = [job EXCEPT ![j].pc = "stop", ![j].then = Finished(j)]
        /\ UNCHANGED crons
  /\ UNCHANGED <<want, running, beats, heart, cron, calls>>

\* A scheduler that is overwritten is dropped, and its ticks go on.
KeepCron(j) ==
  /\ job[j].pc = "keep_cron"
  /\ cron' = job[j].hand
  /\ job' = [job EXCEPT ![j].pc = Finished(j), ![j].hand = Nothing]
  /\ UNCHANGED <<want, running, beats, heart, crons, failures, calls>>

-----------------------------------------------------------------------------
(* DaemonService::stop.                                                    *)

Stop(j) ==
  /\ job[j].pc = "stop"
  /\ running' = FALSE
  /\ Goto(j, "take_heart")
  /\ UNCHANGED <<want, beats, heart, crons, cron, failures, calls>>

\* Mutant: the handle is dropped and its task is not aborted.
TakeHeartNoAbort(j) ==
  /\ job[j].pc = "take_heart"
  /\ heart' = Nothing
  /\ Goto(j, "take_cron")
  /\ UNCHANGED <<want, running, beats, crons, cron, failures, calls>>

TakeHeart(j) ==
  /\ job[j].pc = "take_heart"
  /\ heart' = Nothing
  /\ beats' = beats \ {heart}
  /\ Goto(j, "take_cron")
  /\ UNCHANGED <<want, running, crons, cron, failures, calls>>

\* A shutdown that fails is only logged.
TakeCron(j) ==
  /\ job[j].pc = "take_cron"
  /\ cron' = Nothing
  /\ \/ /\ crons' = crons \ {cron}
        /\ UNCHANGED failures
     \/ /\ cron # Nothing
        /\ failures < MaxFailures
        /\ failures' = failures + 1
        /\ UNCHANGED crons
  /\ Goto(j, job[j].then)
  /\ UNCHANGED <<want, running, beats, heart, calls>>

-----------------------------------------------------------------------------
(* The heartbeat, the requests and the watchdog.                           *)

\* Mutant: the heartbeat does not look at the flag.
BeatAnyway(b) == b \in beats /\ UNCHANGED vars

\* A round of the heartbeat: it ends when it finds the daemon not running.
Beat(b) ==
  /\ b \in beats
  /\ ~running
  /\ beats' = beats \ {b}
  /\ UNCHANGED <<want, running, heart, crons, cron, job, failures, calls>>

Request(r, work) ==
  /\ job[r].pc = "done"
  /\ requests < MaxRequests
  /\ requests' = requests + 1
  /\ want' = (work # "stop")
  /\ job' = [job EXCEPT ![r] =
       CASE work = "start"   -> Job("test", "done")
         [] work = "stop"    -> Job("stop", "done")
         [] work = "restart" -> Job("stop", "test")]
  /\ Crossing
  /\ UNCHANGED service

\* Mutant: the watchdog does not ask whether the daemon should run.
WatchAlways ==
  /\ job[Watchdog].pc = "sleep"
  /\ Goto(Watchdog, "look")
  /\ Crossing
  /\ UNCHANGED <<want, service, requests>>

WatchWant ==
  /\ job[Watchdog].pc = "sleep"
  /\ want
  /\ Goto(Watchdog, "look")
  /\ Crossing
  /\ UNCHANGED <<want, service, requests>>

WatchLook ==
  /\ job[Watchdog].pc = "look"
  /\ Goto(Watchdog, IF running THEN "sleep" ELSE "test")
  /\ UNCHANGED <<want, service, calls>>

-----------------------------------------------------------------------------

Init ==
  /\ want = TRUE
  /\ running = FALSE
  /\ beats = {}
  /\ heart = Nothing
  /\ crons = {}
  /\ cron = Nothing
  /\ job = [j \in Jobs |-> Job(CASE j = Boot     -> "test"
                                 [] j = Watchdog -> "sleep"
                                 [] OTHER        -> "done", Finished(j))]
  /\ requests = 0
  /\ failures = 0
  /\ crossed = FALSE

Work(j) ==
  \/ TestAndSet(j) \/ Spawn(j) \/ KeepHeart(j) \/ MakeCron(j) \/ KeepCron(j)
  \/ Stop(j) \/ TakeHeart(j) \/ TakeCron(j)

Next ==
  \/ \E j \in Jobs : Work(j)
  \/ \E b \in beats : Beat(b)
  \/ \E r \in Requests, work \in {"start", "stop", "restart"} : Request(r, work)
  \/ WatchWant
  \/ WatchLook

Spec == Init /\ [][Next]_vars

\* The runtime runs every task that was spawned, and the watchdog and every
\* heartbeat come round again.  Nobody has to make a request.
Fairness ==
  /\ \A j \in Jobs : WF_vars(Work(j))
  /\ WF_vars(\E b \in beats : Beat(b))
  /\ WF_vars(WatchWant)
  /\ WF_vars(WatchLook)

FairSpec == Spec /\ Fairness

-----------------------------------------------------------------------------
(* Properties.                                                             *)

\* Every variable has its type; only the watchdog sleeps, only the others end.
TypeOK ==
  /\ want \in BOOLEAN
  /\ running \in BOOLEAN
  /\ beats \subseteq Nat \ {Nothing}
  /\ heart \in Nat
  /\ crons \subseteq Nat \ {Nothing}
  /\ cron \in Nat
  /\ DOMAIN job = Jobs
  /\ \A j \in Jobs :
       /\ job[j].pc \in Starting \union Stopping \union
            (IF j = Watchdog THEN {"sleep", "look"} ELSE {"done"})
       /\ job[j].then \in {"test", Finished(j)}
       /\ job[j].hand \in Nat
  /\ requests \in 0 .. MaxRequests
  /\ failures \in 0 .. MaxFailures
  /\ crossed \in BOOLEAN

\* While starts and stops come one after the other, a daemon that the status says
\* is running has a heartbeat that lives and a scheduler that runs, and a stop can
\* reach them.
StatusTellsTruth ==
  Quiet /\ ~crossed /\ running => heart \in beats /\ cron \in crons

\* Then a daemon that is not running has left no heartbeat behind, to be woken by
\* the next start beside its own.
NoneLeftBehind == Quiet /\ ~crossed /\ ~running => beats = {}

\* When all is done, a daemon that was asked to stop does not run.
StopObeyed == Quiet /\ ~want => ~running

\* That holds while starts and stops come one after the other.
StopObeyedInTurn == ~crossed => StopObeyed

\* A daemon that is to run does so in the end, and for good, whatever crossed
\* it before and however often it could not be started.
Revived == <>[]want => <>[]running

\* The heartbeats of a daemon that is not running come to an end, those that a
\* start and a stop at cross purposes left behind included.
FallsSilent == <>[](~running) => <>[](beats = {})
=============================================================================
