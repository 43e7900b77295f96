------------------------------ MODULE Scheduler -----------------------------
(***************************************************************************)
(* Scheduled tasks (clawork-operator, the operator loop of lib.rs): the    *)
(* loop wakes, reads which tasks are due and fires them one after another; *)
(* clients create tasks and run them by hand.  A run reads the task and    *)
(* the time and then writes when the task ran and when it is next due, in  *)
(* two statements without a lock.                                          *)
(***************************************************************************)
EXTENDS Integers, FiniteSets, FiniteSetsExt

CONSTANTS
  Tasks,        \* ids of tasks
  Crons,        \* schedules: sets of times
  TaskLoop,     \* the loop
  Users,        \* requests to run a task by hand
  Horizon,      \* bound: the last time
  MaxManual,    \* bound: runs by hand
  MaxWriteErrors, \* bound: runs that fail
  MaxReboots    \* bound: restarts

ASSUME SchedulerAssumption ==
  /\ \A cron \in Crons : cron \subseteq Nat
  /\ TaskLoop \notin Users
  /\ Horizon \in Nat
  /\ MaxManual \in Nat
  /\ MaxWriteErrors \in Nat
  /\ MaxReboots \in Nat

VARIABLES
  now,        \* the time
  task,       \* id -> its row
  due,        \* the loop's list: tasks due when it polled and not yet fired
  runner,     \* who runs a task, the loop or a user -> how far
  manual,     \* runs by hand so far
  writeErrors, \* runs that failed so far
  reboots,    \* restarts so far
  fired,      \* history: id -> how often it was fired for a time
  excused,    \* history: tasks of which a run failed, or wrote over a later one
  skipped     \* history: id -> times passed between the two looks at the clock

schedulerBounds == <<manual, writeErrors, reboots>>
schedulerVars == <<now, task, due, runner, schedulerBounds, fired, excused,
                   skipped>>

Never   == -1
Times   == 0 .. Horizon
Runners == Users \union {TaskLoop}

Absent == [enabled |-> FALSE, cron |-> {}, created |-> Never,
           last |-> Never, next |-> Never]

\* last: the time the run read; due: for which time it was fired.
NoRun == [pc |-> "idle", task |-> "none", at |-> Never, due |-> Never]

Exists(t) == task[t].created # Never

-----------------------------------------------------------------------------
(* Time.                                                                   *)

\* Mutant: a task may be due again at once.
NextTimeFrom(cron, from, later) ==
  IF \E d \in cron : d >= from THEN Min({d \in cron : d >= from}) ELSE Never

\* next_cron_time: of the times upcoming when it looks at the clock (again, for
\* `from` is its caller's look), the first after `from`.  A schedule that does
\* not parse is one without times.
NextTime(cron, from, later) ==
  LET upcoming == {d \in cron : d > later}
      after    == {d \in upcoming : d > from}
  IN IF after # {} THEN Min(after) ELSE Never

\* The times of a schedule between the two looks, which NextTime leaves out.
Between(cron, from, later) == {d \in cron \intersect Times : from < d /\ d <= later}

\* Mutant: what was missed stays missed.
IsDueNow(t, at) == task[t].enabled /\ task[t].next = at

IsDue(t, at) == task[t].enabled /\ task[t].next # Never /\ task[t].next <= at

-----------------------------------------------------------------------------
(* Requests.                                                               *)

\* operator_create_task_inner, which looks at the clock, looks again for the next
\* time, and inserts the row: a schedule without a next time is accepted.
CreateTask(t, cron, enabled) ==
  /\ ~Exists(t)
  /\ \E from \in 0 .. now : \E later \in from .. now :
       /\ task' = [task EXCEPT ![t] =
            [enabled |-> enabled, cron |-> cron, created |-> from, last |-> Never,
             next |-> IF enabled THEN NextTime(cron, from, later) ELSE Never]]
       /\ skipped' = [skipped EXCEPT ![t] = @ \union Between(cron, from, later)]
  /\ UNCHANGED <<now, due, runner, schedulerBounds, fired, excused>>

RunByHand(u, t) ==
  /\ runner[u].pc = "idle"
  /\ Exists(t)
  /\ manual < MaxManual
  /\ manual' = manual + 1
  /\ runner' = [runner EXCEPT ![u] = [NoRun EXCEPT !.pc = "read", !.task = t]]
  /\ UNCHANGED <<now, task, due, writeErrors, reboots, fired, excused, skipped>>

-----------------------------------------------------------------------------
(* run_task_now, for a user or the loop.                                   *)

ReadTask(r) ==
  /\ runner[r].pc = "read"
  /\ runner' = [runner EXCEPT ![r].pc = "write", ![r].at = now]
  /\ UNCHANGED <<now, task, due, schedulerBounds, fired, excused, skipped>>

\* What comes after a run: the loop announces it, whatever came of it.
AfterRun(r) ==
  runner' = [runner EXCEPT ![r] = IF r = TaskLoop THEN [@ EXCEPT !.pc = "fire"] ELSE NoRun]

\* The second look at the clock is some time between the first and the write.
WriteRun(r) ==
  LET t == runner[r].task
      at == runner[r].at
  IN /\ runner[r].pc = "write"
     /\ \E later \in at .. now :
          /\ task' = [task EXCEPT
               ![t].last = at,
               ![t].next = IF task[t].enabled
                           THEN NextTime(task[t].cron, at, later) ELSE Never]
          /\ skipped' = [skipped EXCEPT ![t] = @ \union Between(task[t].cron, at, later)]
     /\ excused' = IF at < task[t].last THEN excused \union {t} ELSE excused
     /\ AfterRun(r)
     /\ UNCHANGED <<now, due, schedulerBounds, fired>>

\* One of its statements fails.
RunFails(r) ==
  /\ runner[r].pc \in {"read", "write"}
  /\ writeErrors < MaxWriteErrors
  /\ writeErrors' = writeErrors + 1
  /\ excused' = excused \union {runner[r].task}
  /\ AfterRun(r)
  /\ UNCHANGED <<now, task, due, manual, reboots, fired, skipped>>

-----------------------------------------------------------------------------
(* The loop.                                                               *)

\* poll_due_tasks: the rows as they are now.
Poll ==
  /\ runner[TaskLoop].pc = "idle"
  /\ due = {}
  /\ due' = {<<t, task[t].next>> : t \in {t \in Tasks : IsDue(t, now)}}
  /\ due' # {}
  /\ UNCHANGED <<now, task, runner, schedulerBounds, fired, excused, skipped>>

RunDue ==
  /\ runner[TaskLoop].pc = "idle"
  /\ \E row \in due :
       runner' = [runner EXCEPT ![TaskLoop] =
         [pc |-> "read", task |-> row[1], at |-> Never, due |-> row[2]]]
  /\ UNCHANGED <<now, task, due, schedulerBounds, fired, excused, skipped>>

\* The suggestion and the entry of the audit log.
Fire ==
  LET row == <<runner[TaskLoop].task, runner[TaskLoop].due>>
  IN /\ runner[TaskLoop].pc = "fire"
     /\ fired' = [fired EXCEPT ![row[1]][row[2]] = @ + 1]
     /\ due' = due \ {row}
     /\ runner' = [runner EXCEPT ![TaskLoop] = NoRun]
     /\ UNCHANGED <<now, task, schedulerBounds, excused, skipped>>

TimePasses ==
  /\ now < Horizon
  /\ now' = now + 1
  /\ UNCHANGED <<task, due, runner, schedulerBounds, fired, excused, skipped>>

\* Only the rows survive.
Reboot ==
  /\ reboots < MaxReboots
  /\ reboots' = reboots + 1
  /\ due' = {}
  /\ runner' = [r \in Runners |-> NoRun]
  /\ UNCHANGED <<now, task, manual, writeErrors, fired, excused, skipped>>

-----------------------------------------------------------------------------

SchedulerInit ==
  /\ now = 0
  /\ task = [t \in Tasks |-> Absent]
  /\ due = {}
  /\ runner = [r \in Runners |-> NoRun]
  /\ manual = 0
  /\ writeErrors = 0
  /\ reboots = 0
  /\ fired = [t \in Tasks |-> [d \in Times |-> 0]]
  /\ excused = {}
  /\ skipped = [t \in Tasks |-> {}]

LoopSteps ==
  Poll \/ RunDue \/ ReadTask(TaskLoop) \/ WriteRun(TaskLoop) \/ RunFails(TaskLoop) \/ Fire

SchedulerNext ==
  \/ \E t \in Tasks :
       \/ \E cron \in Crons, enabled \in BOOLEAN : CreateTask(t, cron, enabled)
       \/ \E u \in Users : RunByHand(u, t)
  \/ \E u \in Users : ReadTask(u) \/ WriteRun(u) \/ RunFails(u)
  \/ LoopSteps
  \/ TimePasses
  \/ Reboot

SchedulerSpec == SchedulerInit /\ [][SchedulerNext]_schedulerVars

\* The loop wakes every 15 seconds, and its calls return.
FairScheduler == SchedulerSpec /\ WF_schedulerVars(LoopSteps)

-----------------------------------------------------------------------------
(* Properties.                                                             *)

\* Every variable has its type.
SchedulerTypeOK ==
  /\ now \in Times
  /\ \A t \in Tasks : task[t].last \in Times \union {Never}
  /\ \A row \in due : Exists(row[1]) /\ row[2] \in Times
  /\ \A r \in Runners : runner[r].pc \in {"idle", "read", "write", "fire"}
  /\ \A u \in Users : runner[u].pc # "fire"

\* The loop fires a task once for a time at most: not again after a restart or
\* a run by hand, unless a run failed or wrote over a later one.
FiredOnce == \A t \in Tasks \ excused : \A d \in Times : fired[t][d] <= 1

\* A time of an enabled task's schedule that has come is made up for by a run,
\* over restarts, failures and runs that cross, unless it passed between the two
\* looks at the clock by which a run (or the creation) found the next time.
DueIsRun ==
  \A t \in Tasks, d \in Times :
    (task[t].enabled /\ d \in task[t].cron /\ task[t].created < d /\ d <= now)
      ~> (task[t].last >= d \/ d \in skipped[t])
=============================================================================
