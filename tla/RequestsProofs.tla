--------------------------- MODULE RequestsProofs ----------------------------
(***************************************************************************)
(* Theorems about requests of several steps that no lock or transaction    *)
(* holds together, for all constants: the scheduled tasks, the research    *)
(* jobs and the commands of the client.  (OperatorSessionsProofs has the   *)
(* operator's sessions.)                                                   *)
(***************************************************************************)
EXTENDS Scheduler, ResearchJobs, PlanExecution, WellFoundedInduction, TLAPS

(* The scheduler, for any tasks, any schedules (sets of numbers, finite or *)
(* not), any number of users.  That a task is fired for a time once at     *)
(* most rests on the list the loop works through: a time stays on it until *)
(* it was fired, and the loop puts it there again only if no run was       *)
(* written since, for a run moves the next time beyond its own.            *)
(* SchedulerInv says those things.                                         *)

Moments == Times \union {Never}

Rows == [enabled : BOOLEAN, cron : Crons \union {{}}, created : Moments,
         last : Moments, next : Nat \union {Never}]

Runs == [pc : {"idle", "read", "write", "fire"}, task : Tasks \union {"none"},
         at : Moments, due : Moments]

SchedulerTypes ==
  /\ now \in Times
  /\ task \in [Tasks -> Rows]
  /\ due \subseteq Tasks \X Times
  /\ runner \in [Runners -> Runs]
  /\ fired \in [Tasks -> [Times -> Nat]]

\* A run is of a task that was created, and it writes a time that has come.
RunsAreReal ==
  \A r \in Runners : runner[r].pc # "idle" =>
    /\ runner[r].task \in Tasks
    /\ Exists(runner[r].task)
    /\ runner[r].pc = "write" => runner[r].at \in Times /\ runner[r].at <= now

\* Only a task that was created has run.
RanIsCreated == \A t \in Tasks : task[t].last # Never => Exists(t)

\* Only a task that was created is enabled.
EnabledExist == \A t \in Tasks : task[t].enabled => Exists(t)

\* What is on the loop's list is past.
DueIsPast == \A row \in due : Exists(row[1]) /\ row[2] <= now

\* What the loop runs is on its list, and the run it writes comes after that
\* time; when it fires, the run stands, unless the task is excused.
LoopRunsDue ==
  runner[TaskLoop].pc # "idle" =>
    /\ <<runner[TaskLoop].task, runner[TaskLoop].due>> \in due
    /\ runner[TaskLoop].pc = "write" => runner[TaskLoop].due <= runner[TaskLoop].at
    /\ runner[TaskLoop].pc = "fire" =>
         \/ runner[TaskLoop].task \in excused
         \/ runner[TaskLoop].due <= task[runner[TaskLoop].task].last

\* A time that was fired was fired once, is behind the last run and is not on
\* the list.
FiredIsBehind ==
  \A t \in Tasks \ excused, d \in Times :
    \/ fired[t][d] = 0
    \/ fired[t][d] = 1 /\ d <= task[t].last /\ <<t, d>> \notin due

\* A task is next due after it ran last.
NextIsLater == \A t \in Tasks : task[t].next = Never \/ task[t].next > task[t].last

SchedulerInv ==
  /\ SchedulerTypes
  /\ RunsAreReal
  /\ RanIsCreated
  /\ EnabledExist
  /\ DueIsPast
  /\ LoopRunsDue
  /\ FiredIsBehind
  /\ NextIsLater

-----------------------------------------------------------------------------
(* The next time of a schedule.                                            *)

Below == {ss \in Nat \X Nat : ss[1] < ss[2]}

\* A set of numbers that is not empty has a least one.
LEMMA LeastIsIn ==
  ASSUME NEW S \in SUBSET Nat, S # {}
  PROVE  Min(S) \in S /\ \A x \in S : Min(S) <= x
<1>1. IsWellFoundedOn(Below, Nat)
  BY NatLessThanWellFounded DEF OpToRel, Below
<1>2. \E x \in S : \A y \in S : ~(<<y, x>> \in Below)
  BY <1>1, WFMin
<1>3. \A x, y \in S : ~(<<y, x>> \in Below) => x <= y
  BY DEF Below
<1>4. \E x \in S : \A y \in S : x <= y
  BY <1>2, <1>3
<1> QED BY <1>4 DEF Min

\* The next time, if there is one, comes after, whenever the clock was looked at.
LEMMA NextTimeIsLater ==
  ASSUME NEW cron \in Crons \union {{}}, NEW from \in Moments, NEW later \in Moments
  PROVE  \/ NextTime(cron, from, later) = Never
         \/ /\ NextTime(cron, from, later) \in Nat
            /\ NextTime(cron, from, later) > from
<1> DEFINE Ahead == {d \in {e \in cron : e > later} : d > from}
<1>1. Ahead \in SUBSET Nat BY SchedulerAssumption
<1>2. CASE Ahead = {}
  BY <1>2 DEF NextTime
<1>3. CASE Ahead # {}
  <2>1. Min(Ahead) \in Ahead BY <1>1, <1>3, LeastIsIn
  <2>2. NextTime(cron, from, later) = Min(Ahead) BY <1>3 DEF NextTime
  <2>3. Min(Ahead) \in Nat /\ Min(Ahead) > from BY <1>1, <2>1
  <2> QED BY <2>2, <2>3
<1> QED BY <1>2, <1>3

-----------------------------------------------------------------------------
(* Every step keeps SchedulerInv.                                          *)

\* Times are numbers, and no time is Never.
LEMMA TimesAreNumbers ==
  /\ Times \subseteq Nat /\ Moments \subseteq Int
  /\ \A d \in Times : Never < d
BY SchedulerAssumption DEF Times, Moments, Never

LEMMA LastIsNumber ==
  ASSUME NEW rows \in [Tasks -> Rows], NEW u \in Tasks
  PROVE  rows[u].last \in Int
<1>1. rows[u].last \in Moments BY DEF Rows
<1> QED BY <1>1, TimesAreNumbers

LEMMA SchedulerInitInv == SchedulerInit => SchedulerInv
<1> SUFFICES ASSUME SchedulerInit PROVE SchedulerInv OBVIOUS
<1>1. 0 \in Times /\ Absent \in Rows /\ NoRun \in Runs
  BY SchedulerAssumption DEF Times, Absent, Rows, Moments, NoRun, Runs
<1> QED
  BY <1>1 DEF SchedulerInit, SchedulerInv, SchedulerTypes, RunsAreReal, RanIsCreated,
    EnabledExist, DueIsPast, LoopRunsDue, FiredIsBehind, NextIsLater, NoRun, Absent, Exists, Runners

LEMMA CreateTaskInv ==
  ASSUME SchedulerInv, NEW t \in Tasks, NEW cron \in Crons, NEW enabled \in BOOLEAN,
         CreateTask(t, cron, enabled)
  PROVE  SchedulerInv'
<1> USE DEF SchedulerInv, SchedulerTypes, CreateTask, Exists
<1> PICK from \in 0 .. now : \E later \in from .. now :
      task' = [task EXCEPT ![t] =
        [enabled |-> enabled, cron |-> cron, created |-> from, last |-> Never,
         next |-> IF enabled THEN NextTime(cron, from, later) ELSE Never]]
  OBVIOUS
<1> PICK later \in from .. now :
      task' = [task EXCEPT ![t] =
        [enabled |-> enabled, cron |-> cron, created |-> from, last |-> Never,
         next |-> IF enabled THEN NextTime(cron, from, later) ELSE Never]]
  OBVIOUS
<1> DEFINE row == [enabled |-> enabled, cron |-> cron, created |-> from, last |-> Never,
                   next |-> IF enabled THEN NextTime(cron, from, later) ELSE Never]
<1>0. from \in Times /\ later \in Times
  BY SchedulerAssumption DEF Times
<1>1. row \in Rows
  BY <1>0, NextTimeIsLater DEF Rows, Moments
<1>2. task' = [task EXCEPT ![t] = row] OBVIOUS
<1>3. from # Never BY <1>0, SchedulerAssumption DEF Times, Never
<1>4. SchedulerTypes' BY <1>1, <1>2
<1>5. \A u \in Tasks : Exists(u) => u # t /\ task'[u] = task[u] /\ Exists(u)'
  BY <1>2
<1>6. Exists(t)' /\ task'[t].last = Never BY <1>2, <1>3
<1>7. RunsAreReal' BY <1>5 DEF RunsAreReal
<1>8. RanIsCreated' /\ EnabledExist' BY <1>2, <1>6 DEF RanIsCreated, EnabledExist
<1>9. DueIsPast' BY <1>5 DEF DueIsPast
<1>10. LoopRunsDue' BY <1>5 DEF LoopRunsDue, RunsAreReal, Runners
<1>11. FiredIsBehind'
  <2>1. ASSUME NEW d \in Times, t \notin excused PROVE fired[t][d] = 0
    <3>1. task[t].last = Never BY DEF RanIsCreated
    <3>2. fired[t][d] = 0 \/ d <= task[t].last BY <2>1 DEF FiredIsBehind
    <3>3. ~(d <= Never) BY SchedulerAssumption DEF Times, Never
    <3> QED BY <3>1, <3>2, <3>3
  <2>2. FiredIsBehind /\ due' = due /\ fired' = fired /\ excused' = excused OBVIOUS
  <2>3. \A u \in Tasks \ {t} : task'[u] = task[u] BY <1>2
  <2>4. \A u \in Tasks \ {t} : task'[u].last = task[u].last BY <2>3
  <2>5. t \notin excused => \A d \in Times : fired'[t][d] = 0 BY <2>1, <2>2
  <2> HIDE DEF SchedulerInv, SchedulerTypes, CreateTask
  <2> QED BY <2>2, <2>4, <2>5 DEF FiredIsBehind
<1>12. NextIsLater'
  <2>1. row.next = Never \/ row.next > row.last
    BY <1>1 DEF Rows, Never
  <2>2. NextIsLater /\ \A u \in Tasks \ {t} : task'[u] = task[u] BY <1>2
  <2>3. task'[t] = row BY <1>2
  <2> HIDE DEF row, SchedulerInv, SchedulerTypes, CreateTask
  <2> QED BY <2>1, <2>2, <2>3 DEF NextIsLater
<1> QED BY <1>4, <1>7, <1>8, <1>9, <1>10, <1>11, <1>12

LEMMA RunByHandInv ==
  ASSUME SchedulerInv, NEW u \in Users, NEW t \in Tasks, RunByHand(u, t)
  PROVE  SchedulerInv'
<1> USE DEF SchedulerInv, SchedulerTypes, RunByHand, Exists, NoRun
<1>1. u \in Runners /\ u # TaskLoop BY SchedulerAssumption DEF Runners
<1>2. SchedulerTypes' BY <1>1 DEF Runs, Moments
<1>3. RunsAreReal' BY <1>1 DEF RunsAreReal
<1>4. runner'[TaskLoop] = runner[TaskLoop] BY <1>1 DEF Runners
<1>5. LoopRunsDue'
  <2> HIDE DEF SchedulerInv, SchedulerTypes, NoRun
  <2>1. LoopRunsDue BY DEF SchedulerInv
  <2>2. due' = due /\ excused' = excused /\ task' = task OBVIOUS
  <2> HIDE DEF RunByHand
  <2> QED BY <1>4, <2>1, <2>2 DEF LoopRunsDue
<1> QED BY <1>2, <1>3, <1>5 DEF RanIsCreated, EnabledExist, DueIsPast, FiredIsBehind, NextIsLater

LEMMA ReadTaskInv ==
  ASSUME SchedulerInv, NEW r \in Runners, ReadTask(r)
  PROVE  SchedulerInv'
<1> USE DEF SchedulerInv, SchedulerTypes, ReadTask, Exists
<1>1. runner' = [runner EXCEPT ![r] = [runner[r] EXCEPT !.pc = "write", !.at = now]]
  OBVIOUS
<1>2. runner'[r] = [pc |-> "write", task |-> runner[r].task, at |-> now,
                    due |-> runner[r].due]
  BY <1>1 DEF Runs
<1>3. SchedulerTypes' BY <1>1, <1>2 DEF Runs, Moments
<1>4. RunsAreReal'
  BY <1>1, <1>2, SchedulerAssumption DEF RunsAreReal, Times
<1>5. LoopRunsDue'
  <2>1. CASE r = TaskLoop
    BY <1>2, <2>1 DEF LoopRunsDue, DueIsPast
  <2>2. CASE r # TaskLoop
    BY <1>1, <2>2 DEF LoopRunsDue, Runners
  <2> QED BY <2>1, <2>2
<1> QED BY <1>3, <1>4, <1>5 DEF RanIsCreated, EnabledExist, DueIsPast, FiredIsBehind, NextIsLater

\* What a run leaves of the runner: the others are where they were.
LEMMA AfterRunRuns ==
  ASSUME SchedulerTypes, NEW r \in Runners, AfterRun(r)
  PROVE  /\ runner' \in [Runners -> Runs]
         /\ \A q \in Runners \ {r} : runner'[q] = runner[q]
         /\ r = TaskLoop => /\ runner'[r].pc = "fire"
                            /\ runner'[r].task = runner[r].task
                            /\ runner'[r].due = runner[r].due
         /\ r # TaskLoop => runner'[r].pc = "idle"
<1> DEFINE after == IF r = TaskLoop THEN [runner[r] EXCEPT !.pc = "fire"] ELSE NoRun
<1>1. runner' = [runner EXCEPT ![r] = after] BY DEF AfterRun
<1>2. runner \in [Runners -> Runs] /\ runner[r] \in Runs BY DEF SchedulerTypes
<1>3. /\ after \in Runs
      /\ r = TaskLoop => after.pc = "fire" /\ after.task = runner[r].task
                         /\ after.due = runner[r].due
      /\ r # TaskLoop => after.pc = "idle"
  BY <1>2 DEF Runs, NoRun, Moments
<1> HIDE DEF after
<1> QED BY <1>1, <1>2, <1>3

LEMMA WriteRunInv ==
  ASSUME SchedulerInv, NEW r \in Runners, WriteRun(r)
  PROVE  SchedulerInv'
<1> USE DEF SchedulerInv, SchedulerTypes, WriteRun
<1> DEFINE t == runner[r].task
           at == runner[r].at
<1>1. /\ t \in Tasks /\ Exists(t)
      /\ at \in Times /\ at <= now /\ at # Never
  BY SchedulerAssumption DEF RunsAreReal, Times, Never
<1>2. task[t] \in Rows BY <1>1
<1>4. /\ task' \in [Tasks -> Rows]
      /\ \A u \in Tasks \ {t} : task'[u] = task[u]
      /\ task'[t].enabled = task[t].enabled
      /\ task'[t].cron = task[t].cron
      /\ task'[t].created = task[t].created
      /\ task'[t].last = at
      /\ task'[t].next = Never \/ task'[t].next > at
  <2>0. PICK later \in at .. now :
        task' = [task EXCEPT
          ![t].last = at,
          ![t].next = IF task[t].enabled
                      THEN NextTime(task[t].cron, at, later) ELSE Never]
    OBVIOUS
  <2> DEFINE next == IF task[t].enabled
                     THEN NextTime(task[t].cron, at, later) ELSE Never
             row == [task[t] EXCEPT !.last = at, !.next = next]
  <2>1. \/ next = Never
        \/ next \in Nat /\ next > at
    <3>1. at \in Times /\ at \in 0 .. now /\ now \in Times /\ later \in at .. now
      BY <1>1, SchedulerAssumption DEF Times
    <3>2. later \in Times BY <3>1, SchedulerAssumption DEF Times
    <3>3. task[t].cron \in Crons \union {{}} BY <1>2 DEF Rows
    <3> HIDE DEF SchedulerInv, SchedulerTypes, WriteRun, t, at
    <3> QED BY <3>1, <3>2, <3>3, NextTimeIsLater DEF Moments
  <2>2. task' = [task EXCEPT ![t] = row] BY <1>1, <2>0
  <2>3. /\ row \in Rows /\ row.enabled = task[t].enabled /\ row.cron = task[t].cron
        /\ row.created = task[t].created /\ row.last = at /\ row.next = next
    <3> HIDE DEF SchedulerInv, SchedulerTypes, WriteRun, t, at, next
    <3> QED BY <1>1, <1>2, <2>1 DEF Rows, Moments
  <2>4. task \in [Tasks -> Rows] OBVIOUS
  <2> HIDE DEF row, next, at, SchedulerInv, SchedulerTypes, WriteRun
  <2> QED BY <1>1, <2>1, <2>2, <2>3, <2>4
<1>5. /\ now' = now /\ due' = due /\ fired' = fired
      /\ excused \subseteq excused'
      /\ at < task[t].last => t \in excused'
  OBVIOUS
<1>6. AfterRun(r) OBVIOUS
<1>7. /\ runner' \in [Runners -> Runs]
      /\ \A q \in Runners \ {r} : runner'[q] = runner[q]
      /\ r = TaskLoop => /\ runner'[r].pc = "fire" /\ runner'[r].task = t
                         /\ runner'[r].due = runner[r].due
      /\ r # TaskLoop => runner'[r].pc = "idle"
  BY <1>6, AfterRunRuns
<1>8. runner[r].pc = "write" OBVIOUS
<1>9. SchedulerTypes /\ SchedulerInv OBVIOUS
<1> HIDE DEF SchedulerInv, SchedulerTypes, WriteRun, at
<1>10. SchedulerTypes' BY <1>4, <1>5, <1>7, <1>9 DEF SchedulerTypes
<1>11. \A u \in Tasks : Exists(u) => task'[u].created # Never
  BY <1>4 DEF Exists
<1>12. RunsAreReal'
  <2> SUFFICES ASSUME NEW q \in Runners, runner'[q].pc # "idle"
               PROVE  /\ runner'[q].task \in Tasks
                      /\ task'[runner'[q].task].created # Never
                      /\ runner'[q].pc = "write" =>
                           runner'[q].at \in Times /\ runner'[q].at <= now
    BY <1>5 DEF RunsAreReal, Exists
  <2>1. RunsAreReal BY <1>9 DEF SchedulerInv
  <2>2. CASE q # r BY <1>7, <1>11, <2>1, <2>2 DEF RunsAreReal
  <2>3. CASE q = r BY <1>1, <1>7, <1>11, <2>3
  <2> QED BY <2>2, <2>3
<1>13. RanIsCreated'
  <2> SUFFICES ASSUME NEW u \in Tasks, task'[u].last # Never
               PROVE  task'[u].created # Never
    BY DEF RanIsCreated, Exists
  <2>1. CASE u = t BY <1>1, <1>11, <2>1
  <2>2. CASE u # t BY <1>4, <1>9, <1>11, <2>2 DEF SchedulerInv, RanIsCreated
  <2> QED BY <2>1, <2>2
<1>14. DueIsPast'
  <2> SUFFICES ASSUME NEW row \in due
               PROVE  task'[row[1]].created # Never /\ row[2] <= now
    BY <1>5 DEF DueIsPast, Exists
  <2>1. row[1] \in Tasks BY <1>9 DEF SchedulerTypes
  <2>2. Exists(row[1]) /\ row[2] <= now BY <1>9 DEF SchedulerInv, DueIsPast
  <2> QED BY <1>11, <2>1, <2>2
<1>15. \A u \in Tasks : task[u].last \in Int /\ task'[u].last \in Int
  BY <1>9, <1>10, LastIsNumber DEF SchedulerTypes
<1>16. \A u \in Tasks \ excused' : task[u].last <= task'[u].last
  <2> SUFFICES ASSUME NEW u \in Tasks, u \notin excused'
               PROVE  task[u].last <= task'[u].last
    OBVIOUS
  <2>1. at \in Int BY <1>1, TimesAreNumbers
  <2>2. CASE u = t
    <3>1. ~(at < task[t].last) /\ task'[t].last = at BY <1>4, <1>5, <2>2
    <3> QED BY <1>15, <2>1, <2>2, <3>1
  <2>3. CASE u # t
    <3>1. task'[u] = task[u] BY <1>4, <2>3
    <3> QED BY <1>15, <3>1
  <2> QED BY <2>2, <2>3
<1>17. LoopRunsDue'
  <2>0. LoopRunsDue /\ TaskLoop \in Runners BY <1>9 DEF SchedulerInv, Runners
  <2>1. CASE r = TaskLoop
    <3>1. <<t, runner[r].due>> \in due /\ runner[r].due <= at
      BY <1>8, <2>0, <2>1 DEF LoopRunsDue, at
    <3>2. task'[t].last = at BY <1>4
    <3> HIDE DEF t
    <3> QED BY <1>5, <1>7, <2>1, <3>1, <3>2 DEF LoopRunsDue
  <2>2. CASE r # TaskLoop
    <3>1. runner'[TaskLoop] = runner[TaskLoop] BY <1>7, <2>0, <2>2
    <3> SUFFICES ASSUME runner[TaskLoop].pc = "fire",
                        runner[TaskLoop].task \notin excused'
                 PROVE  runner[TaskLoop].due <= task'[runner[TaskLoop].task].last
      BY <1>5, <2>0, <3>1 DEF LoopRunsDue
    <3>2. runner[TaskLoop].task \in Tasks
      BY <1>9, <2>0 DEF SchedulerInv, RunsAreReal
    <3>3. runner[TaskLoop].due <= task[runner[TaskLoop].task].last
      BY <1>5, <2>0 DEF LoopRunsDue
    <3>4. runner[TaskLoop].due \in Int
      BY <1>9, <2>0, TimesAreNumbers DEF SchedulerTypes, Runs
    <3>5. task[runner[TaskLoop].task].last <= task'[runner[TaskLoop].task].last
      BY <1>16, <3>2
    <3>6. /\ task[runner[TaskLoop].task].last \in Int
          /\ task'[runner[TaskLoop].task].last \in Int
      BY <1>15, <3>2
    <3> QED BY <3>3, <3>4, <3>5, <3>6
  <2> QED BY <2>1, <2>2
<1>18. FiredIsBehind'
  <2> SUFFICES ASSUME NEW u \in Tasks, u \notin excused', NEW d \in Times,
                      fired[u][d] # 0
               PROVE  fired[u][d] = 1 /\ d <= task'[u].last /\ <<u, d>> \notin due
    BY <1>5 DEF FiredIsBehind
  <2>1. fired[u][d] = 1 /\ d <= task[u].last /\ <<u, d>> \notin due
    BY <1>5, <1>9 DEF SchedulerInv, FiredIsBehind
  <2>2. task[u].last \in Int /\ task'[u].last \in Int BY <1>15
  <2>3. task[u].last <= task'[u].last BY <1>16
  <2>4. d \in Int BY TimesAreNumbers
  <2> QED BY <2>1, <2>2, <2>3, <2>4
<1>19. NextIsLater'
  <2>1. task'[t].next = Never \/ task'[t].next > task'[t].last
    BY <1>4
  <2>2. NextIsLater BY <1>9 DEF SchedulerInv
  <2> HIDE DEF t
  <2> QED BY <1>1, <1>4, <2>1, <2>2 DEF NextIsLater
<1>20. EnabledExist'
  BY <1>4, <1>9, <1>11 DEF SchedulerInv, EnabledExist, Exists
<1> QED
  BY <1>10, <1>12, <1>13, <1>14, <1>17, <1>18, <1>19, <1>20 DEF SchedulerInv

LEMMA RunFailsInv ==
  ASSUME SchedulerInv, NEW r \in Runners, RunFails(r)
  PROVE  SchedulerInv'
<1> USE DEF SchedulerInv, SchedulerTypes, RunFails
<1>1. runner[r].task \in Tasks /\ Exists(runner[r].task) BY DEF RunsAreReal
<1>2. task' = task /\ due' = due /\ now' = now /\ fired' = fired OBVIOUS
<1>3. excused' = excused \union {runner[r].task} OBVIOUS
<1>4. /\ runner' \in [Runners -> Runs]
      /\ \A q \in Runners \ {r} : runner'[q] = runner[q]
      /\ r = TaskLoop => /\ runner'[r].pc = "fire" /\ runner'[r].task = runner[r].task
                         /\ runner'[r].due = runner[r].due
      /\ r # TaskLoop => runner'[r].pc = "idle"
  BY AfterRunRuns
<1>5. SchedulerInv /\ runner[r].pc # "idle" OBVIOUS
<1> HIDE DEF SchedulerInv, SchedulerTypes, RunFails
<1>6. SchedulerTypes' BY <1>2, <1>4, <1>5 DEF SchedulerInv, SchedulerTypes
<1>7. RunsAreReal'
  <2> SUFFICES ASSUME NEW q \in Runners, runner'[q].pc # "idle"
               PROVE  /\ runner'[q].task \in Tasks
                      /\ Exists(runner'[q].task)
                      /\ runner'[q].pc = "write" =>
                           runner'[q].at \in Times /\ runner'[q].at <= now
    BY <1>2 DEF RunsAreReal, Exists
  <2>1. RunsAreReal BY <1>5 DEF SchedulerInv
  <2>2. CASE q # r BY <1>4, <2>1, <2>2 DEF RunsAreReal
  <2>3. CASE q = r BY <1>1, <1>4, <2>3
  <2> QED BY <2>2, <2>3
<1>8. LoopRunsDue'
  <2>1. LoopRunsDue /\ TaskLoop \in Runners BY <1>5 DEF SchedulerInv, Runners
  <2>2. CASE r = TaskLoop
    <3>1. <<runner[r].task, runner[r].due>> \in due
      BY <1>5, <2>1, <2>2 DEF LoopRunsDue
    <3> QED BY <1>2, <1>3, <1>4, <2>2, <3>1 DEF LoopRunsDue
  <2>3. CASE r # TaskLoop
    <3>1. runner'[TaskLoop] = runner[TaskLoop] BY <1>4, <2>1, <2>3
    <3> QED BY <1>2, <1>3, <2>1, <3>1 DEF LoopRunsDue
  <2> QED BY <2>2, <2>3
<1> QED
  BY <1>2, <1>3, <1>5, <1>6, <1>7, <1>8
  DEF SchedulerInv, RanIsCreated, EnabledExist, DueIsPast, FiredIsBehind, NextIsLater,
    Exists

\* What was fired is not due again: its next time is after its last run.
LEMMA PollInv ==
  ASSUME SchedulerInv, Poll
  PROVE  SchedulerInv'
<1> USE DEF SchedulerInv, SchedulerTypes, Poll
<1>1. \A row \in due' : /\ row[1] \in Tasks
                        /\ row = <<row[1], task[row[1]].next>>
                        /\ task[row[1]].enabled
                        /\ task[row[1]].next # Never
                        /\ task[row[1]].next <= now
  BY DEF IsDue
<1>2. \A row \in due' : task[row[1]].next \in Times
  <2> SUFFICES ASSUME NEW row \in due' PROVE task[row[1]].next \in Times OBVIOUS
  <2>1. task[row[1]].next \in Nat BY <1>1 DEF Rows
  <2> QED BY <1>1, <2>1, SchedulerAssumption DEF Times
<1>3. SchedulerTypes' BY <1>1, <1>2
<1>4. \A row \in due' : Exists(row[1])
  BY <1>1 DEF EnabledExist
<1>5. DueIsPast' BY <1>1, <1>4 DEF DueIsPast, Exists
<1>6. FiredIsBehind'
  <2> SUFFICES ASSUME NEW t \in Tasks, t \notin excused, NEW d \in Times,
                      fired[t][d] # 0, <<t, d>> \in due'
               PROVE  FALSE
    BY DEF FiredIsBehind
  <2>1. d <= task[t].last BY DEF FiredIsBehind
  <2>2. task[t].enabled /\ task[t].next = d /\ d # Never BY <1>1
  <2>3. Exists(t) BY <1>4
  <2>4. task[t] \in Rows OBVIOUS
  <2>5. task[t].last # Never
    BY <2>1, SchedulerAssumption DEF Times, Never
  <2>6. d > task[t].last BY <2>2 DEF NextIsLater
  <2>7. d \in Int /\ task[t].last \in Int
    BY <2>4, SchedulerAssumption DEF Rows, Moments, Times, Never
  <2> QED BY <2>1, <2>6, <2>7
<1> QED
  BY <1>3, <1>5, <1>6
  DEF RunsAreReal, RanIsCreated, EnabledExist, LoopRunsDue, NextIsLater, Exists

LEMMA RunDueInv ==
  ASSUME SchedulerInv, RunDue
  PROVE  SchedulerInv'
<1> USE DEF SchedulerInv, SchedulerTypes, RunDue
<1>1. PICK row \in due :
        runner' = [runner EXCEPT ![TaskLoop] =
          [pc |-> "read", task |-> row[1], at |-> Never, due |-> row[2]]]
  OBVIOUS
<1>2. row[1] \in Tasks /\ row[2] \in Times /\ row = <<row[1], row[2]>> OBVIOUS
<1>3. Exists(row[1]) BY DEF DueIsPast
<1>4. SchedulerTypes' BY <1>1, <1>2 DEF Runs, Moments
<1>5. RunsAreReal' BY <1>1, <1>2, <1>3 DEF RunsAreReal, Exists
<1>6. LoopRunsDue' BY <1>1, <1>2 DEF LoopRunsDue, Runners
<1> QED
  BY <1>4, <1>5, <1>6
  DEF RanIsCreated, EnabledExist, DueIsPast, FiredIsBehind, NextIsLater, Exists

LEMMA FireInv ==
  ASSUME SchedulerInv, Fire
  PROVE  SchedulerInv'
<1> USE DEF SchedulerInv, SchedulerTypes, Fire
<1> DEFINE t == runner[TaskLoop].task
           d == runner[TaskLoop].due
<1>1. <<t, d>> \in due /\ t \in Tasks /\ d \in Times BY DEF LoopRunsDue
<1>2. t \in excused \/ d <= task[t].last BY DEF LoopRunsDue
<1>3. fired' = [fired EXCEPT ![t] = [fired[t] EXCEPT ![d] = fired[t][d] + 1]]
  <2> DEFINE row == <<t, d>>
  <2>1. fired' = [fired EXCEPT ![row[1]] =
                    [fired[row[1]] EXCEPT ![row[2]] = fired[row[1]][row[2]] + 1]]
    <3> HIDE DEF SchedulerInv, SchedulerTypes
    <3> QED OBVIOUS
  <2>2. row[1] = t /\ row[2] = d OBVIOUS
  <2> HIDE DEF row, t, d
  <2> QED BY <2>1, <2>2
<1>4. due' = due \ {<<t, d>>} OBVIOUS
<1>5. runner' = [runner EXCEPT ![TaskLoop] = NoRun] /\ NoRun \in Runs
  BY DEF NoRun, Runs, Moments
<1>6. fired' \in [Tasks -> [Times -> Nat]]
  <2>1. fired \in [Tasks -> [Times -> Nat]] OBVIOUS
  <2> HIDE DEF SchedulerInv, SchedulerTypes, Fire, t, d
  <2> QED BY <1>1, <1>3, <2>1
<1>7. SchedulerTypes'
  <2>1. SchedulerTypes /\ now' = now /\ task' = task OBVIOUS
  <2> HIDE DEF SchedulerInv, Fire, t, d
  <2> QED BY <1>4, <1>5, <1>6, <2>1
<1>8. RunsAreReal' BY <1>5 DEF RunsAreReal, NoRun, Exists
<1>9. LoopRunsDue' BY <1>5 DEF LoopRunsDue, NoRun, Runners
<1>10. FiredIsBehind'
  <2> SUFFICES ASSUME NEW u \in Tasks, u \notin excused, NEW e \in Times,
                      fired'[u][e] # 0
               PROVE  fired'[u][e] = 1 /\ e <= task[u].last /\ <<u, e>> \notin due'
    BY DEF FiredIsBehind
  <2>1. CASE u = t /\ e = d
    <3>1. fired[t][d] = 0 BY <1>1, <2>1 DEF FiredIsBehind
    <3>2. fired'[t][d] = 1 BY <1>1, <1>3, <3>1
    <3> QED BY <1>2, <1>4, <2>1, <3>2
  <2>2. CASE ~(u = t /\ e = d)
    <3>1. fired'[u][e] = fired[u][e] BY <1>1, <1>3, <2>2
    <3> QED BY <1>4, <3>1 DEF FiredIsBehind
  <2> QED BY <2>1, <2>2
<1>11. DueIsPast' BY <1>4 DEF DueIsPast, Exists
<1> QED
  BY <1>7, <1>8, <1>9, <1>10, <1>11
  DEF RanIsCreated, EnabledExist, NextIsLater, Exists

LEMMA TimePassesInv ==
  ASSUME SchedulerInv, TimePasses
  PROVE  SchedulerInv'
<1> USE DEF SchedulerInv, SchedulerTypes, TimePasses
<1>1. now' \in Times /\ now \in Int /\ now' = now + 1
  BY SchedulerAssumption DEF Times
<1>2. SchedulerTypes' BY <1>1
<1>3. RunsAreReal'
  <2> SUFFICES ASSUME NEW r \in Runners, runner[r].pc = "write"
               PROVE  runner[r].at <= now + 1
    BY <1>1 DEF RunsAreReal, Exists
  <2>1. runner[r].at \in Int /\ runner[r].at <= now
    BY SchedulerAssumption DEF RunsAreReal, Times
  <2> QED BY <1>1, <2>1
<1>4. DueIsPast'
  <2> SUFFICES ASSUME NEW row \in due PROVE row[2] <= now + 1
    BY <1>1 DEF DueIsPast, Exists
  <2>1. row[2] \in Int /\ row[2] <= now
    BY SchedulerAssumption DEF DueIsPast, Times
  <2> QED BY <1>1, <2>1
<1> QED
  BY <1>2, <1>3, <1>4
  DEF RanIsCreated, EnabledExist, LoopRunsDue, FiredIsBehind, NextIsLater, Exists

LEMMA RebootInv ==
  ASSUME SchedulerInv, Reboot
  PROVE  SchedulerInv'
<1> USE DEF SchedulerInv, SchedulerTypes, Reboot
<1>1. NoRun \in Runs BY DEF NoRun, Runs, Moments
<1>2. SchedulerTypes' BY <1>1
<1>3. RunsAreReal' /\ LoopRunsDue'
  BY DEF RunsAreReal, LoopRunsDue, NoRun, Runners
<1> QED
  BY <1>2, <1>3
  DEF RanIsCreated, EnabledExist, DueIsPast, FiredIsBehind, NextIsLater, Exists

\* Every step keeps it.
LEMMA SchedulerStepInv ==
  ASSUME SchedulerInv, [SchedulerNext]_schedulerVars
  PROVE  SchedulerInv'
<1>1. ASSUME NEW t \in Tasks, NEW cron \in Crons, NEW enabled \in BOOLEAN,
             CreateTask(t, cron, enabled)
      PROVE  SchedulerInv'
  BY <1>1, CreateTaskInv
<1>2. ASSUME NEW u \in Users, NEW t \in Tasks, RunByHand(u, t)
      PROVE  SchedulerInv'
  BY <1>2, RunByHandInv
<1>3. ASSUME NEW r \in Runners, ReadTask(r) \/ WriteRun(r) \/ RunFails(r)
      PROVE  SchedulerInv'
  BY <1>3, ReadTaskInv, WriteRunInv, RunFailsInv
<1>4. CASE Poll BY <1>4, PollInv
<1>5. CASE RunDue BY <1>5, RunDueInv
<1>6. CASE Fire BY <1>6, FireInv
<1>7. CASE TimePasses BY <1>7, TimePassesInv
<1>8. CASE Reboot BY <1>8, RebootInv
<1>9. CASE UNCHANGED schedulerVars
  BY <1>9
  DEF schedulerVars, SchedulerInv, SchedulerTypes, RunsAreReal, RanIsCreated,
      EnabledExist, DueIsPast, LoopRunsDue, FiredIsBehind, NextIsLater, Exists
<1> QED
  BY <1>1, <1>2, <1>3, <1>4, <1>5, <1>6, <1>7, <1>8, <1>9
  DEF SchedulerNext, LoopSteps, Runners

-----------------------------------------------------------------------------
(* The theorems.                                                           *)

\* The invariant holds of every behaviour of the scheduler.
LEMMA SchedulerKeepsInv == SchedulerSpec => []SchedulerInv
BY SchedulerInitInv, SchedulerStepInv, PTL DEF SchedulerSpec

\* The loop fires a task for a time once at most, over restarts and runs by
\* hand, unless a run failed or wrote over a later one.
THEOREM FiredOnceAtMost == SchedulerSpec => []FiredOnce
<1>1. SchedulerInv => FiredOnce
  <2>1. ASSUME SchedulerInv, NEW t \in Tasks \ excused, NEW d \in Times
        PROVE  fired[t][d] <= 1
    <3>1. fired[t][d] = 0 \/ fired[t][d] = 1 BY <2>1 DEF SchedulerInv, FiredIsBehind
    <3> QED BY <3>1
  <2> QED BY <2>1 DEF FiredOnce
<1> QED BY <1>1, SchedulerKeepsInv, PTL

-----------------------------------------------------------------------------
(* Research jobs.  JobTellsTruth speaks of rows and files; what makes it    *)
(* inductive is how far the request that writes them is.                    *)

JobsTypes ==
  /\ job \in [Jobs -> {"none", "running", "completed"}]
  /\ file \in [Jobs -> {"none", "part", "whole"}]
  /\ making \in [Jobs -> {"idle", "sources", "file", "register", "complete", "audit",
                          "over"}]
  /\ artifacts \subseteq Jobs
  /\ stopped \subseteq Jobs

\* How far a request is says what there is of its job.
RequestLeadsJob ==
  \A j \in Jobs :
    /\ making[j] = "idle" => job[j] = "none"
    /\ making[j] \in {"sources", "file", "register", "complete"} => job[j] = "running"
    /\ making[j] = "audit" => job[j] = "completed"
    /\ making[j] = "register" => file[j] = "whole"
    /\ making[j] = "complete" /\ j \in Filed => j \in artifacts

\* A request that has registered an artifact writes its file no more.
ArtifactsAreLate ==
  \A j \in artifacts : making[j] \in {"complete", "audit", "over"}

JobsInv ==
  /\ JobsTypes
  /\ RequestLeadsJob
  /\ ArtifactsAreLate
  /\ JobTellsTruth

LEMMA JobsInitInv == JobsInit => JobsInv
BY JobsAssumption
   DEF JobsInit, JobsInv, JobsTypes, RequestLeadsJob, ArtifactsAreLate,
       JobTellsTruth, CompletedIsFiled, RunningIsWorkedOn

\* A step of one request touches the rows and the files of one job.
LEMMA JobsStepInv ==
  ASSUME JobsInv, [JobsNext]_jobVars
  PROVE  JobsInv'
<1> USE JobsAssumption
    DEF JobsInv, JobsTypes, RequestLeadsJob, ArtifactsAreLate, JobTellsTruth,
        CompletedIsFiled, RunningIsWorkedOn, Goes
<1>1. ASSUME NEW j \in Jobs, CreateJob(j)
      PROVE  JobsInv'
  BY <1>1 DEF CreateJob
<1>2. ASSUME NEW j \in Jobs, BuildReport(j)
      PROVE  JobsInv'
  BY <1>2 DEF BuildReport
<1>3. ASSUME NEW j \in Jobs, WriteReport(j)
      PROVE  JobsInv'
  BY <1>3 DEF WriteReport
<1>4. ASSUME NEW j \in Jobs, Register(j)
      PROVE  JobsInv'
  BY <1>4 DEF Register
<1>5. ASSUME NEW j \in Jobs, Complete(j)
      PROVE  JobsInv'
  BY <1>5 DEF Complete
<1>6. ASSUME NEW j \in Jobs, AuditJob(j)
      PROVE  JobsInv'
  BY <1>6 DEF AuditJob
<1>7. ASSUME NEW j \in Jobs, Stop(j)
      PROVE  JobsInv'
  BY <1>7 DEF Stop
<1>8. CASE UNCHANGED jobVars BY <1>8 DEF jobVars
<1> QED BY <1>1, <1>2, <1>3, <1>4, <1>5, <1>6, <1>7, <1>8 DEF JobsNext

\* An artifact has its whole file, a completed job its artifact, and a job stays
\* "running" only if its request was cut short, at whatever step that happens.
THEOREM JobsTellTruth == JobsSpec => []JobTellsTruth
<1>1. JobsInit => JobsInv BY JobsInitInv
<1>2. JobsInv /\ [JobsNext]_jobVars => JobsInv' BY JobsStepInv
<1>3. JobsInv => JobTellsTruth BY DEF JobsInv
<1> QED BY <1>1, <1>2, <1>3, PTL DEF JobsSpec

-----------------------------------------------------------------------------
(* A command of the client.  As long as no elevation and no approval ends   *)
(* under way, an attempt that had to ask took no step the gate watches, and *)
(* the attempt after it is granted every one: NothingTaken and ClientShows. *)

ClientStates ==
  [pc : Settled \union {"ask", "steps", "confirm"}, attempt : {1, 2},
   token : Approvals \union {NoApproval}, asked : Approvals \union {NoApproval}]

PlanTypes ==
  /\ plan \in Seq(StepKinds)
  /\ goOn \in BOOLEAN
  /\ elevated \in BOOLEAN
  /\ lapsed \in BOOLEAN
  /\ client \in ClientStates
  /\ step \in 1 .. Len(plan) + 1
  /\ token \in [Approvals -> {"none", "pending", "approved", "lapsed"}]
  /\ taken \in [1 .. Len(plan) -> Nat]

\* The steps the gate watches.
Watched == {i \in 1 .. Len(plan) : plan[i] # "free"}

\* The second attempt shows an approval, and only the first has to ask, unless
\* something lapsed.
ClientShows ==
  /\ client.attempt = 1 => client.token = NoApproval
  /\ client.attempt = 2 /\ ~lapsed => client.token = 1 /\ token[1] = "approved"
  /\ client.pc = "confirm" => client.asked = client.attempt
  /\ client.pc = "confirm" /\ ~lapsed => client.attempt = 1

\* No watched step was taken before a confirmation, nor the ones ahead.
NothingTaken ==
  ~lapsed =>
    /\ client.attempt = 1 /\ ~elevated => \A i \in Watched : taken[i] = 0
    /\ client.pc \in {"ask", "confirm"} => \A i \in Watched : taken[i] = 0
    /\ client.pc = "steps" => \A i \in Watched : i >= step => taken[i] = 0

\* Unless the plan goes on over errors, the steps behind were taken.
StepsBehind ==
  ~goOn =>
    /\ client.pc = "steps" => inAttempt = 1 .. (step - 1)
    /\ client.pc = "succeeded" => inAttempt = 1 .. Len(plan)

\* What was approved was shown, or is about to be.
ApprovedIsShown ==
  ~lapsed => \A k \in Approvals : token[k] = "approved" =>
    k \in shown \/ (client.pc = "ask" /\ client.token = k)

PlanInv ==
  /\ PlanTypes
  /\ ClientShows
  /\ NothingTaken
  /\ StepsBehind
  /\ ApprovedIsShown
  /\ GatedOnce

LEMMA PlanInitInv == PlanInit => PlanInv
<1> SUFFICES ASSUME PlanInit PROVE PlanInv OBVIOUS
<1>1. plan \in Seq(StepKinds) /\ Len(plan) \in Nat BY PlanAssumption DEF PlanInit
<1>2. PlanTypes
  <2>1. client \in ClientStates
    BY DEF PlanInit, ClientStates, NoApproval, Approvals, Settled
  <2>2. step \in 1 .. Len(plan) + 1
    <3>1. step = 1 BY DEF PlanInit
    <3> QED BY <1>1, <3>1
  <2>4. elevated \in BOOLEAN /\ lapsed \in BOOLEAN BY DEF PlanInit
  <2>3. /\ token \in [Approvals -> {"none", "pending", "approved", "lapsed"}]
        /\ taken \in [1 .. Len(plan) -> Nat]
    BY DEF PlanInit
  <2> QED BY <1>1, <2>1, <2>2, <2>3, <2>4 DEF PlanInit, PlanTypes
<1> QED
  BY <1>1, <1>2
  DEF PlanInit, PlanInv, ClientShows, NothingTaken, StepsBehind, ApprovedIsShown,
      GatedOnce, Watched, Settled

\* What the gate grants, as long as nothing lapsed: free steps, everything while
\* elevated, and everything in the second attempt.
LEMMA WhatIsGranted ==
  ASSUME PlanInv, AtStep
  PROVE  /\ Granted /\ client.attempt = 1 => plan[step] = "free" \/ elevated
         /\ client.attempt = 2 /\ ~lapsed => Granted
BY DEF PlanInv, PlanTypes, ClientShows, AtStep, Granted, NoApproval, ClientStates

LEMMA AskInv ==
  ASSUME PlanInv, Ask
  PROVE  PlanInv'
<1>1. PlanTypes'
  <2>1. Len(plan) \in Nat BY DEF PlanInv, PlanTypes
  <2>2. client' \in ClientStates BY DEF Ask, PlanInv, PlanTypes, ClientStates
  <2>3. step' \in 1 .. Len(plan) + 1 BY <2>1 DEF Ask
  <2> QED BY <2>2, <2>3 DEF Ask, PlanInv, PlanTypes
<1>2. (ClientShows /\ NothingTaken /\ StepsBehind /\ ApprovedIsShown /\ GatedOnce)'
  BY DEF Ask, PlanInv, PlanTypes, ClientStates, ClientShows, NothingTaken, StepsBehind,
         ApprovedIsShown, GatedOnce, Watched, Settled
<1> QED BY <1>1, <1>2 DEF PlanInv

LEMMA ConfirmInv ==
  ASSUME PlanInv, Confirm
  PROVE  PlanInv'
<1> USE DEF Confirm, PlanInv, PlanTypes, ClientStates, Settled
<1>1. client.asked = client.attempt /\ client.asked \in Approvals
  BY DEF ClientShows, Approvals
<1>2. CASE token[client.asked] = "pending"
  <2>0. /\ token' = [token EXCEPT ![client.asked] = "approved"]
        /\ client' = [client EXCEPT
             !.pc = IF client.attempt = 2 THEN "failed" ELSE "ask",
             !.attempt = 2, !.token = client.asked]
    BY <1>2
  <2>1. PlanTypes'
    <3>1. client' \in ClientStates BY <1>1, <2>0
    <3> QED BY <1>1, <2>0, <3>1
  <2>2. (ClientShows /\ NothingTaken /\ StepsBehind /\ ApprovedIsShown /\ GatedOnce)'
    BY <1>1, <2>0, <2>1 DEF ClientShows, NothingTaken, StepsBehind, ApprovedIsShown,
                      GatedOnce, Watched, NoApproval
  <2> QED BY <2>1, <2>2
<1>3. CASE token[client.asked] # "pending"
  <2>1. PlanTypes' BY <1>3
  <2>2. (ClientShows /\ NothingTaken /\ StepsBehind /\ ApprovedIsShown /\ GatedOnce)'
    BY <1>3 DEF ClientShows, NothingTaken, StepsBehind, ApprovedIsShown, GatedOnce,
                Watched
  <2> QED BY <2>1, <2>2
<1> QED BY <1>2, <1>3

LEMMA DisconnectInv ==
  ASSUME PlanInv, Disconnect
  PROVE  PlanInv'
<1>1. PlanTypes'
  BY DEF Disconnect, PlanInv, PlanTypes, ClientStates, Settled
<1>2. (ClientShows /\ NothingTaken /\ StepsBehind /\ ApprovedIsShown /\ GatedOnce)'
  BY DEF Disconnect, PlanInv, PlanTypes, ClientStates, ClientShows, NothingTaken,
         StepsBehind, ApprovedIsShown, GatedOnce, Watched, Settled
<1> QED BY <1>1, <1>2 DEF PlanInv

\* A watched step is taken only if it was not before: in the first attempt it is
\* ahead, and before the second none was taken.
LEMMA TakeStepInv ==
  ASSUME PlanInv, TakeStep
  PROVE  PlanInv'
<1> USE DEF PlanInv
<1>1. /\ plan \in Seq(StepKinds) /\ Len(plan) \in Nat /\ client \in ClientStates
      /\ step \in 1 .. Len(plan) /\ client.pc = "steps" /\ taken[step] \in Nat
  BY DEF TakeStep, AtStep, PlanTypes
<1>2. /\ step' = step + 1
      /\ client' = [client EXCEPT !.pc = IF step = Len(plan) THEN "succeeded"
                                                             ELSE "steps"]
      /\ taken' = [taken EXCEPT ![step] = taken[step] + 1]
      /\ inAttempt' = inAttempt \union {step}
      /\ UNCHANGED <<plan, goOn, elevated, token, shown, lapsed>>
  BY DEF TakeStep, Advance, After, PlanTypes
<1>3. PlanTypes'
  <2>1. client' \in ClientStates BY <1>1, <1>2 DEF ClientStates, Settled
  <2>2. taken' \in [1 .. Len(plan) -> Nat] BY <1>1, <1>2 DEF PlanTypes
  <2>3. step' \in 1 .. Len(plan) + 1 BY <1>1, <1>2
  <2> QED BY <1>2, <2>1, <2>2, <2>3 DEF PlanTypes
<1>4. client.attempt = 1 => plan[step] = "free" \/ elevated
  BY WhatIsGranted DEF TakeStep
<1>5. ClientShows' BY <1>1, <1>2 DEF ClientShows, ClientStates
<1>6. NothingTaken' BY <1>1, <1>2, <1>4 DEF NothingTaken, ClientStates, Watched, PlanTypes
<1>7. StepsBehind' BY <1>1, <1>2 DEF StepsBehind, ClientStates
<1>8. ApprovedIsShown' BY <1>1, <1>2 DEF ApprovedIsShown, ClientStates
<1>9. GatedOnce'
  BY <1>1, <1>2 DEF GatedOnce, NothingTaken, Watched, PlanTypes
<1> QED BY <1>3, <1>5, <1>6, <1>7, <1>8, <1>9

LEMMA AskStepInv ==
  ASSUME PlanInv, AskStep
  PROVE  PlanInv'
<1>1. client.attempt \in Approvals
  BY DEF PlanInv, PlanTypes, ClientStates, Approvals
<1>2. ~lapsed => client.attempt = 1
  BY WhatIsGranted DEF AskStep, PlanInv, PlanTypes, ClientStates
<1>3. PlanTypes'
  BY <1>1 DEF AskStep, AtStep, PlanInv, PlanTypes, ClientStates
<1>4. ~elevated BY DEF AskStep, Granted
<1>5. (ClientShows /\ NothingTaken /\ StepsBehind /\ ApprovedIsShown /\ GatedOnce)'
  BY <1>1, <1>2, <1>4
  DEF AskStep, AtStep, PlanInv, PlanTypes, ClientStates, ClientShows, NothingTaken,
      StepsBehind, ApprovedIsShown, GatedOnce, Watched, Settled
<1> QED BY <1>3, <1>5 DEF PlanInv

LEMMA FailStepInv ==
  ASSUME PlanInv, FailStep
  PROVE  PlanInv'
<1> USE DEF PlanInv
<1>1. /\ Len(plan) \in Nat /\ client \in ClientStates /\ step \in 1 .. Len(plan)
      /\ client.pc = "steps"
      /\ UNCHANGED <<plan, goOn, elevated, token, taken, inAttempt, shown, lapsed>>
  BY DEF FailStep, AtStep, PlanTypes
<1>2. CASE goOn /\ Advance(After)
  <2>1. step' = step + 1 /\ \E p \in {"succeeded", "steps"} :
                              client' = [client EXCEPT !.pc = p]
    BY <1>2 DEF Advance, After
  <2>2. PlanTypes' BY <1>1, <2>1 DEF PlanTypes, ClientStates, Settled
  <2>3. (ClientShows /\ NothingTaken /\ StepsBehind /\ ApprovedIsShown /\ GatedOnce)'
    BY <1>1, <1>2, <2>1 DEF ClientStates, ClientShows, NothingTaken, StepsBehind,
                            ApprovedIsShown, GatedOnce, Watched
  <2> QED BY <2>2, <2>3
<1>3. CASE client' = [client EXCEPT !.pc = "failed"] /\ UNCHANGED step
  <2>1. PlanTypes' BY <1>1, <1>3 DEF PlanTypes, ClientStates, Settled
  <2>2. (ClientShows /\ NothingTaken /\ StepsBehind /\ ApprovedIsShown /\ GatedOnce)'
    BY <1>1, <1>3 DEF ClientStates, ClientShows, NothingTaken, StepsBehind,
                      ApprovedIsShown, GatedOnce, Watched
  <2> QED BY <2>1, <2>2
<1> QED BY <1>2, <1>3 DEF FailStep

\* The user and time: what ends an elevation or an approval lapses.
LEMMA UserInv ==
  ASSUME PlanInv, \/ Elevation \/ ElevationEnds
                  \/ \E k \in Approvals : TokenLapses(k)
  PROVE  PlanInv'
BY DEF Elevation, ElevationEnds, TokenLapses, PlanInv, PlanTypes, ClientShows,
       NothingTaken, StepsBehind, ApprovedIsShown, GatedOnce, Watched

LEMMA PlanStepInv ==
  ASSUME PlanInv, [PlanNext]_planVars
  PROVE  PlanInv'
<1>1. CASE UNCHANGED planVars
  BY <1>1 DEF planVars, PlanInv, PlanTypes, ClientShows, NothingTaken, StepsBehind,
              ApprovedIsShown, GatedOnce, Watched
<1> QED
  BY <1>1, AskInv, ConfirmInv, DisconnectInv, TakeStepInv, AskStepInv, FailStepInv,
     UserInv DEF PlanNext

LEMMA PlanKeepsInv == PlanSpec => []PlanInv
BY PlanInitInv, PlanStepInv, PTL DEF PlanSpec

\* The plan is asked for twice, but a step the gate watches is not taken twice,
\* unless an elevation or an approval ended under way.
THEOREM GatedStepsOnce == PlanSpec => []GatedOnce
<1>1. PlanInv => GatedOnce BY DEF PlanInv
<1> QED BY <1>1, PlanKeepsInv, PTL

\* Success means that the last attempt took every step of the plan.
THEOREM SuccessTakesAll == PlanSpec => []SuccessIsWholePlan
<1>1. PlanInv => SuccessIsWholePlan BY DEF PlanInv, StepsBehind, SuccessIsWholePlan
<1> QED BY <1>1, PlanKeepsInv, PTL

\* The client approves no token that it does not then show.
THEOREM ApprovalsAreShown == PlanSpec => []NoIdleApproval
<1>1. PlanInv => NoIdleApproval
  BY DEF PlanInv, ApprovedIsShown, NoIdleApproval, Settled
<1> QED BY <1>1, PlanKeepsInv, PTL
=============================================================================
