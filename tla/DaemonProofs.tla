----------------------------- MODULE DaemonProofs ---------------------------
(***************************************************************************)
(* Theorems about the daemon, for any requests and any bounds: while those *)
(* who start and stop it come one after the other, there is at every step  *)
(* of a start or a stop just what that step has made or left.              *)
(*                                                                         *)
(* How the numbers of heartbeats and schedulers are chosen does not matter *)
(* to this, and the proof says nothing of it.                              *)
(***************************************************************************)
EXTENDS Daemon, TLAPS

Labels == Starting \union Stopping \union AtRest \union {"look"}

JobShapes ==
  /\ DOMAIN job = Jobs
  /\ \A j \in Jobs : /\ {"pc", "then", "hand"} \subseteq DOMAIN job[j]
                     /\ job[j].pc \in Labels
                     /\ job[j].then \in {"test", Finished(j)}

\* A daemon that runs has its heartbeat, no other, and its scheduler; one that
\* does not has no heartbeat.
Consistent ==
  /\ running => heart \in beats /\ cron \in crons /\ beats \subseteq {heart}
  /\ ~running => beats = {}

\* What there is at each step of the one start or stop under way.
Stage(x) ==
  /\ x.pc \in {"test", "look"} => Consistent
  /\ x.pc = "spawn" => running /\ beats = {}
  /\ x.pc = "keep_heart" => running /\ beats = {x.hand}
  /\ x.pc = "make_cron" => running /\ beats = {heart}
  /\ x.pc = "keep_cron" => running /\ beats = {heart} /\ x.hand \in crons
  /\ x.pc = "stop" => beats \subseteq {heart}
  /\ x.pc = "take_heart" => ~running /\ beats \subseteq {heart}
  /\ x.pc = "take_cron" => ~running /\ beats = {}

\* A job of a daemon that is to stop is stopping it, for good.
Obeys(j) ==
  /\ job[j].pc \in Stopping \union AtRest
  /\ job[j].pc \in Stopping => job[j].then = Finished(j)

InTurn ==
  /\ \A i, j \in Jobs : job[i].pc \notin AtRest /\ job[j].pc \notin AtRest => i = j
  /\ \A j \in Jobs : Stage(job[j])
  /\ Quiet => Consistent
  /\ ~want => /\ \A j \in Jobs : Obeys(j)
              /\ Quiet => ~running

DaemonInv ==
  /\ JobShapes
  /\ want \in BOOLEAN /\ running \in BOOLEAN /\ crossed \in BOOLEAN
  /\ ~crossed => InTurn

-----------------------------------------------------------------------------
(* What a step of one job does to the others, and to those in turn.        *)

LEMMA Places ==
  /\ AtRest \subseteq Labels /\ Stopping \subseteq Labels /\ Starting \subseteq Labels
  /\ AtRest \intersect (Starting \union Stopping \union {"look"}) = {}
  /\ Watchdog \in Jobs /\ Boot \in Jobs /\ Requests \subseteq Jobs
  /\ \A j \in Jobs : Finished(j) \in AtRest
BY DEF Labels, AtRest, Stopping, Starting, Jobs, Finished

\* One job gets to another place.
Moves(j, pc, then, hand) ==
  /\ DOMAIN job' = Jobs
  /\ \A i \in Jobs \ {j} : job'[i] = job[i]
  /\ {"pc", "then", "hand"} \subseteq DOMAIN job'[j]
  /\ job'[j].pc = pc /\ job'[j].then = then /\ job'[j].hand = hand

LEMMA GotoMoves ==
  ASSUME JobShapes, NEW j \in Jobs, NEW label, Goto(j, label)
  PROVE  Moves(j, label, job[j].then, job[j].hand)
BY DEF JobShapes, Moves, Goto

LEMMA MovesShapes ==
  ASSUME JobShapes, NEW j \in Jobs, NEW pc \in Labels, NEW then, NEW hand,
         then \in {job[j].then, "test", Finished(j)}, Moves(j, pc, then, hand)
  PROVE  JobShapes'
BY DEF JobShapes, Moves, Finished

\* Nobody else is at work, so it is enough to look at the job that moves.
LEMMA WorkInTurn ==
  ASSUME JobShapes, InTurn, NEW j \in Jobs, job[j].pc \notin AtRest,
         NEW pc, NEW then, NEW hand, Moves(j, pc, then, hand), UNCHANGED want,
         Stage(job[j])', pc \in AtRest => Consistent',
         ~want => /\ pc \in Stopping \union AtRest
                  /\ pc \in Stopping => then = Finished(j)
                  /\ pc \in AtRest => ~running'
  PROVE  InTurn'
<1>1. \A i \in Jobs \ {j} : job[i].pc \in AtRest /\ job'[i] = job[i]
  BY DEF InTurn, Moves
<1>2. \A i, k \in Jobs : job'[i].pc \notin AtRest /\ job'[k].pc \notin AtRest => i = k
  BY <1>1
<1>3. \A i \in Jobs : Stage(job[i])'
  <2> SUFFICES ASSUME NEW i \in Jobs PROVE Stage(job[i])' OBVIOUS
  <2>1. CASE i = j BY <2>1
  <2>2. CASE i # j BY <1>1, <2>2 DEF Stage, AtRest
  <2> QED BY <2>1, <2>2
<1>4. Quiet' => pc \in AtRest BY DEF Quiet, Moves
<1>5. ~want' => \A i \in Jobs : Obeys(i)'
  <2> SUFFICES ASSUME ~want', NEW i \in Jobs PROVE Obeys(i)' OBVIOUS
  <2>1. CASE i = j BY <2>1 DEF Obeys, Moves, Finished
  <2>2. CASE i # j BY <1>1, <2>2 DEF Obeys, AtRest, Stopping
  <2> QED BY <2>1, <2>2
<1> QED BY <1>2, <1>3, <1>4, <1>5 DEF InTurn

-----------------------------------------------------------------------------
(* Each step of a job keeps DaemonInv.                                     *)

LEMMA TestAndSetInv ==
  ASSUME DaemonInv, NEW j \in Jobs, TestAndSet(j)
  PROVE  DaemonInv'
<1> DEFINE label == IF running THEN Finished(j) ELSE "spawn"
<1>1. /\ job[j].pc = "test" /\ running' = TRUE /\ Goto(j, label)
      /\ UNCHANGED <<want, beats, heart, crons, cron, crossed>>
  BY DEF TestAndSet, calls
<1>2. label \in Labels /\ (running => label \in AtRest) /\ (~running => label = "spawn")
  BY Places DEF Labels, Starting
<1> HIDE DEF label
<1>3. JobShapes /\ Moves(j, label, job[j].then, job[j].hand)
  BY <1>1, GotoMoves DEF DaemonInv
<1>4. JobShapes' BY <1>2, <1>3, MovesShapes
<1>5. ~crossed' => InTurn'
  <2> SUFFICES ASSUME ~crossed' PROVE InTurn' OBVIOUS
  <2>1. InTurn BY <1>1 DEF DaemonInv
  <2>2. Stage(job[j]) /\ (~want => Obeys(j)) BY <2>1 DEF InTurn
  <2>3. Consistent /\ want BY <1>1, <2>2 DEF Stage, Obeys, Stopping, AtRest
  <2>4. running => Consistent' BY <1>1, <2>3 DEF Consistent
  <2>5. Stage(job[j])' BY <1>1, <1>2, <1>3, <2>3 DEF Stage, Moves, AtRest, Consistent
  <2> QED BY <1>1, <1>2, <1>3, <2>1, <2>3, <2>4, <2>5, WorkInTurn DEF AtRest
<1> QED BY <1>1, <1>4, <1>5 DEF DaemonInv

LEMMA SpawnInv ==
  ASSUME DaemonInv, NEW j \in Jobs, Spawn(j)
  PROVE  DaemonInv'
<1> DEFINE b == Fresh(beats \union {heart} \union Held)
<1>1. /\ job[j].pc = "spawn" /\ beats' = beats \union {b}
      /\ job' = [job EXCEPT ![j].pc = "keep_heart", ![j].hand = b]
      /\ UNCHANGED <<want, running, heart, crons, cron, crossed>>
  BY DEF Spawn, calls
<1> HIDE DEF b
<1>2. JobShapes /\ Moves(j, "keep_heart", job[j].then, b)
  BY <1>1 DEF DaemonInv, JobShapes, Moves
<1>3. JobShapes' BY <1>2, MovesShapes DEF Labels, Starting
<1>4. ~crossed' => InTurn'
  <2> SUFFICES ASSUME ~crossed' PROVE InTurn' OBVIOUS
  <2>1. InTurn BY <1>1 DEF DaemonInv
  <2>2. Stage(job[j]) /\ (~want => Obeys(j)) BY <2>1 DEF InTurn
  <2>3. running /\ beats = {} /\ want BY <1>1, <2>2 DEF Stage, Obeys, Stopping, AtRest
  <2>4. Stage(job[j])' BY <1>1, <1>2, <2>3 DEF Stage, Moves
  <2> QED BY <1>1, <1>2, <2>1, <2>3, <2>4, WorkInTurn DEF AtRest
<1> QED BY <1>1, <1>3, <1>4 DEF DaemonInv

LEMMA KeepHeartInv ==
  ASSUME DaemonInv, NEW j \in Jobs, KeepHeart(j)
  PROVE  DaemonInv'
<1>1. /\ job[j].pc = "keep_heart" /\ heart' = job[j].hand
      /\ job' = [job EXCEPT ![j].pc = "make_cron", ![j].hand = Nothing]
      /\ UNCHANGED <<want, running, beats, crons, cron, crossed>>
  BY DEF KeepHeart, calls
<1>2. JobShapes /\ Moves(j, "make_cron", job[j].then, Nothing)
  BY <1>1 DEF DaemonInv, JobShapes, Moves
<1>3. JobShapes' BY <1>2, MovesShapes DEF Labels, Starting
<1>4. ~crossed' => InTurn'
  <2> SUFFICES ASSUME ~crossed' PROVE InTurn' OBVIOUS
  <2>1. InTurn BY <1>1 DEF DaemonInv
  <2>2. Stage(job[j]) /\ (~want => Obeys(j)) BY <2>1 DEF InTurn
  <2>3. running /\ beats = {heart'} /\ want BY <1>1, <2>2 DEF Stage, Obeys, Stopping, AtRest
  <2>4. Stage(job[j])' BY <1>1, <1>2, <2>3 DEF Stage, Moves
  <2> QED BY <1>1, <1>2, <2>1, <2>3, <2>4, WorkInTurn DEF AtRest
<1> QED BY <1>1, <1>3, <1>4 DEF DaemonInv

LEMMA MakeCronInv ==
  ASSUME DaemonInv, NEW j \in Jobs, MakeCron(j)
  PROVE  DaemonInv'
<1>1. job[j].pc = "make_cron" /\ UNCHANGED <<want, running, beats, heart, cron, crossed>>
  BY DEF MakeCron, calls
<1>2. ~crossed => /\ InTurn /\ running /\ beats = {heart} /\ want
  <2> SUFFICES ASSUME ~crossed PROVE InTurn /\ running /\ beats = {heart} /\ want OBVIOUS
  <2>1. InTurn BY DEF DaemonInv
  <2>2. Stage(job[j]) /\ (~want => Obeys(j)) BY <2>1 DEF InTurn
  <2> QED BY <1>1, <2>1, <2>2 DEF Stage, Obeys, Stopping, AtRest
<1>3. JobShapes BY DEF DaemonInv
<1>4. CASE /\ job' = [job EXCEPT ![j].pc = "stop", ![j].then = Finished(j)]
           /\ UNCHANGED crons
  <2>1. Moves(j, "stop", Finished(j), job[j].hand) BY <1>3, <1>4 DEF JobShapes, Moves
  <2>2. JobShapes' BY <1>3, <2>1, MovesShapes DEF Labels, Stopping
  <2>3. ~crossed' => InTurn'
    <3> SUFFICES ASSUME ~crossed' PROVE InTurn' OBVIOUS
    <3>1. Stage(job[j])' BY <1>1, <1>2, <2>1 DEF Stage, Moves
    <3> QED BY <1>1, <1>2, <1>3, <2>1, <3>1, WorkInTurn DEF AtRest
  <2> QED BY <1>1, <2>2, <2>3 DEF DaemonInv
<1>5. CASE ~(/\ job' = [job EXCEPT ![j].pc = "stop", ![j].then = Finished(j)]
             /\ UNCHANGED crons)
  <2> DEFINE c == Fresh(crons \union {cron} \union Held)
  <2>1. /\ crons' = crons \union {c}
        /\ job' = [job EXCEPT ![j].pc = "keep_cron", ![j].hand = c]
    BY <1>5 DEF MakeCron
  <2> HIDE DEF c
  <2>2. Moves(j, "keep_cron", job[j].then, c) BY <1>3, <2>1 DEF JobShapes, Moves
  <2>3. JobShapes' BY <1>3, <2>2, MovesShapes DEF Labels, Starting
  <2>4. ~crossed' => InTurn'
    <3> SUFFICES ASSUME ~crossed' PROVE InTurn' OBVIOUS
    <3>1. Stage(job[j])' BY <1>1, <1>2, <2>1, <2>2 DEF Stage, Moves
    <3> QED BY <1>1, <1>2, <1>3, <2>2, <3>1, WorkInTurn DEF AtRest
  <2> QED BY <1>1, <2>3, <2>4 DEF DaemonInv
<1> QED BY <1>4, <1>5

LEMMA KeepCronInv ==
  ASSUME DaemonInv, NEW j \in Jobs, KeepCron(j)
  PROVE  DaemonInv'
<1>1. /\ job[j].pc = "keep_cron" /\ cron' = job[j].hand
      /\ job' = [job EXCEPT ![j].pc = Finished(j), ![j].hand = Nothing]
      /\ UNCHANGED <<want, running, beats, heart, crons, crossed>>
  BY DEF KeepCron, calls
<1>2. JobShapes /\ Moves(j, Finished(j), job[j].then, Nothing)
  BY <1>1 DEF DaemonInv, JobShapes, Moves
<1>3. JobShapes' BY <1>2, MovesShapes, Places
<1>4. ~crossed' => InTurn'
  <2> SUFFICES ASSUME ~crossed' PROVE InTurn' OBVIOUS
  <2>1. InTurn BY <1>1 DEF DaemonInv
  <2>2. Stage(job[j]) /\ (~want => Obeys(j)) BY <2>1 DEF InTurn
  <2>3. running /\ beats = {heart} /\ cron' \in crons /\ want
    BY <1>1, <2>2 DEF Stage, Obeys, Stopping, AtRest
  <2>4. Consistent' BY <1>1, <2>3 DEF Consistent
  <2>5. Stage(job[j])' BY <1>2 DEF Stage, Moves, Finished
  <2> QED BY <1>1, <1>2, <2>1, <2>3, <2>4, <2>5, WorkInTurn DEF AtRest
<1> QED BY <1>1, <1>3, <1>4 DEF DaemonInv

LEMMA StopInv ==
  ASSUME DaemonInv, NEW j \in Jobs, Stop(j)
  PROVE  DaemonInv'
<1>1. /\ job[j].pc = "stop" /\ running' = FALSE /\ Goto(j, "take_heart")
      /\ UNCHANGED <<want, beats, heart, crons, cron, crossed>>
  BY DEF Stop, calls
<1>2. JobShapes /\ Moves(j, "take_heart", job[j].then, job[j].hand)
  BY <1>1, GotoMoves DEF DaemonInv
<1>3. JobShapes' BY <1>2, MovesShapes DEF Labels, Stopping
<1>4. ~crossed' => InTurn'
  <2> SUFFICES ASSUME ~crossed' PROVE InTurn' OBVIOUS
  <2>1. InTurn BY <1>1 DEF DaemonInv
  <2>2. Stage(job[j]) /\ (~want => Obeys(j)) BY <2>1 DEF InTurn
  <2>3. beats \subseteq {heart} /\ (~want => job[j].then = Finished(j))
    BY <1>1, <2>2 DEF Stage, Obeys, Stopping
  <2>4. Stage(job[j])' BY <1>1, <1>2, <2>3 DEF Stage, Moves
  <2> QED BY <1>1, <1>2, <2>1, <2>3, <2>4, WorkInTurn DEF AtRest, Stopping
<1> QED BY <1>1, <1>3, <1>4 DEF DaemonInv

LEMMA TakeHeartInv ==
  ASSUME DaemonInv, NEW j \in Jobs, TakeHeart(j)
  PROVE  DaemonInv'
<1>1. /\ job[j].pc = "take_heart" /\ beats' = beats \ {heart} /\ Goto(j, "take_cron")
      /\ UNCHANGED <<want, running, crons, cron, crossed>>
  BY DEF TakeHeart, calls
<1>2. JobShapes /\ Moves(j, "take_cron", job[j].then, job[j].hand)
  BY <1>1, GotoMoves DEF DaemonInv
<1>3. JobShapes' BY <1>2, MovesShapes DEF Labels, Stopping
<1>4. ~crossed' => InTurn'
  <2> SUFFICES ASSUME ~crossed' PROVE InTurn' OBVIOUS
  <2>1. InTurn BY <1>1 DEF DaemonInv
  <2>2. Stage(job[j]) /\ (~want => Obeys(j)) BY <2>1 DEF InTurn
  <2>3. ~running /\ beats \subseteq {heart} /\ (~want => job[j].then = Finished(j))
    BY <1>1, <2>2 DEF Stage, Obeys, Stopping
  <2>4. Stage(job[j])' BY <1>1, <1>2, <2>3 DEF Stage, Moves
  <2> QED BY <1>1, <1>2, <2>1, <2>3, <2>4, WorkInTurn DEF AtRest, Stopping
<1> QED BY <1>1, <1>3, <1>4 DEF DaemonInv

LEMMA TakeCronInv ==
  ASSUME DaemonInv, NEW j \in Jobs, TakeCron(j)
  PROVE  DaemonInv'
<1>1. /\ job[j].pc = "take_cron" /\ Goto(j, job[j].then)
      /\ UNCHANGED <<want, running, beats, heart, crossed>>
  BY DEF TakeCron, calls
<1>2. JobShapes /\ job[j].then \in {"test", Finished(j)} BY DEF DaemonInv, JobShapes
<1>3. Moves(j, job[j].then, job[j].then, job[j].hand) BY <1>1, <1>2, GotoMoves
<1>4. JobShapes'
  <2>1. job[j].then \in Labels BY <1>2, Places DEF Labels, Starting
  <2> QED BY <1>2, <1>3, <2>1, MovesShapes
<1>5. ~crossed' => InTurn'
  <2> SUFFICES ASSUME ~crossed' PROVE InTurn' OBVIOUS
  <2>1. InTurn BY <1>1 DEF DaemonInv
  <2>2. Stage(job[j]) /\ (~want => Obeys(j)) BY <2>1 DEF InTurn
  <2>3. ~running /\ beats = {} /\ (~want => job[j].then = Finished(j))
    BY <1>1, <2>2 DEF Stage, Obeys, Stopping
  <2>4. Consistent' BY <1>1, <2>3 DEF Consistent
  <2>5. Stage(job[j])' BY <1>2, <1>3, <2>4 DEF Stage, Moves, Finished
  <2>6. ~want => job[j].then \in AtRest /\ job[j].then \notin Stopping
    BY <2>3 DEF AtRest, Stopping, Finished
  <2>7. ~running' BY <1>1, <2>3
  <2> QED BY <1>1, <1>2, <1>3, <2>1, <2>4, <2>5, <2>6, <2>7, WorkInTurn DEF AtRest
<1> QED BY <1>1, <1>4, <1>5 DEF DaemonInv

-----------------------------------------------------------------------------
(* So do the heartbeats, the requests and the watchdog.                    *)

LEMMA BeatInv ==
  ASSUME DaemonInv, NEW b \in beats, Beat(b)
  PROVE  DaemonInv'
<1>1. /\ ~running /\ beats' \subseteq beats
      /\ UNCHANGED <<want, running, heart, crons, cron, job, crossed>>
  BY DEF Beat, calls
<1>2. JobShapes' BY <1>1 DEF DaemonInv, JobShapes
<1>3. ~crossed' => InTurn'
  <2> SUFFICES ASSUME ~crossed' PROVE InTurn' OBVIOUS
  <2>1. InTurn BY <1>1 DEF DaemonInv
  <2>2. Consistent => Consistent' BY <1>1 DEF Consistent
  <2>3. ASSUME NEW j \in Jobs PROVE Stage(job[j])'
    <3>1. Stage(job[j]) BY <2>1 DEF InTurn
    <3> QED BY <1>1, <2>2, <3>1 DEF Stage
  <2> QED BY <1>1, <2>1, <2>2, <2>3 DEF InTurn, Quiet, Obeys
<1> QED BY <1>1, <1>2, <1>3 DEF DaemonInv

\* Whoever comes when all is quiet does not cross anybody.
LEMMA Comes ==
  ASSUME DaemonInv, NEW j \in Jobs, NEW pc \in {"test", "stop", "look"}, NEW then, NEW hand,
         job[j].pc \in AtRest, Moves(j, pc, then, hand), Crossing, UNCHANGED service,
         want' \in BOOLEAN, ~want' => pc = "stop" /\ then = Finished(j)
  PROVE  ~crossed' => InTurn'
<1> SUFFICES ASSUME ~crossed' PROVE InTurn' OBVIOUS
<1>1. ~crossed /\ Quiet BY DEF Crossing
<1>2. InTurn /\ Consistent BY <1>1 DEF DaemonInv, InTurn
<1>3. UNCHANGED <<running, beats, heart, crons, cron>> BY DEF service
<1>4. Consistent' BY <1>2, <1>3 DEF Consistent
<1>5. \A i \in Jobs \ {j} : job'[i] = job[i] /\ job[i].pc \in AtRest
  BY <1>1 DEF Moves, Quiet
<1>6. job'[j].pc = pc /\ job'[j].then = then BY DEF Moves
<1>7. pc \notin AtRest BY DEF AtRest
<1>8. \A i, k \in Jobs : job'[i].pc \notin AtRest /\ job'[k].pc \notin AtRest => i = k
  BY <1>5
<1>9. ~Quiet' BY <1>6, <1>7 DEF Quiet
<1>10. beats' \subseteq {heart'} BY <1>4 DEF Consistent
<1>11. ASSUME NEW i \in Jobs PROVE Stage(job[i])'
  <2>1. CASE i = j BY <1>4, <1>6, <1>10, <2>1 DEF Stage
  <2>2. CASE i # j BY <1>5, <2>2 DEF Stage, AtRest
  <2> QED BY <2>1, <2>2
<1>12. ASSUME ~want', NEW i \in Jobs PROVE Obeys(i)'
  <2>1. CASE i = j BY <1>6, <1>12, <2>1 DEF Obeys, Stopping, Finished
  <2>2. CASE i # j BY <1>5, <2>2 DEF Obeys, AtRest, Stopping
  <2> QED BY <2>1, <2>2
<1> QED BY <1>8, <1>9, <1>11, <1>12 DEF InTurn

LEMMA RequestInv ==
  ASSUME DaemonInv, NEW r \in Requests, NEW work \in {"start", "stop", "restart"},
         Request(r, work)
  PROVE  DaemonInv'
<1> DEFINE x == CASE work = "start"   -> Job("test", "done")
                  [] work = "stop"    -> Job("stop", "done")
                  [] work = "restart" -> Job("stop", "test")
<1>1. /\ job[r].pc = "done" /\ want' = (work # "stop") /\ job' = [job EXCEPT ![r] = x]
      /\ Crossing /\ UNCHANGED service /\ UNCHANGED running
  BY DEF Request, service
<1>2. JobShapes /\ r \in Jobs /\ r # Watchdog
  BY DaemonAssumption DEF DaemonInv, Jobs
<1>3. /\ {"pc", "then", "hand"} \subseteq DOMAIN x
      /\ x.pc \in {"test", "stop"} /\ x.then \in {"test", "done"} /\ x.hand = Nothing
      /\ work = "stop" => x.pc = "stop" /\ x.then = "done"
  BY DEF Job
<1> HIDE DEF x
<1>4. Moves(r, x.pc, x.then, Nothing) BY <1>1, <1>2, <1>3 DEF JobShapes, Moves
<1>5. Finished(r) = "done" BY <1>2 DEF Finished
<1>6. JobShapes' BY <1>2, <1>3, <1>4, <1>5, MovesShapes DEF Labels, Starting, Stopping
<1>7. ~want' => x.pc = "stop" /\ x.then = Finished(r) BY <1>1, <1>3, <1>5
<1>8. want' \in BOOLEAN BY <1>1
<1>9. ~crossed' => InTurn' BY <1>1, <1>2, <1>3, <1>4, <1>7, <1>8, Comes DEF AtRest
<1>10. crossed' \in BOOLEAN BY <1>1 DEF Crossing, DaemonInv
<1> QED BY <1>1, <1>6, <1>8, <1>9, <1>10 DEF DaemonInv

LEMMA WatchWantInv ==
  ASSUME DaemonInv, WatchWant
  PROVE  DaemonInv'
<1>1. /\ job[Watchdog].pc = "sleep" /\ want /\ Goto(Watchdog, "look") /\ Crossing
      /\ UNCHANGED <<want, service>> /\ UNCHANGED running
  BY DEF WatchWant, service
<1>2. JobShapes /\ Watchdog \in Jobs BY Places DEF DaemonInv
<1>3. Moves(Watchdog, "look", job[Watchdog].then, job[Watchdog].hand)
  BY <1>1, <1>2, GotoMoves
<1>4. JobShapes' BY <1>2, <1>3, MovesShapes DEF Labels
<1>5. want' \in BOOLEAN /\ want' BY <1>1
<1>6. ~crossed' => InTurn' BY <1>1, <1>2, <1>3, <1>5, Comes DEF AtRest
<1>7. crossed' \in BOOLEAN BY <1>1 DEF Crossing, DaemonInv
<1> QED BY <1>1, <1>4, <1>6, <1>7 DEF DaemonInv

LEMMA WatchLookInv ==
  ASSUME DaemonInv, WatchLook
  PROVE  DaemonInv'
<1> DEFINE label == IF running THEN "sleep" ELSE "test"
<1>1. /\ job[Watchdog].pc = "look" /\ Goto(Watchdog, label)
      /\ UNCHANGED <<want, running, beats, heart, crons, cron, crossed>>
  BY DEF WatchLook, service, calls
<1>2. JobShapes /\ Watchdog \in Jobs BY Places DEF DaemonInv
<1>3. label \in {"sleep", "test"} OBVIOUS
<1> HIDE DEF label
<1>4. Moves(Watchdog, label, job[Watchdog].then, job[Watchdog].hand)
  BY <1>1, <1>2, GotoMoves
<1>5. JobShapes'
  BY <1>2, <1>3, <1>4, MovesShapes DEF Labels, AtRest, Starting
<1>6. ~crossed' => InTurn'
  <2> SUFFICES ASSUME ~crossed' PROVE InTurn' OBVIOUS
  <2>1. InTurn BY <1>1 DEF DaemonInv
  <2>2. Stage(job[Watchdog]) /\ (~want => Obeys(Watchdog)) BY <1>2, <2>1 DEF InTurn
  <2>3. Consistent /\ want BY <1>1, <2>2 DEF Stage, Obeys, Stopping, AtRest
  <2>4. Consistent' BY <1>1, <2>3 DEF Consistent
  <2>5. Stage(job[Watchdog])' BY <1>3, <1>4, <2>4 DEF Stage, Moves
  <2> QED BY <1>1, <1>2, <1>4, <2>1, <2>3, <2>4, <2>5, WorkInTurn DEF AtRest
<1> QED BY <1>1, <1>5, <1>6 DEF DaemonInv

-----------------------------------------------------------------------------
(* The invariant, and what it says.                                        *)

LEMMA DaemonInvInit == Init => DaemonInv
<1> SUFFICES ASSUME Init PROVE DaemonInv OBVIOUS
<1> DEFINE place(j) == CASE j = Boot -> "test" [] j = Watchdog -> "sleep" [] OTHER -> "done"
<1>1. /\ want = TRUE /\ running = FALSE /\ beats = {} /\ crossed = FALSE
      /\ job = [j \in Jobs |-> Job(place(j), Finished(j))]
  BY DEF Init
<1>2. \A j \in Jobs : /\ place(j) \in Labels /\ (j # Boot => place(j) \in AtRest)
                     /\ place(j) \in {"test", "sleep", "done"}
  BY DEF Labels, AtRest, Starting
<1> HIDE DEF place
<1>3. \A j \in Jobs : /\ {"pc", "then", "hand"} \subseteq DOMAIN job[j]
                     /\ job[j].pc = place(j) /\ job[j].then = Finished(j)
  BY <1>1 DEF Job
<1>4. JobShapes BY <1>1, <1>2, <1>3 DEF JobShapes
<1>5. Consistent BY <1>1 DEF Consistent
<1>6. \A j \in Jobs : Stage(job[j]) BY <1>2, <1>3, <1>5 DEF Stage
<1>7. \A i, j \in Jobs : job[i].pc \notin AtRest /\ job[j].pc \notin AtRest => i = j
  BY <1>2, <1>3
<1> QED BY <1>1, <1>4, <1>5, <1>6, <1>7 DEF DaemonInv, InTurn

LEMMA DaemonInvNext == DaemonInv /\ [Next]_vars => DaemonInv'
<1> SUFFICES ASSUME DaemonInv, [Next]_vars PROVE DaemonInv' OBVIOUS
<1>1. ASSUME NEW j \in Jobs, Work(j) PROVE DaemonInv'
  BY <1>1, TestAndSetInv, SpawnInv, KeepHeartInv, MakeCronInv, KeepCronInv, StopInv,
     TakeHeartInv, TakeCronInv
  DEF Work
<1>2. ASSUME NEW b \in beats, Beat(b) PROVE DaemonInv' BY <1>2, BeatInv
<1>3. ASSUME NEW r \in Requests, NEW work \in {"start", "stop", "restart"},
             Request(r, work)
      PROVE  DaemonInv'
  BY <1>3, RequestInv
<1>4. CASE WatchWant BY <1>4, WatchWantInv
<1>5. CASE WatchLook BY <1>5, WatchLookInv
<1>6. CASE UNCHANGED vars
  <2>1. UNCHANGED <<want, running, beats, heart, crons, cron, job, crossed>>
    BY <1>6 DEF vars, service, calls
  <2> QED BY <2>1 DEF DaemonInv, JobShapes, InTurn, Stage, Consistent, Quiet, Obeys
<1> QED BY <1>1, <1>2, <1>3, <1>4, <1>5, <1>6 DEF Next

\* The inductive invariant holds in every reachable state.
THEOREM DaemonKeepsInv == Spec => []DaemonInv
BY DaemonInvInit, DaemonInvNext, PTL DEF Spec

\* While starts and stops come one after the other, a daemon that says it runs
\* has a heartbeat and a scheduler, and a stop can reach them.
THEOREM DaemonStatusTrue == Spec => []StatusTellsTruth
<1>1. DaemonInv => StatusTellsTruth
  BY DEF DaemonInv, InTurn, Consistent, StatusTellsTruth
<1> QED BY <1>1, DaemonKeepsInv, PTL

\* One that does not run has left no heartbeat behind.
THEOREM DaemonLeavesNone == Spec => []NoneLeftBehind
<1>1. DaemonInv => NoneLeftBehind
  BY DEF DaemonInv, InTurn, Consistent, NoneLeftBehind
<1> QED BY <1>1, DaemonKeepsInv, PTL

\* One that was asked to stop does not run when all is done.
THEOREM DaemonStops == Spec => []StopObeyedInTurn
<1>1. DaemonInv => StopObeyedInTurn
  BY DEF DaemonInv, InTurn, StopObeyedInTurn, StopObeyed
<1> QED BY <1>1, DaemonKeepsInv, PTL
=============================================================================
