--------------------------- MODULE ChildrenProofs ---------------------------
(***************************************************************************)
(* Theorems about what runs in other processes or is read from disk: the   *)
(* registry of skills, the run of a skill and the client of MCP servers,   *)
(* for any skills, requests, changes, sizes and callers.                   *)
(***************************************************************************)
EXTENDS McpClient, SkillRegistry, SkillRun, SequenceTheorems, TLAPS

-----------------------------------------------------------------------------
(* The registry.  What a reload publishes is what it read earlier.  For a   *)
(* skill nobody touches that is no matter (BundledRead).  For the others it *)
(* must be known that a change since then is an event still to be taken,    *)
(* which holds as long as reloads do not cross (ReadIsCurrent, OneReload).  *)

Reloads == [pc : {"idle", "scan"}, left : SUBSET Skills, read : [Skills -> Contents]]

RegistryTypes ==
  /\ disk \in [Skills -> Contents]
  /\ registry \in [Skills -> Contents]
  /\ events \in Nat
  /\ reload \in [Reloaders -> Reloads]

\* What a reload has read of a bundled skill is what there is.
BundledRead ==
  /\ \A s \in Bundled : disk[s] # "unreadable"
  /\ \A t \in Reloaders : reload[t].pc = "scan" =>
       \A s \in Bundled \ reload[t].left : reload[t].read[s] = disk[s]

\* Unless reloads have crossed, one is under way at most.
OneReload ==
  crossed \/ \A t, u \in Reloaders :
    reload[t].pc = "scan" /\ reload[u].pc = "scan" => t = u

\* What a reload has read is what there is, or an event says it is not.
ReadIsCurrent ==
  \/ crossed
  \/ events > 0
  \/ \A t \in Reloaders : reload[t].pc = "scan" =>
       \A s \in Skills \ reload[t].left : reload[t].read[s] = disk[s]

RegistryInv ==
  /\ RegistryTypes
  /\ BundledRead
  /\ BundledStay
  /\ OneReload
  /\ ReadIsCurrent
  /\ RegistryIsCurrent

-----------------------------------------------------------------------------

LEMMA NoReloadType == NoReload \in Reloads
BY DEF NoReload, Reloads, Contents

LEMMA RegistryInitInv == RegistryInit => RegistryInv
<1> SUFFICES ASSUME RegistryInit PROVE RegistryInv OBVIOUS
<1>1. disk \in [Skills -> Contents] BY DEF RegistryInit, Contents
<1>2. \A s \in Bundled : s \in Skills /\ disk[s] = "first"
  BY DEF RegistryInit, Skills
<1> QED
  BY <1>1, <1>2, NoReloadType
  DEF RegistryInit, RegistryInv, RegistryTypes, BundledRead, BundledStay, OneReload,
      ReadIsCurrent, RegistryIsCurrent, NoReload

\* A change is of a custom skill and raises an event.
LEMMA ChangeTypes ==
  ASSUME RegistryInv, NEW s \in Custom, NEW content \in Contents, Change(s, content)
  PROVE  /\ disk' \in [Skills -> Contents]
         /\ \A b \in Bundled : disk'[b] = disk[b]
         /\ events' \in Nat /\ events' > 0
<1>1. s \in Skills /\ s \notin Bundled BY RegistryAssumption DEF Skills
<1> QED BY <1>1 DEF RegistryInv, RegistryTypes, Change, Skills

LEMMA EditInv ==
  ASSUME RegistryInv, NEW s \in Custom, NEW content \in Contents, Edit(s, content)
  PROVE  RegistryInv'
<1>1. /\ disk' \in [Skills -> Contents]
      /\ \A b \in Bundled : disk'[b] = disk[b]
      /\ events' \in Nat /\ events' > 0
  BY ChangeTypes DEF Edit
<1>2. registry' = registry /\ reload' = reload /\ crossed' = crossed BY DEF Edit
<1>3. RegistryTypes' BY <1>1, <1>2 DEF RegistryInv, RegistryTypes
<1>4. BundledRead' BY <1>1, <1>2 DEF RegistryInv, BundledRead
<1>5. BundledStay' BY <1>1, <1>2 DEF RegistryInv, BundledStay
<1>6. OneReload' BY <1>2 DEF RegistryInv, OneReload
<1>7. ReadIsCurrent' /\ RegistryIsCurrent'
  BY <1>1 DEF ReadIsCurrent, RegistryIsCurrent
<1> QED BY <1>3, <1>4, <1>5, <1>6, <1>7 DEF RegistryInv

\* What a reload that begins, of a directory and with events as they are after
\* the step, keeps.
LEMMA BeginReloadInv ==
  ASSUME RegistryInv, NEW t \in Reloaders, reload[t].pc = "idle", BeginReload(t),
         disk' \in [Skills -> Contents], \A b \in Bundled : disk'[b] = disk[b],
         events' \in Nat, registry' = registry,
         disk' = disk \/ events' > 0
  PROVE  RegistryInv'
<1> DEFINE new == [NoReload EXCEPT !.pc = "scan", !.left = Skills]
<1>1. new \in Reloads BY DEF NoReload, Reloads, Contents
<1>2. new.pc = "scan" /\ new.left = Skills BY DEF NoReload
<1>3. reload' = [reload EXCEPT ![t] = new] BY DEF BeginReload
<1>4. /\ reload \in [Reloaders -> Reloads]
      /\ reload'[t] = new
      /\ \A u \in Reloaders \ {t} : reload'[u] = reload[u]
  BY <1>3 DEF RegistryInv, RegistryTypes
<1>5. reload'[t].pc = "scan" /\ reload'[t].left = Skills BY <1>2, <1>4
<1> HIDE DEF new
<1>6. RegistryTypes' BY <1>1, <1>3, <1>4 DEF RegistryInv, RegistryTypes
<1>7. BundledRead'
  BY <1>4, <1>5 DEF RegistryInv, BundledRead, Skills
<1>8. BundledStay' BY DEF RegistryInv, BundledStay
<1>9. crossed' \/ (~crossed /\ \A u \in Reloaders \ {t} : reload[u].pc = "idle")
  BY DEF BeginReload
<1>10. OneReload' BY <1>4, <1>9 DEF OneReload
<1>11. ReadIsCurrent'
  BY <1>4, <1>5, <1>9 DEF ReadIsCurrent
<1>12. RegistryIsCurrent' BY <1>4, <1>5 DEF RegistryIsCurrent
<1> QED BY <1>6, <1>7, <1>8, <1>10, <1>11, <1>12 DEF RegistryInv

LEMMA CreateSkillInv ==
  ASSUME RegistryInv, NEW s \in Custom, NEW t \in Makers, CreateSkill(t, s)
  PROVE  RegistryInv'
<1>1. t \in Reloaders /\ "first" \in Contents BY DEF Reloaders, Contents
<1>2. /\ disk' \in [Skills -> Contents]
      /\ \A b \in Bundled : disk'[b] = disk[b]
      /\ events' \in Nat /\ events' > 0
  BY <1>1, ChangeTypes DEF CreateSkill
<1> QED BY <1>1, <1>2, BeginReloadInv DEF CreateSkill

LEMMA TakeEventInv ==
  ASSUME RegistryInv, TakeEvent
  PROVE  RegistryInv'
<1>1. Watch \in Reloaders BY DEF Reloaders
<1>2. /\ disk' = disk /\ disk \in [Skills -> Contents]
      /\ events' \in Nat /\ registry' = registry
  BY DEF TakeEvent, RegistryInv, RegistryTypes
<1> QED BY <1>1, <1>2, BeginReloadInv DEF TakeEvent

LEMMA ReadManifestInv ==
  ASSUME RegistryInv, NEW t \in Reloaders, ReadManifest(t)
  PROVE  RegistryInv'
<1>1. UNCHANGED <<disk, registry, events, changes, crossed>> BY DEF ReadManifest
<1>2. /\ reload \in [Reloaders -> Reloads] /\ disk \in [Skills -> Contents]
      /\ reload[t].pc = "scan"
  BY DEF RegistryInv, RegistryTypes, ReadManifest
<1>3. PICK s \in reload[t].left :
        reload' = IF disk[s] = "unreadable"
                  THEN [reload EXCEPT ![t] = NoReload]
                  ELSE [reload EXCEPT ![t].left = @ \ {s}, ![t].read[s] = disk[s]]
  BY DEF ReadManifest
<1>4. s \in Skills BY <1>2 DEF Reloads
<1>5. \A u \in Reloaders \ {t} : reload'[u] = reload[u] BY <1>2, <1>3
<1>6. CASE disk[s] = "unreadable"
  <2>1. reload'[t] = NoReload /\ NoReload.pc = "idle" BY <1>2, <1>3, <1>6 DEF NoReload
  <2>2. RegistryTypes'
    BY <1>1, <1>2, <1>3, <1>6, NoReloadType DEF RegistryInv, RegistryTypes
  <2>3. BundledRead' BY <1>1, <1>5, <2>1 DEF RegistryInv, BundledRead
  <2>4. BundledStay' BY <1>1 DEF RegistryInv, BundledStay
  <2>5. OneReload' BY <1>1, <1>5, <2>1 DEF RegistryInv, OneReload
  <2>6. ReadIsCurrent' BY <1>1, <1>5, <2>1 DEF RegistryInv, ReadIsCurrent
  <2>7. RegistryIsCurrent' BY <1>1, <1>4, <1>6 DEF RegistryIsCurrent
  <2> QED BY <2>2, <2>3, <2>4, <2>5, <2>6, <2>7 DEF RegistryInv
<1>7. CASE disk[s] # "unreadable"
  <2> DEFINE read == [reload[t].read EXCEPT ![s] = disk[s]]
  <2>1. reload'[t] = [pc |-> "scan", left |-> reload[t].left \ {s}, read |-> read]
    <3>1. reload[t] \in Reloads BY <1>2
    <3>2. reload'[t] = [[reload[t] EXCEPT !.left = reload[t].left \ {s}]
                          EXCEPT !.read = read]
      BY <1>2, <1>3, <1>7
    <3> HIDE DEF read
    <3> QED BY <1>2, <3>1, <3>2 DEF Reloads
  <2>2. /\ reload[t].read \in [Skills -> Contents] /\ read \in [Skills -> Contents]
        /\ reload[t].left \subseteq Skills
    BY <1>2, <1>4 DEF Reloads
  <2>3. reload'[t] \in Reloads BY <2>1, <2>2 DEF Reloads
  <2>4. reload' = [reload EXCEPT ![t] = reload'[t]] BY <1>2, <1>3
  <2>5. /\ reload'[t].pc = "scan" /\ reload'[t].left = reload[t].left \ {s}
        /\ reload'[t].read[s] = disk[s]
        /\ \A u \in Skills \ {s} : reload'[t].read[u] = reload[t].read[u]
    BY <1>4, <2>1, <2>2
  <2>6. RegistryTypes' BY <1>1, <2>3, <2>4 DEF RegistryInv, RegistryTypes
  <2>7. BundledRead' BY <1>1, <1>2, <1>5, <2>5 DEF RegistryInv, BundledRead, Skills
  <2>8. BundledStay' BY <1>1 DEF RegistryInv, BundledStay
  <2>9. OneReload' BY <1>1, <1>2, <1>5, <2>5 DEF RegistryInv, OneReload
  <2>10. ReadIsCurrent' BY <1>1, <1>2, <1>5, <2>5 DEF RegistryInv, ReadIsCurrent
  <2>11. RegistryIsCurrent' BY <2>5 DEF RegistryIsCurrent
  <2> QED BY <2>6, <2>7, <2>8, <2>9, <2>10, <2>11 DEF RegistryInv
<1> QED BY <1>6, <1>7

LEMMA PublishInv ==
  ASSUME RegistryInv, NEW t \in Reloaders, Publish(t)
  PROVE  RegistryInv'
<1>1. /\ reload \in [Reloaders -> Reloads] /\ disk \in [Skills -> Contents]
      /\ reload[t].pc = "scan" /\ reload[t].left = {}
      /\ registry' = reload[t].read
      /\ disk' = disk /\ events' = events /\ crossed' = crossed
      /\ reload' = [reload EXCEPT ![t] = NoReload]
  BY DEF RegistryInv, RegistryTypes, Publish
<1>2. reload[t].read \in [Skills -> Contents] BY <1>1 DEF Reloads
<1>3. /\ reload'[t].pc = "idle"
      /\ \A u \in Reloaders \ {t} : reload'[u] = reload[u]
  BY <1>1 DEF NoReload
<1>4. RegistryTypes' BY <1>1, <1>2, NoReloadType DEF RegistryInv, RegistryTypes
<1>5. BundledRead' BY <1>1, <1>3 DEF RegistryInv, BundledRead
<1>6. BundledStay' BY <1>1 DEF RegistryInv, BundledRead, BundledStay
<1>7. OneReload' BY <1>1, <1>3 DEF RegistryInv, OneReload
<1>8. ReadIsCurrent' BY <1>1, <1>3 DEF RegistryInv, ReadIsCurrent
<1>9. RegistryIsCurrent'
  <2>1. crossed \/ events > 0 \/ \A s \in Skills : reload[t].read[s] = disk[s]
    BY <1>1 DEF RegistryInv, ReadIsCurrent
  <2>2. CASE crossed \/ events > 0 BY <1>1, <2>2 DEF RegistryIsCurrent
  <2>3. CASE \A s \in Skills : reload[t].read[s] = disk[s]
    <3>1. registry' = disk' BY <1>1, <1>2, <2>3
    <3> QED BY <3>1 DEF RegistryIsCurrent
  <2> QED BY <2>1, <2>2, <2>3
<1> QED BY <1>4, <1>5, <1>6, <1>7, <1>8, <1>9 DEF RegistryInv

\* Every step keeps it.
LEMMA RegistryStepInv ==
  ASSUME RegistryInv, [RegistryNext]_registryVars
  PROVE  RegistryInv'
<1>1. ASSUME NEW s \in Custom, NEW content \in Contents, Edit(s, content)
      PROVE  RegistryInv'
  BY <1>1, EditInv
<1>2. ASSUME NEW s \in Custom, NEW t \in Makers, CreateSkill(t, s)
      PROVE  RegistryInv'
  BY <1>2, CreateSkillInv
<1>3. CASE TakeEvent BY <1>3, TakeEventInv
<1>4. ASSUME NEW t \in Reloaders, ReadManifest(t) \/ Publish(t)
      PROVE  RegistryInv'
  BY <1>4, ReadManifestInv, PublishInv
<1>5. CASE UNCHANGED registryVars
  BY <1>5 DEF registryVars, RegistryInv, RegistryTypes, BundledRead, BundledStay,
              OneReload, ReadIsCurrent, RegistryIsCurrent
<1> QED BY <1>1, <1>2, <1>3, <1>4, <1>5 DEF RegistryNext

-----------------------------------------------------------------------------
(* The theorems.                                                           *)

LEMMA RegistryKeepsInv == RegistrySpec => []RegistryInv
BY RegistryInitInv, RegistryStepInv, PTL DEF RegistrySpec

\* A skill nobody touches can be run all the time, over broken manifests and
\* reloads that cross.
THEOREM BundledStayRegistered == RegistrySpec => []BundledStay
<1>1. RegistryInv => BundledStay BY DEF RegistryInv
<1> QED BY <1>1, RegistryKeepsInv, PTL

\* Once every event was taken and every reload is over, the registry is what
\* is on the disk, unless a manifest cannot be read or reloads crossed.
THEOREM RegistryCatchesUp == RegistrySpec => []RegistryIsCurrent
<1>1. RegistryInv => RegistryIsCurrent BY DEF RegistryInv
<1> QED BY <1>1, RegistryKeepsInv, PTL

-----------------------------------------------------------------------------
(* The run of a skill.  What was written is in the pipe or was read, until  *)
(* the reader gives up: so it all was when the reader met the end.          *)

\* A run that has not begun has no process, and one that is over leaves none.
ProcessOfRun ==
  /\ size \in Nat
  /\ phase = "idle" => process = "none" /\ unsent = 0
  /\ process = "none" => phase \in {"idle", "failed"}
  /\ phase \in Over \union {"join"} => process # "running"

\* The reader starts when the request is written.  Nothing the skill wrote is lost
\* before the reader gives up, and it comes to the end only when nothing is left
\* and nothing more will come.
OutputAccounted ==
  /\ written \in Nat
  /\ phase \in {"idle", "write"} => reader = "none"
  /\ reader # "exceeded" => output + stdout = written
  /\ reader = "end" => stdout = 0 /\ process \in Dead
  /\ phase = "succeeded" => reader = "end"

RunInv ==
  /\ RunTypeOK
  /\ ProcessOfRun
  /\ OutputAccounted

LEMMA RunInitInv == RunInit => RunInv
BY SkillRunAssumption
   DEF RunInit, RunInv, RunTypeOK, ProcessOfRun, OutputAccounted, Over, Dead

\* A step of the runtime, of the reader, of the process or of whoever waits.
LEMMA RunStepInv ==
  ASSUME RunInv, [RunNext]_runVars
  PROVE  RunInv'
<1> USE SkillRunAssumption
    DEF RunInv, RunTypeOK, ProcessOfRun, OutputAccounted, Over, Dead
<1>1. ASSUME NEW n \in RequestSizes, RunSkill(n)
      PROVE  RunInv'
  BY <1>1 DEF RunSkill
<1>2. CASE WriteStdin
  <2>1. CASE process \in Dead BY <1>2, <2>1 DEF WriteStdin, Finish
  <2>2. CASE process \notin Dead BY <1>2, <2>2 DEF WriteStdin
  <2> QED BY <2>1, <2>2
<1>3. CASE CloseStdin BY <1>3 DEF CloseStdin
<1>4. CASE ReadLimited BY <1>4 DEF ReadLimited
<1>5. CASE Wait BY <1>5 DEF Wait
<1>6. CASE TimeOutSkill BY <1>6 DEF TimeOutSkill, Finish
<1>7. CASE Join BY <1>7 DEF Join, Finish
<1>8. CASE Drop BY <1>8 DEF Drop, Finish
<1>9. CASE ReadInput BY <1>9 DEF ReadInput
<1>10. CASE WriteOutput BY <1>10 DEF WriteOutput
<1>11. CASE ExitSkill BY <1>11 DEF ExitSkill
<1>12. CASE UNCHANGED runVars BY <1>12 DEF runVars
<1> QED BY <1>1, <1>2, <1>3, <1>4, <1>5, <1>6, <1>7, <1>8, <1>9, <1>10, <1>11, <1>12
        DEF RunNext, Runtime

LEMMA RunKeepsInv == RunSpec => []RunInv
BY RunInitInv, RunStepInv, PTL DEF RunSpec

\* A run that succeeds has read all the skill wrote, and neither pipe ever holds
\* more than it can.
THEOREM SuccessReadAll == RunSpec => [](RunTypeOK /\ SuccessIsWhole)
<1>1. RunInv => RunTypeOK /\ SuccessIsWhole
  BY DEF RunInv, RunTypeOK, OutputAccounted, SuccessIsWhole
<1> QED BY <1>1, RunKeepsInv, PTL

\* A run that is over has left no process running.
THEOREM RunLeavesNone == RunSpec => [](phase \in Over => process # "running")
<1>1. RunInv => (phase \in Over => process # "running") BY DEF RunInv, ProcessOfRun
<1> QED BY <1>1, RunKeepsInv, PTL

-----------------------------------------------------------------------------
(* The MCP client.  An answer can only be mistaken if a line is in a pipe   *)
(* that the exchange under way did not ask for.  There is one exchange at a *)
(* time, for the session has one holder (InLine, HolderIsFirst), and but    *)
(* for offset servers the pipes of the session hold what that exchange      *)
(* asked for, once, and nothing otherwise (PipesInStep).                    *)

Processes == [alive : BOOLEAN, stdin : Seq(Lines \union {Unasked}),
              stdout : Seq(Lines \union {Unasked})]

CallStates == [pc : {"idle", "lock", "ensure", "write", "read"}, number : Nat,
               method : Methods, attempt : {0, 1, 2}]

Holding == {"ensure", "write", "read"}

McpTypes ==
  /\ servers \in 0 .. MaxServers
  /\ session \in 0 .. servers
  /\ server \in [Servers -> Processes]
  /\ mutex \in Seq(Callers)
  /\ call \in [Callers -> CallStates]
  /\ calls \in 0 .. MaxCalls
  /\ \A c \in Callers : call[c].pc # "idle" => call[c].number \in Calls
  /\ misread \subseteq Servers
  /\ offset \subseteq Servers

\* A caller is in line once, as long as its call lasts.
InLine ==
  /\ \A i, j \in 1 .. Len(mutex) : mutex[i] = mutex[j] => i = j
  /\ \A c \in Callers :
       call[c].pc # "idle" <=> \E i \in 1 .. Len(mutex) : mutex[i] = c

\* Who has the session is the first in line, and it has a server to talk to.
HolderIsFirst ==
  /\ \A c \in Callers : call[c].pc \in Holding => mutex[1] = c
  /\ \A c \in Callers : call[c].pc \in {"write", "read"} => session # 0

\* A server that was not started yet has empty pipes, one that is dead no input.
PipesOfServers ==
  /\ \A g \in Servers : g > servers => server[g] = NoServer /\ g \notin offset
  /\ \A g \in Servers : ~server[g].alive => server[g].stdin = <<>>

\* The pipes of the session, unless it is offset: the one line the exchange under
\* way asked for, or its answer, or nothing if the server died over it.
PipesInStep ==
  session # 0 /\ session \notin offset =>
    /\ \A c \in Callers : call[c].pc = "read" =>
         \/ server[session].stdin = <<Line(c)>> /\ server[session].stdout = <<>>
         \/ server[session].stdin = <<>> /\ server[session].stdout = <<Line(c)>>
         \/ server[session].stdin = <<>> /\ server[session].stdout = <<>>
    /\ (\A c \in Callers : call[c].pc # "read") =>
         server[session].stdin = <<>> /\ server[session].stdout = <<>>

McpInv ==
  /\ McpTypes
  /\ InLine
  /\ HolderIsFirst
  /\ PipesOfServers
  /\ PipesInStep
  /\ AnswersMatch

LEMMA McpInitInv == McpInit => McpInv
<1> SUFFICES ASSUME McpInit PROVE McpInv
  OBVIOUS
<1> USE McpAssumption DEF McpInit
<1>1. NoServer \in Processes /\ NoCall \in CallStates
  BY DEF NoServer, NoCall, Processes, CallStates, Methods
<1>2. McpTypes BY <1>1 DEF McpTypes, NoCall
<1>3. InLine /\ HolderIsFirst BY DEF InLine, HolderIsFirst, NoCall, Holding
<1>4. PipesOfServers /\ PipesInStep /\ AnswersMatch
  BY DEF PipesOfServers, PipesInStep, AnswersMatch, NoServer
<1> QED BY <1>2, <1>3, <1>4 DEF McpInv

-----------------------------------------------------------------------------
(* The line for the session.                                               *)

\* Leaving one out moves those behind it up.
LEMMA LeftOut ==
  ASSUME NEW S, NEW s \in Seq(S), NEW i \in 1 .. Len(s)
  PROVE  /\ Without(s, i) \in Seq(S)
         /\ Len(Without(s, i)) = Len(s) - 1
         /\ \A j \in 1 .. Len(s) - 1 : /\ j < i  => Without(s, i)[j] = s[j]
                                       /\ j >= i => Without(s, i)[j] = s[j + 1]
<1> DEFINE r == Without(s, i)
           a == SubSeq(s, 1, i - 1)
           b == SubSeq(s, i + 1, Len(s))
<1>1. /\ a \in Seq(S) /\ Len(a) = i - 1
      /\ \A j \in 1 .. i - 1 : a[j] = s[j]
  OBVIOUS
<1>2. /\ b \in Seq(S) /\ Len(b) = Len(s) - i
      /\ \A j \in 1 .. Len(s) - i : b[j] = s[i + j]
  OBVIOUS
<1>3. r = a \o b BY DEF Without
<1> HIDE DEF a, b, r
<1>4. /\ r \in Seq(S) /\ Len(r) = Len(a) + Len(b)
      /\ \A j \in 1 .. Len(a) + Len(b) :
           r[j] = IF j <= Len(a) THEN a[j] ELSE b[j - Len(a)]
  <2>1. a \in Seq(S) /\ b \in Seq(S) BY <1>1, <1>2
  <2> QED BY <1>3, <2>1, ConcatProperties, Zenon
<1>0. Len(s) \in Nat /\ i \in 1 .. Len(s) OBVIOUS
<1>5. Len(r) = Len(s) - 1 /\ Len(s) \in Nat BY <1>0, <1>1, <1>2, <1>4
<1>6. ASSUME NEW j \in 1 .. Len(s) - 1
      PROVE  /\ j < i  => r[j] = s[j]
             /\ j >= i => r[j] = s[j + 1]
  <2>0. j \in Int /\ i \in Int /\ Len(s) \in Int BY <1>0, <1>6
  <2>1. j \in 1 .. Len(a) + Len(b) BY <1>1, <1>2
  <2>2. ASSUME j < i PROVE r[j] = s[j]
    <3>1. j <= Len(a) /\ j \in 1 .. i - 1 BY <1>1, <2>2
    <3> QED BY <1>1, <1>4, <2>1, <3>1
  <2>3. ASSUME j >= i PROVE r[j] = s[j + 1]
    <3>1. r[j] = b[j - (i - 1)]
      <4>1. ~(j <= Len(a)) BY <1>1, <2>0, <2>3
      <4>2. r[j] = b[j - Len(a)] BY <1>4, <2>1, <4>1
      <4> QED BY <1>1, <4>2
    <3>2. j - (i - 1) \in 1 .. Len(s) - i /\ i + (j - (i - 1)) = j + 1 BY <1>5, <2>3
    <3>3. b[j - (i - 1)] = s[j + 1] BY <1>2, <3>2
    <3> QED BY <3>1, <3>3
  <2> QED BY <2>2, <2>3
<1> QED BY <1>4, <1>5, <1>6 DEF r

LEMMA TailLeftOut ==
  ASSUME NEW S, NEW s \in Seq(S), Len(s) > 0
  PROVE  /\ Tail(s) \in Seq(S)
         /\ Len(Tail(s)) = Len(s) - 1
         /\ \A j \in 1 .. Len(s) - 1 : Tail(s)[j] = s[j + 1]
OBVIOUS

\* The call of a caller that leaves the line is over.
LEMMA LeaveLine ==
  ASSUME McpTypes, InLine, mutex' \in Seq(Callers),
         NEW c \in Callers, call' = [call EXCEPT ![c] = NoCall],
         NEW i \in 1 .. Len(mutex), mutex[i] = c, Len(mutex') = Len(mutex) - 1,
         \A j \in 1 .. Len(mutex) - 1 : /\ j < i  => mutex'[j] = mutex[j]
                                        /\ j >= i => mutex'[j] = mutex[j + 1]
  PROVE  InLine'
<1> DEFINE n == Len(mutex)
           old(j) == IF j < i THEN j ELSE j + 1    \* where the j-th was
<1>0. n \in Nat /\ i \in 1 .. n /\ Len(mutex') = n - 1 BY DEF McpTypes
<1>1. \A j \in 1 .. n - 1 : mutex'[j] = mutex[old(j)]
  <2> SUFFICES ASSUME NEW j \in 1 .. n - 1 PROVE mutex'[j] = mutex[old(j)]
    OBVIOUS
  <2>1. CASE j < i
    <3>1. mutex'[j] = mutex[j] BY <2>1
    <3>2. old(j) = j BY <2>1
    <3> QED BY <3>1, <3>2, Zenon
  <2>2. CASE j >= i
    <3>1. mutex'[j] = mutex[j + 1] BY <2>2
    <3>2. old(j) = j + 1 BY <1>0, <2>2
    <3> QED BY <3>1, <3>2, Zenon
  <2> QED BY <1>0, <2>1, <2>2
<1> HIDE DEF n
<1>2. \A j \in 1 .. n - 1 : old(j) \in 1 .. n /\ old(j) # i BY <1>0
<1>3. \A j, k \in 1 .. n - 1 : old(j) = old(k) => j = k BY <1>0
<1>4. \A l \in 1 .. n : l # i => \E j \in 1 .. n - 1 : old(j) = l
  <2> SUFFICES ASSUME NEW l \in 1 .. n, l # i
               PROVE  \E j \in 1 .. n - 1 : old(j) = l
    OBVIOUS
  <2>1. CASE l < i
    <3>1. l \in 1 .. n - 1 /\ old(l) = l BY <1>0, <2>1
    <3> QED BY <3>1
  <2>2. CASE l > i
    <3>1. l - 1 \in 1 .. n - 1 /\ old(l - 1) = l BY <1>0, <2>2
    <3> QED BY <3>1
  <2> QED BY <1>0, <2>1, <2>2
<1> HIDE DEF old
<1>5. /\ \A j, k \in 1 .. n : mutex[j] = mutex[k] => j = k
      /\ \A d \in Callers :
           call[d].pc # "idle" <=> \E j \in 1 .. n : mutex[j] = d
  BY DEF InLine, n
<1>6. \A j, k \in 1 .. n - 1 : mutex'[j] = mutex'[k] => j = k
  BY <1>1, <1>2, <1>3, <1>5
<1>7. ASSUME NEW d \in Callers
      PROVE  call'[d].pc # "idle" <=> \E j \in 1 .. n - 1 : mutex'[j] = d
  <2>1. CASE d = c
    <3>1. call'[d].pc = "idle" BY <2>1 DEF McpTypes, NoCall
    <3>2. \A j \in 1 .. n - 1 : mutex'[j] # c BY <1>0, <1>1, <1>2, <1>5
    <3> QED BY <2>1, <3>1, <3>2
  <2>2. CASE d # c
    <3>1. call'[d] = call[d] BY <2>2 DEF McpTypes
    <3>2. ASSUME NEW l \in 1 .. n, mutex[l] = d
          PROVE  \E j \in 1 .. n - 1 : mutex'[j] = d
      <4>1. l # i BY <2>2, <3>2
      <4> QED BY <1>1, <1>4, <3>2, <4>1
    <3>3. ASSUME NEW j \in 1 .. n - 1, mutex'[j] = d
          PROVE  \E l \in 1 .. n : mutex[l] = d
      BY <1>1, <1>2, <3>3
    <3> QED BY <1>5, <3>1, <3>2, <3>3
  <2> QED BY <2>1, <2>2
<1> QED BY <1>0, <1>6, <1>7 DEF InLine

\* One who was not in the line joins it at its end.
LEMMA JoinLine ==
  ASSUME McpTypes, InLine, NEW c \in Callers, call[c].pc = "idle",
         call'[c].pc # "idle", \A d \in Callers \ {c} : call'[d] = call[d],
         mutex' = Append(mutex, c)
  PROVE  InLine' /\ mutex' \in Seq(Callers)
<1>1. mutex \in Seq(Callers) /\ mutex' \in Seq(Callers) /\ Len(mutex') = Len(mutex) + 1
  BY DEF McpTypes
<1>2. mutex'[Len(mutex) + 1] = c /\ \A j \in 1 .. Len(mutex) : mutex'[j] = mutex[j]
  BY DEF McpTypes
<1>3. \A j \in 1 .. Len(mutex) : mutex[j] # c BY DEF InLine
<1>4. ASSUME NEW j \in 1 .. Len(mutex'), NEW k \in 1 .. Len(mutex'), mutex'[j] = mutex'[k]
      PROVE  j = k
  <2>1. \A l \in 1 .. Len(mutex') : l \in 1 .. Len(mutex) \/ l = Len(mutex) + 1
    BY <1>1
  <2> QED BY <1>2, <1>3, <1>4, <2>1 DEF InLine
<1>5. ASSUME NEW d \in Callers
      PROVE  call'[d].pc # "idle" <=> \E j \in 1 .. Len(mutex') : mutex'[j] = d
  <2>1. CASE d = c
    <3>1. Len(mutex) + 1 \in 1 .. Len(mutex') BY <1>1
    <3> QED BY <1>2, <2>1, <3>1
  <2>2. CASE d # c
    <3>1. \A j \in 1 .. Len(mutex) : j \in 1 .. Len(mutex') BY <1>1
    <3>2. \A j \in 1 .. Len(mutex') : j \in 1 .. Len(mutex) \/ j = Len(mutex) + 1
      BY <1>1
    <3> QED BY <1>2, <2>2, <3>1, <3>2 DEF InLine
  <2> QED BY <2>1, <2>2
<1> QED BY <1>1, <1>4, <1>5 DEF InLine

\* The first goes to the end.
LEMMA LineUpAgain ==
  ASSUME McpTypes, InLine, NEW c \in Callers, Len(mutex) > 0, mutex[1] = c,
         call'[c].pc # "idle", \A d \in Callers \ {c} : call'[d] = call[d],
         mutex' = Append(Tail(mutex), c)
  PROVE  InLine' /\ mutex' \in Seq(Callers)
<1> DEFINE n == Len(mutex)
<1>1. mutex \in Seq(Callers) /\ n \in Nat BY DEF McpTypes
<1>2. /\ Tail(mutex) \in Seq(Callers) /\ Len(Tail(mutex)) = n - 1
      /\ \A j \in 1 .. n - 1 : Tail(mutex)[j] = mutex[j + 1]
  BY <1>1, TailLeftOut
<1>3. /\ mutex' \in Seq(Callers) /\ Len(mutex') = n
      /\ mutex'[n] = c /\ \A j \in 1 .. n - 1 : mutex'[j] = mutex[j + 1]
  BY <1>1, <1>2
<1> HIDE DEF n
<1>4. n > 0 /\ Len(mutex) = n BY DEF n
<1>5. \A j \in 2 .. n : mutex[j] # c BY <1>1, <1>4 DEF InLine
<1>6. \A l \in 1 .. n : (l \in 1 .. n - 1 /\ l + 1 \in 2 .. n) \/ l = n BY <1>1
<1>7. ASSUME NEW j \in 1 .. n, NEW k \in 1 .. n, mutex'[j] = mutex'[k]
      PROVE  j = k
  <2>1. CASE j \in 1 .. n - 1 /\ k \in 1 .. n - 1
    <3>1. mutex[j + 1] = mutex[k + 1] BY <1>3, <1>7, <2>1
    <3>2. j + 1 \in 1 .. n /\ k + 1 \in 1 .. n BY <1>1, <2>1
    <3>3. j + 1 = k + 1 BY <1>4, <3>1, <3>2 DEF InLine
    <3> QED BY <3>3
  <2>2. CASE j = n \/ k = n BY <1>3, <1>5, <1>6, <1>7, <2>2
  <2> QED BY <1>6, <2>1, <2>2
<1>8. ASSUME NEW d \in Callers
      PROVE  call'[d].pc # "idle" <=> \E j \in 1 .. n : mutex'[j] = d
  <2>1. CASE d = c BY <1>1, <1>3, <1>4, <2>1
  <2>2. CASE d # c
    <3>1. (\E j \in 1 .. n : mutex[j] = d) => \E j \in 1 .. n : mutex'[j] = d
      <4>1. ASSUME NEW j \in 1 .. n, mutex[j] = d
            PROVE  \E k \in 1 .. n : mutex'[k] = d
        <5>1. j # 1 BY <2>2, <4>1
        <5>2. j - 1 \in 1 .. n - 1 /\ j - 1 \in 1 .. n /\ j - 1 + 1 = j BY <1>1, <5>1
        <5>3. mutex'[j - 1] = d BY <1>3, <4>1, <5>2
        <5> QED BY <5>2, <5>3
      <4> QED BY <4>1
    <3>2. (\E j \in 1 .. n : mutex'[j] = d) => \E j \in 1 .. n : mutex[j] = d
      <4>1. \A j \in 1 .. n : mutex'[j] = d => j \in 1 .. n - 1 /\ j + 1 \in 1 .. n
        BY <1>1, <1>3, <1>6, <2>2
      <4> QED BY <1>3, <4>1
    <3> QED BY <1>4, <2>2, <3>1, <3>2 DEF InLine
  <2> QED BY <2>1, <2>2
<1> QED BY <1>3, <1>4, <1>7, <1>8 DEF InLine

\* Whoever is past the mutex is first in line, and alone there.
LEMMA HolderAlone ==
  ASSUME McpInv, NEW c \in Callers, call[c].pc \in Holding
  PROVE  /\ Len(mutex) > 0 /\ mutex[1] = c /\ 1 \in 1 .. Len(mutex)
         /\ \A d \in Callers \ {c} : call[d].pc \notin Holding
<1>1. call[c].pc # "idle" BY DEF Holding
<1>2. \E i \in 1 .. Len(mutex) : mutex[i] = c BY <1>1 DEF McpInv, InLine
<1>3. Len(mutex) \in Nat BY DEF McpInv, McpTypes
<1> QED BY <1>2, <1>3 DEF McpInv, HolderIsFirst

-----------------------------------------------------------------------------
(* The steps.                                                              *)

\* The holder gives the session back, to join the line again or to be done.
LEMMA LeaveInv ==
  ASSUME McpInv, NEW c \in Callers, call[c].pc \in Holding, Leave(c)
  PROVE  /\ mutex' \in Seq(Callers)
         /\ call' \in [Callers -> CallStates]
         /\ \A d \in Callers : call'[d].pc # "idle" => call'[d].number \in Calls
         /\ \A d \in Callers : call'[d].pc \notin Holding
         /\ InLine'
<1>0. /\ Len(mutex) > 0 /\ mutex[1] = c /\ 1 \in 1 .. Len(mutex)
      /\ \A d \in Callers \ {c} : call[d].pc \notin Holding
  BY HolderAlone
<1>1. /\ call \in [Callers -> CallStates] /\ mutex \in Seq(Callers)
      /\ \A d \in Callers : call[d].pc # "idle" => call[d].number \in Calls
      /\ McpTypes /\ InLine
  BY DEF McpInv, McpTypes
<1>2. call[c].number \in Calls BY <1>1 DEF Holding
<1>3. CASE call[c].method = "initialize"
  <2>1. /\ call' = [call EXCEPT ![c].pc = "lock", ![c].method = "tools/call"]
        /\ mutex' = Append(Tail(mutex), c)
    BY <1>3 DEF Leave
  <2>2. /\ call' \in [Callers -> CallStates]
        /\ call'[c].pc = "lock" /\ call'[c].number = call[c].number
        /\ \A d \in Callers \ {c} : call'[d] = call[d]
    BY <1>1, <2>1 DEF CallStates, Methods
  <2>3. InLine' /\ mutex' \in Seq(Callers)
    BY <1>0, <1>1, <2>1, <2>2, LineUpAgain
  <2> QED BY <1>0, <1>1, <1>2, <2>2, <2>3 DEF Holding
<1>4. CASE call[c].method # "initialize"
  <2>1. call' = [call EXCEPT ![c] = NoCall] /\ mutex' = Tail(mutex)
    BY <1>4 DEF Leave
  <2>2. NoCall \in CallStates BY DEF NoCall, CallStates, Methods
  <2>3. /\ call' \in [Callers -> CallStates]
        /\ call'[c].pc = "idle" /\ \A d \in Callers \ {c} : call'[d] = call[d]
    BY <1>1, <2>1, <2>2 DEF NoCall
  <2>4. /\ mutex' \in Seq(Callers) /\ Len(mutex') = Len(mutex) - 1
        /\ \A j \in 1 .. Len(mutex) - 1 : mutex'[j] = mutex[j + 1]
    BY <1>0, <1>1, <2>1, TailLeftOut
  <2>5. \A j \in 1 .. Len(mutex) - 1 : /\ j < 1  => mutex'[j] = mutex[j]
                                       /\ j >= 1 => mutex'[j] = mutex[j + 1]
    BY <2>4
  <2>6. InLine' BY <1>0, <1>1, <2>1, <2>4, <2>5, LeaveLine
  <2> QED BY <1>0, <1>1, <2>3, <2>4, <2>6 DEF Holding
<1> QED BY <1>3, <1>4

\* A step of one caller that neither leaves nor joins the line.
LEMMA StayInLine ==
  ASSUME McpInv, NEW c \in Callers, NEW pc \in {"lock", "ensure", "write", "read"},
         NEW k \in {0, 1, 2}, call[c].pc # "idle",
         call' = [call EXCEPT ![c].pc = pc, ![c].attempt = k], mutex' = mutex
  PROVE  /\ call' \in [Callers -> CallStates]
         /\ call'[c].pc = pc /\ call'[c].number = call[c].number
         /\ call'[c].method = call[c].method
         /\ \A d \in Callers \ {c} : call'[d] = call[d]
         /\ \A d \in Callers : call'[d].pc # "idle" => call'[d].number \in Calls
         /\ InLine'
<1>1. /\ call \in [Callers -> CallStates]
      /\ \A d \in Callers : call[d].pc # "idle" => call[d].number \in Calls
      /\ InLine
  BY DEF McpInv, McpTypes
<1>2. /\ call' \in [Callers -> CallStates]
      /\ call'[c].pc = pc /\ call'[c].number = call[c].number
      /\ call'[c].method = call[c].method
      /\ \A d \in Callers \ {c} : call'[d] = call[d]
  BY <1>1 DEF CallStates
<1>3. InLine' BY <1>1, <1>2 DEF InLine
<1> QED BY <1>1, <1>2, <1>3

LEMMA CallToolInv ==
  ASSUME McpInv, NEW c \in Callers, CallTool(c)
  PROVE  McpInv'
<1> DEFINE new == [NoCall EXCEPT !.pc = "lock", !.number = calls']
<1>1. /\ call[c].pc = "idle" /\ calls' = calls + 1 /\ calls < MaxCalls
      /\ call' = [call EXCEPT ![c] = new]
      /\ mutex' = Append(mutex, c)
      /\ UNCHANGED <<session, server, servers, misread, offset>>
  BY DEF CallTool
<1>2. /\ McpTypes /\ InLine /\ call \in [Callers -> CallStates] /\ calls \in 0 .. MaxCalls
      /\ MaxCalls \in Nat
  BY McpAssumption DEF McpInv, McpTypes
<1>3. calls' \in Calls /\ calls' \in Nat /\ calls' \in 0 .. MaxCalls
  BY <1>1, <1>2 DEF Calls
<1>4. new \in CallStates /\ new.pc = "lock" /\ new.number = calls'
  BY <1>3 DEF NoCall, CallStates, Methods
<1> HIDE DEF new
<1>5. /\ call' \in [Callers -> CallStates] /\ call'[c] = new
      /\ \A d \in Callers \ {c} : call'[d] = call[d]
  BY <1>1, <1>2, <1>4
<1>6. InLine' /\ mutex' \in Seq(Callers)
  <2>1. call'[c].pc # "idle" BY <1>4, <1>5
  <2> QED BY <1>1, <1>2, <1>5, <2>1, JoinLine
<1>7. McpTypes'
  <2>1. \A d \in Callers : call'[d].pc # "idle" => call'[d].number \in Calls
    BY <1>2, <1>3, <1>4, <1>5 DEF McpTypes
  <2> QED BY <1>1, <1>2, <1>3, <1>5, <1>6, <2>1 DEF McpTypes
<1>8. \A d \in Callers : call'[d].pc \in Holding => d # c /\ call'[d] = call[d]
  BY <1>4, <1>5 DEF Holding
<1>9. HolderIsFirst'
  <2>1. ASSUME NEW d \in Callers, call'[d].pc \in Holding
        PROVE  mutex'[1] = d
    <3>1. call[d].pc \in Holding BY <1>8, <2>1
    <3>2. mutex[1] = d /\ 1 \in 1 .. Len(mutex) BY <3>1, HolderAlone
    <3> QED BY <1>1, <1>2, <3>2 DEF McpTypes
  <2>2. \A d \in Callers : call'[d].pc \in {"write", "read"} => session' # 0
    BY <1>1, <1>8 DEF Holding, McpInv, HolderIsFirst
  <2> QED BY <2>1, <2>2 DEF HolderIsFirst
<1>10. PipesOfServers' /\ AnswersMatch'
  BY <1>1 DEF McpInv, PipesOfServers, AnswersMatch
<1>11. PipesInStep'
  <2>1. \A d \in Callers : call'[d].pc = "read" => call[d] = call'[d]
    BY <1>8 DEF Holding
  <2>2. (\A d \in Callers : call'[d].pc # "read") => \A d \in Callers : call[d].pc # "read"
    BY <1>1, <1>5
  <2> QED BY <1>1, <2>1, <2>2 DEF McpInv, PipesInStep, Line
<1> QED BY <1>6, <1>7, <1>9, <1>10, <1>11 DEF McpInv

LEMMA LockInv ==
  ASSUME McpInv, NEW c \in Callers, Lock(c)
  PROVE  McpInv'
<1>1. /\ call[c].pc = "lock" /\ Head(mutex) = c
      /\ call' = [call EXCEPT ![c].pc = "ensure", ![c].attempt = 1]
      /\ mutex' = mutex
      /\ UNCHANGED <<session, server, servers, calls, misread, offset>>
  BY DEF Lock
<1>2. /\ call' \in [Callers -> CallStates]
      /\ call'[c].pc = "ensure"
      /\ \A d \in Callers \ {c} : call'[d] = call[d]
      /\ \A d \in Callers : call'[d].pc # "idle" => call'[d].number \in Calls
      /\ InLine'
  BY <1>1, StayInLine
<1>3. McpTypes' BY <1>1, <1>2 DEF McpInv, McpTypes
<1>4. mutex[1] = c
  <2>1. \E i \in 1 .. Len(mutex) : mutex[i] = c BY <1>1 DEF McpInv, InLine
  <2>2. mutex \in Seq(Callers) BY DEF McpInv, McpTypes
  <2> QED BY <1>1, <2>1, <2>2
<1>5. HolderIsFirst' BY <1>1, <1>2, <1>4 DEF McpInv, HolderIsFirst, Holding
<1>6. PipesOfServers' /\ AnswersMatch'
  BY <1>1 DEF McpInv, PipesOfServers, AnswersMatch
<1>7. PipesInStep' BY <1>1, <1>2 DEF McpInv, PipesInStep, Line
<1> QED BY <1>2, <1>3, <1>5, <1>6, <1>7 DEF McpInv

\* A holder gives up: the session is dropped, and with it what is in its pipes.
LEMMA GiveUpInv ==
  ASSUME McpInv, NEW c \in Callers, ReadEnd(c) \/ TimeOut(c)
  PROVE  McpInv'
<1>1. /\ call[c].pc \in {"write", "read"} /\ call[c].pc \in Holding /\ session' = 0
      /\ GiveUp(c)
      /\ UNCHANGED <<server, servers, calls, misread, offset>>
  BY DEF ReadEnd, TimeOut, GiveUp, Holding
<1>2. PipesOfServers' /\ AnswersMatch' /\ PipesInStep'
  BY <1>1 DEF McpInv, PipesOfServers, AnswersMatch, PipesInStep
<1>3. servers \in Nat BY McpAssumption DEF McpInv, McpTypes
<1>4. CASE Leave(c)
  <2>1. /\ mutex' \in Seq(Callers) /\ call' \in [Callers -> CallStates]
        /\ \A d \in Callers : call'[d].pc # "idle" => call'[d].number \in Calls
        /\ \A d \in Callers : call'[d].pc \notin Holding
        /\ InLine'
    BY <1>1, <1>4, LeaveInv
  <2>2. McpTypes' BY <1>1, <1>3, <2>1 DEF McpInv, McpTypes
  <2>3. HolderIsFirst' BY <2>1 DEF HolderIsFirst, Holding
  <2> QED BY <1>2, <2>1, <2>2, <2>3 DEF McpInv
<1>5. CASE /\ call' = [call EXCEPT ![c].pc = "ensure", ![c].attempt = 2]
           /\ mutex' = mutex
  <2>1. /\ call' \in [Callers -> CallStates]
        /\ call'[c].pc = "ensure"
        /\ \A d \in Callers \ {c} : call'[d] = call[d]
        /\ \A d \in Callers : call'[d].pc # "idle" => call'[d].number \in Calls
        /\ InLine'
    BY <1>1, <1>5, StayInLine
  <2>2. McpTypes' BY <1>1, <1>3, <1>5, <2>1 DEF McpInv, McpTypes
  <2>3. /\ mutex[1] = c
        /\ \A d \in Callers \ {c} : call[d].pc \notin Holding
    BY <1>1, HolderAlone
  <2>4. HolderIsFirst' BY <1>5, <2>1, <2>3 DEF HolderIsFirst, Holding
  <2> QED BY <1>2, <2>1, <2>2, <2>4 DEF McpInv
<1> QED BY <1>1, <1>4, <1>5 DEF GiveUp

LEMMA EnsureSessionInv ==
  ASSUME McpInv, NEW c \in Callers, EnsureSession(c)
  PROVE  McpInv'
<1>1. /\ call[c].pc = "ensure" /\ call[c].pc \in Holding
      /\ UNCHANGED <<calls, misread, offset>>
  BY DEF EnsureSession, Holding
<1>2. /\ servers \in 0 .. MaxServers /\ session \in 0 .. servers /\ MaxServers \in Nat
      /\ server \in [Servers -> Processes] /\ call \in [Callers -> CallStates]
  BY McpAssumption DEF McpInv, McpTypes
<1>3. /\ mutex[1] = c
      /\ \A d \in Callers \ {c} : call[d].pc \notin Holding
  BY <1>1, HolderAlone
<1>4. \A d \in Callers : call[d].pc # "read" BY <1>1, <1>3 DEF Holding
<1>5. ASSUME call' = [call EXCEPT ![c].pc = "write"], mutex' = mutex, session' # 0
      PROVE  /\ call' \in [Callers -> CallStates] /\ mutex' \in Seq(Callers)
             /\ \A d \in Callers : call'[d].pc # "idle" => call'[d].number \in Calls
             /\ \A d \in Callers : call'[d].pc # "read"
             /\ InLine' /\ HolderIsFirst'
  <2>1. call' = [call EXCEPT ![c].pc = "write", ![c].attempt = call[c].attempt]
    BY <1>2, <1>5 DEF CallStates
  <2>2. call[c].attempt \in {0, 1, 2} /\ call[c].pc # "idle"
    BY <1>1, <1>2 DEF CallStates
  <2>3. /\ call' \in [Callers -> CallStates]
        /\ call'[c].pc = "write"
        /\ \A d \in Callers \ {c} : call'[d] = call[d]
        /\ \A d \in Callers : call'[d].pc # "idle" => call'[d].number \in Calls
        /\ InLine'
    BY <1>5, <2>1, <2>2, StayInLine
  <2>4. HolderIsFirst' BY <1>3, <1>5, <2>3 DEF HolderIsFirst, Holding
  <2> QED BY <1>3, <1>5, <2>3, <2>4 DEF Holding, McpInv, McpTypes
<1>6. CASE session # 0 /\ server[session].alive
  <2>1. /\ call' = [call EXCEPT ![c].pc = "write"] /\ mutex' = mutex
        /\ UNCHANGED <<session, server, servers>>
    BY <1>6 DEF EnsureSession
  <2>2. /\ call' \in [Callers -> CallStates] /\ mutex' \in Seq(Callers)
        /\ \A d \in Callers : call'[d].pc # "idle" => call'[d].number \in Calls
        /\ \A d \in Callers : call'[d].pc # "read"
        /\ InLine' /\ HolderIsFirst'
    BY <1>5, <1>6, <2>1
  <2>3. McpTypes' BY <1>1, <2>1, <2>2 DEF McpInv, McpTypes
  <2>4. PipesOfServers' /\ AnswersMatch' /\ PipesInStep'
    BY <1>1, <1>4, <2>1, <2>2 DEF McpInv, PipesOfServers, AnswersMatch, PipesInStep
  <2> QED BY <2>2, <2>3, <2>4 DEF McpInv
<1>7. CASE /\ servers < MaxServers
           /\ servers' = servers + 1
           /\ session' = servers'
           /\ server' = [server EXCEPT ![servers'] = [NoServer EXCEPT !.alive = TRUE]]
           /\ call' = [call EXCEPT ![c].pc = "write"]
           /\ mutex' = mutex
  <2> DEFINE fresh == [NoServer EXCEPT !.alive = TRUE]
             g     == servers + 1
  <2>1. /\ fresh \in Processes /\ fresh.alive
        /\ fresh.stdin = <<>> /\ fresh.stdout = <<>>
    <3>1. <<>> \in Seq(Lines \union {Unasked}) OBVIOUS
    <3>2. fresh \in Processes BY <3>1 DEF NoServer, Processes
    <3>3. fresh.alive BY DEF NoServer
    <3>4. fresh.stdin = <<>> BY DEF NoServer
    <3>5. fresh.stdout = <<>> BY DEF NoServer
    <3> QED BY <3>2, <3>3, <3>4, <3>5
  <2>2. /\ g \in Servers /\ g # 0 /\ g \in 0 .. MaxServers /\ g > servers
        /\ session' = g /\ servers' = g
        /\ server' = [server EXCEPT ![g] = fresh]
    BY <1>2, <1>7 DEF Servers
  <2> HIDE DEF fresh, g
  <2>3. /\ call' \in [Callers -> CallStates] /\ mutex' \in Seq(Callers)
        /\ \A d \in Callers : call'[d].pc # "idle" => call'[d].number \in Calls
        /\ \A d \in Callers : call'[d].pc # "read"
        /\ InLine' /\ HolderIsFirst'
    BY <1>5, <1>7, <2>2
  <2>4. /\ server' \in [Servers -> Processes] /\ server'[g] = fresh
        /\ \A h \in Servers \ {g} : server'[h] = server[h]
    BY <1>2, <2>1, <2>2
  <2>5. McpTypes'
    <3>1. session' \in 0 .. servers' BY <2>2
    <3> QED BY <1>1, <2>2, <2>3, <2>4, <3>1 DEF McpInv, McpTypes
  <2>6. PipesOfServers'
    <3>1. \A h \in Servers : h > g => h # g /\ h > servers BY <1>2, <2>2 DEF Servers
    <3> QED BY <1>1, <2>1, <2>2, <2>4, <3>1 DEF McpInv, PipesOfServers
  <2>7. AnswersMatch' BY <1>1 DEF McpInv, AnswersMatch
  <2>8. PipesInStep' BY <2>1, <2>2, <2>3, <2>4 DEF PipesInStep
  <2> QED BY <2>3, <2>5, <2>6, <2>7, <2>8 DEF McpInv
<1>8. CASE Leave(c) /\ UNCHANGED <<session, server, servers>>
  <2>1. /\ mutex' \in Seq(Callers) /\ call' \in [Callers -> CallStates]
        /\ \A d \in Callers : call'[d].pc # "idle" => call'[d].number \in Calls
        /\ \A d \in Callers : call'[d].pc \notin Holding
        /\ InLine'
    BY <1>1, <1>8, LeaveInv
  <2>2. McpTypes' BY <1>1, <1>8, <2>1 DEF McpInv, McpTypes
  <2>3. HolderIsFirst' BY <2>1 DEF HolderIsFirst, Holding
  <2>4. PipesOfServers' /\ AnswersMatch' /\ PipesInStep'
    BY <1>1, <1>4, <1>8, <2>1
    DEF McpInv, PipesOfServers, AnswersMatch, PipesInStep, Holding
  <2> QED BY <2>1, <2>2, <2>3, <2>4 DEF McpInv
<1> QED BY <1>6, <1>7, <1>8 DEF EnsureSession

\* An exchange begins: its line is the only one in the pipes.
LEMMA WriteLineInv ==
  ASSUME McpInv, NEW c \in Callers, WriteLine(c)
  PROVE  McpInv'
<1>1. /\ call[c].pc = "write" /\ call[c].pc \in Holding
      /\ server' = IF server[session].alive
                   THEN [server EXCEPT ![session].stdin = Append(@, Line(c))]
                   ELSE server
      /\ call' = [call EXCEPT ![c].pc = "read"]
      /\ UNCHANGED <<session, servers, mutex, calls, misread, offset>>
  BY DEF WriteLine, Holding
<1>2. /\ servers \in 0 .. MaxServers /\ session \in 0 .. servers /\ MaxServers \in Nat
      /\ server \in [Servers -> Processes] /\ call \in [Callers -> CallStates]
      /\ session # 0
  BY <1>1, McpAssumption DEF McpInv, McpTypes, HolderIsFirst
<1>3. session \in Servers BY <1>2 DEF Servers
<1>4. /\ mutex[1] = c
      /\ \A d \in Callers \ {c} : call[d].pc \notin Holding
  BY <1>1, HolderAlone
<1>5. call' = [call EXCEPT ![c].pc = "read", ![c].attempt = call[c].attempt]
  BY <1>1, <1>2 DEF CallStates
<1>6. /\ call' \in [Callers -> CallStates]
      /\ call'[c].pc = "read" /\ call'[c].number = call[c].number
      /\ call'[c].method = call[c].method
      /\ \A d \in Callers \ {c} : call'[d] = call[d]
      /\ \A d \in Callers : call'[d].pc # "idle" => call'[d].number \in Calls
      /\ InLine'
  <2>1. call[c].attempt \in {0, 1, 2} /\ call[c].pc # "idle"
    BY <1>1, <1>2 DEF CallStates
  <2> QED BY <1>1, <1>5, <2>1, StayInLine
<1>7. Line(c) \in Lines \union {Unasked} /\ Line(c)' = Line(c)
  <2>1. call[c].method \in Methods /\ call[c].number \in Calls
    BY <1>1, <1>2 DEF CallStates, McpInv, McpTypes
  <2> QED BY <1>6, <2>1 DEF Line, Lines
<1>8. /\ \A g \in Servers \ {session} : server'[g] = server[g]
      /\ server'[session] \in Processes
      /\ server'[session].alive = server[session].alive
      /\ server'[session].stdout = server[session].stdout
      /\ server[session].alive =>
           server'[session].stdin = Append(server[session].stdin, Line(c))
      /\ ~server[session].alive => server'[session].stdin = server[session].stdin
      /\ server' \in [Servers -> Processes]
  <2>1. server[session] \in Processes BY <1>2, <1>3
  <2>2. CASE server[session].alive
    <3>1. /\ Append(server[session].stdin, Line(c)) \in Seq(Lines \union {Unasked})
      BY <1>7, <2>1 DEF Processes
    <3>2. server' = [server EXCEPT ![session] =
                       [server[session] EXCEPT
                          !.stdin = Append(server[session].stdin, Line(c))]]
      BY <1>1, <1>2, <1>3, <2>2
    <3> DEFINE after == [server[session] EXCEPT
                           !.stdin = Append(server[session].stdin, Line(c))]
    <3>3. /\ after \in Processes /\ after.alive = server[session].alive
          /\ after.stdout = server[session].stdout
          /\ after.stdin = Append(server[session].stdin, Line(c))
      BY <2>1, <3>1 DEF Processes
    <3>4. server' = [server EXCEPT ![session] = after] BY <3>2
    <3> HIDE DEF after
    <3> QED BY <1>2, <1>3, <2>2, <3>3, <3>4
  <2>3. CASE ~server[session].alive BY <1>1, <1>2, <1>3, <2>3
  <2> QED BY <2>2, <2>3
<1>9. McpTypes' BY <1>1, <1>6, <1>8 DEF McpInv, McpTypes
<1>10. HolderIsFirst' BY <1>1, <1>2, <1>4, <1>6 DEF HolderIsFirst, Holding
<1>11. PipesOfServers'
  BY <1>1, <1>2, <1>8 DEF McpInv, PipesOfServers
<1>12. AnswersMatch' BY <1>1 DEF McpInv, AnswersMatch
<1>13. PipesInStep'
  <2> SUFFICES ASSUME session \notin offset
               PROVE  PipesInStep'
    BY <1>1 DEF PipesInStep
  <2>1. \A d \in Callers : call[d].pc # "read" BY <1>1, <1>4 DEF Holding
  <2>2. server[session].stdin = <<>> /\ server[session].stdout = <<>>
    BY <1>2, <2>1 DEF McpInv, PipesInStep
  <2>3. Append(<<>>, Line(c)) = <<Line(c)>> OBVIOUS
  <2>4. /\ server'[session].stdout = <<>>
        /\ server'[session].stdin \in {<<>>, <<Line(c)>>}
    BY <1>8, <2>2, <2>3
  <2>5. \A d \in Callers : call'[d].pc = "read" => d = c
    BY <1>4, <1>6 DEF Holding
  <2> QED BY <1>1, <1>6, <1>7, <2>4, <2>5 DEF PipesInStep
<1> QED BY <1>6, <1>9, <1>10, <1>11, <1>12, <1>13 DEF McpInv

\* An exchange ends with a line: the one it asked for, unless the server is offset.
LEMMA ReadLineInv ==
  ASSUME McpInv, NEW c \in Callers, ReadLine(c)
  PROVE  McpInv'
<1>1. /\ call[c].pc = "read" /\ call[c].pc \in Holding
      /\ server[session].stdout # <<>>
      /\ server' = [server EXCEPT ![session].stdout = Tail(@)]
      /\ misread' = IF Head(server[session].stdout) = Line(c)
                    THEN misread
                    ELSE misread \union {session}
      /\ Leave(c)
      /\ UNCHANGED <<session, servers, calls, offset>>
  BY DEF ReadLine, Holding
<1>2. /\ servers \in 0 .. MaxServers /\ session \in 0 .. servers /\ MaxServers \in Nat
      /\ server \in [Servers -> Processes] /\ misread \subseteq Servers
      /\ session # 0
  BY <1>1, McpAssumption DEF McpInv, McpTypes, HolderIsFirst
<1>3. session \in Servers BY <1>2 DEF Servers
<1>4. /\ mutex' \in Seq(Callers) /\ call' \in [Callers -> CallStates]
      /\ \A d \in Callers : call'[d].pc # "idle" => call'[d].number \in Calls
      /\ \A d \in Callers : call'[d].pc \notin Holding
      /\ InLine'
  BY <1>1, LeaveInv
<1>5. /\ \A g \in Servers \ {session} : server'[g] = server[g]
      /\ server'[session].alive = server[session].alive
      /\ server'[session].stdin = server[session].stdin
      /\ server'[session].stdout = Tail(server[session].stdout)
      /\ server' \in [Servers -> Processes]
  <2>1. server[session] \in Processes BY <1>2, <1>3
  <2>2. Tail(server[session].stdout) \in Seq(Lines \union {Unasked})
    BY <1>1, <2>1 DEF Processes
  <2> DEFINE after == [server[session] EXCEPT !.stdout = Tail(server[session].stdout)]
  <2>3. /\ after \in Processes /\ after.alive = server[session].alive
        /\ after.stdin = server[session].stdin
        /\ after.stdout = Tail(server[session].stdout)
    BY <2>1, <2>2 DEF Processes
  <2>4. server' = [server EXCEPT ![session] = after] BY <1>1, <1>2, <1>3
  <2> HIDE DEF after
  <2> QED BY <1>2, <1>3, <2>3, <2>4
<1>6. McpTypes' BY <1>1, <1>2, <1>3, <1>4, <1>5 DEF McpInv, McpTypes
<1>7. HolderIsFirst' BY <1>4 DEF HolderIsFirst, Holding
<1>8. PipesOfServers' BY <1>1, <1>2, <1>3, <1>5 DEF McpInv, PipesOfServers
<1>9. session \notin offset =>
        /\ server[session].stdin = <<>> /\ server[session].stdout = <<Line(c)>>
  BY <1>1, <1>2 DEF McpInv, PipesInStep
<1>10. Head(<<Line(c)>>) = Line(c) /\ Tail(<<Line(c)>>) = <<>> OBVIOUS
<1>11. AnswersMatch'
  BY <1>1, <1>9, <1>10 DEF McpInv, AnswersMatch
<1>12. PipesInStep'
  BY <1>1, <1>4, <1>5, <1>9, <1>10 DEF PipesInStep, Holding
<1> QED BY <1>4, <1>6, <1>7, <1>8, <1>11, <1>12 DEF McpInv

\* A client hangs up: if an answer is still to come, the server is offset.
LEMMA HangUpInv ==
  ASSUME McpInv, NEW c \in Callers, HangUp(c)
  PROVE  McpInv'
<1>1. /\ call[c].pc # "idle"
      /\ offset' = IF call[c].pc = "read" THEN offset \union {session} ELSE offset
      /\ call' = [call EXCEPT ![c] = NoCall]
      /\ UNCHANGED <<session, server, servers, calls, misread>>
  BY DEF HangUp
<1>2. PICK i \in 1 .. Len(mutex) : mutex[i] = c /\ mutex' = Without(mutex, i)
  BY DEF HangUp
<1>3. /\ McpTypes /\ InLine /\ mutex \in Seq(Callers) /\ Len(mutex) \in Nat
      /\ call \in [Callers -> CallStates]
  BY DEF McpInv, McpTypes
<1>4. /\ mutex' \in Seq(Callers) /\ Len(mutex') = Len(mutex) - 1
      /\ \A j \in 1 .. Len(mutex) - 1 : /\ j < i  => mutex'[j] = mutex[j]
                                        /\ j >= i => mutex'[j] = mutex[j + 1]
  BY <1>2, <1>3, LeftOut
<1>5. InLine' BY <1>1, <1>2, <1>3, <1>4, LeaveLine
<1>6. NoCall \in CallStates /\ NoCall.pc = "idle"
  BY DEF NoCall, CallStates, Methods
<1>7. /\ call' \in [Callers -> CallStates] /\ call'[c].pc = "idle"
      /\ \A d \in Callers \ {c} : call'[d] = call[d]
  BY <1>1, <1>3, <1>6
<1>8. call[c].pc = "read" => session \in Servers /\ session <= servers /\ session # 0
  <2>1. /\ servers \in 0 .. MaxServers /\ session \in 0 .. servers /\ MaxServers \in Nat
    BY McpAssumption DEF McpInv, McpTypes
  <2> QED BY <2>1 DEF McpInv, HolderIsFirst, Servers
<1>9. McpTypes' BY <1>1, <1>4, <1>7, <1>8 DEF McpInv, McpTypes
<1>10. HolderIsFirst'
  <2>1. ASSUME NEW d \in Callers, call'[d].pc \in Holding
        PROVE  mutex'[1] = d
    <3>1. d # c /\ call[d].pc \in Holding BY <1>7, <2>1 DEF Holding
    <3>2. mutex[1] = d /\ Len(mutex) > 0 BY <3>1, HolderAlone
    <3>3. 1 < i /\ 1 \in 1 .. Len(mutex) - 1 BY <1>2, <1>3, <3>1, <3>2
    <3> QED BY <1>4, <3>2, <3>3
  <2>2. \A d \in Callers : call'[d].pc \in {"write", "read"} => session' # 0
    BY <1>1, <1>7 DEF McpInv, HolderIsFirst
  <2> QED BY <2>1, <2>2 DEF HolderIsFirst
<1>11. PipesOfServers'
  <2>1. servers \in Nat BY McpAssumption DEF McpInv, McpTypes
  <2>2. call[c].pc = "read" => ~(session > servers)
    BY <1>8, <2>1 DEF Servers
  <2> QED BY <1>1, <2>2 DEF McpInv, PipesOfServers
<1>12. AnswersMatch' BY <1>1 DEF McpInv, AnswersMatch
<1>13. PipesInStep'
  <2>1. CASE call[c].pc = "read" BY <1>1, <2>1 DEF PipesInStep
  <2>2. CASE call[c].pc # "read"
    <3>1. \A d \in Callers : call'[d].pc = "read" => call'[d] = call[d]
      BY <1>7
    <3>2. (\A d \in Callers : call'[d].pc # "read") =>
            \A d \in Callers : call[d].pc # "read"
      BY <1>7, <2>2
    <3> QED BY <1>1, <2>2, <3>1, <3>2 DEF McpInv, PipesInStep, Line
  <2> QED BY <2>1, <2>2
<1> QED BY <1>5, <1>9, <1>10, <1>11, <1>12, <1>13 DEF McpInv

-----------------------------------------------------------------------------
(* The steps of a server.                                                  *)

\* A step of a server touches its pipes and no call: it answers what is asked
\* first, dies, or becomes offset.
LEMMA ServerKeeps ==
  ASSUME McpInv, NEW g \in Servers, server[g].alive,
         server' \in [Servers -> Processes],
         \A h \in Servers \ {g} : server'[h] = server[h],
         ~server'[g].alive => server'[g].stdin = <<>>,
         offset \subseteq offset', offset' \subseteq offset \union {g},
         \/ g \in offset'
         \/ server'[g].stdin = <<>> /\ server'[g].stdout = server[g].stdout
         \/ /\ server[g].stdin # <<>> /\ server'[g].stdin = Tail(server[g].stdin)
            /\ server'[g].stdout = Append(server[g].stdout, Head(server[g].stdin)),
         UNCHANGED <<session, servers, mutex, call, calls, misread>>
  PROVE  McpInv'
<1>1. McpTypes' BY DEF McpInv, McpTypes
<1>2. InLine' /\ HolderIsFirst' BY DEF McpInv, InLine, HolderIsFirst
<1>3. PipesOfServers'
  <2>1. ~(g > servers) BY DEF McpInv, PipesOfServers, NoServer
  <2> QED BY <2>1 DEF McpInv, PipesOfServers
<1>4. AnswersMatch' BY DEF McpInv, AnswersMatch
<1>5. PipesInStep'
  <2>1. \A c \in Callers : Line(c)' = Line(c) BY DEF Line
  <2>2. CASE g # session
    <3>1. session # 0 => session \in Servers
      <4>1. servers \in 0 .. MaxServers /\ session \in 0 .. servers /\ MaxServers \in Nat
        BY McpAssumption DEF McpInv, McpTypes
      <4> QED BY <4>1 DEF Servers
    <3>2. session # 0 => server'[session] = server[session] BY <2>2, <3>1
    <3>3. session \in offset' <=> session \in offset BY <2>2
    <3> QED BY <2>1, <3>2, <3>3 DEF McpInv, PipesInStep
  <2>3. CASE g = session /\ g \notin offset'
    <3>1. session # 0 BY <2>3 DEF Servers
    <3>2. session \notin offset BY <2>3
    <3>3. CASE server'[g].stdin = <<>> /\ server'[g].stdout = server[g].stdout
      BY <2>1, <2>3, <3>1, <3>2, <3>3 DEF McpInv, PipesInStep
    <3>4. CASE /\ server[g].stdin # <<>> /\ server'[g].stdin = Tail(server[g].stdin)
               /\ server'[g].stdout = Append(server[g].stdout, Head(server[g].stdin))
      <4>1. ~\A c \in Callers : call[c].pc # "read"
        BY <2>3, <3>1, <3>2, <3>4 DEF McpInv, PipesInStep
      <4>2. ASSUME NEW c \in Callers, call[c].pc = "read"
            PROVE  server'[g].stdin = <<>> /\ server'[g].stdout = <<Line(c)>>
        <5>1. server[g].stdin = <<Line(c)>> /\ server[g].stdout = <<>>
          BY <2>3, <3>1, <3>2, <3>4, <4>2 DEF McpInv, PipesInStep
        <5>2. /\ Tail(<<Line(c)>>) = <<>>
              /\ Append(<<>>, Head(<<Line(c)>>)) = <<Line(c)>>
          OBVIOUS
        <5> QED BY <3>4, <5>1, <5>2
      <4> QED BY <2>1, <2>3, <4>1, <4>2 DEF PipesInStep
    <3> QED BY <2>3, <3>3, <3>4
  <2>4. CASE g = session /\ g \in offset' BY <2>4 DEF PipesInStep
  <2> QED BY <2>2, <2>3, <2>4
<1> QED BY <1>1, <1>2, <1>3, <1>4, <1>5 DEF McpInv

\* A server that dies takes what it was asked with it.
LEMMA DiesKeeps ==
  ASSUME McpInv, NEW g \in Servers, server[g].alive,
         server' = [server EXCEPT ![g].stdin = <<>>, ![g].alive = FALSE],
         UNCHANGED <<session, servers, mutex, call, calls, misread, offset>>
  PROVE  McpInv'
<1>1. server[g] \in Processes /\ server \in [Servers -> Processes]
  BY DEF McpInv, McpTypes
<1>2. <<>> \in Seq(Lines \union {Unasked}) OBVIOUS
<1>3. server' \in [Servers -> Processes] BY <1>1, <1>2 DEF Processes
<1>4. server'[g].stdin = <<>> BY <1>1 DEF Processes
<1>5. server'[g].stdout = server[g].stdout BY <1>1 DEF Processes
<1>6. \A h \in Servers \ {g} : server'[h] = server[h] BY <1>1
<1> QED BY <1>3, <1>4, <1>5, <1>6, ServerKeeps

LEMMA ServeInv ==
  ASSUME McpInv, NEW g \in Servers, Serve(g)
  PROVE  McpInv'
<1>1. /\ server[g].alive /\ server[g].stdin # <<>>
      /\ UNCHANGED <<session, servers, mutex, call, calls, misread, offset>>
  BY DEF Serve
<1>2. server[g] \in Processes /\ server \in [Servers -> Processes]
  BY DEF McpInv, McpTypes
<1>3. CASE server' = [server EXCEPT ![g].stdin = Tail(@),
                                    ![g].stdout = Append(@, Head(server[g].stdin))]
  <2>1. /\ Tail(server[g].stdin) \in Seq(Lines \union {Unasked})
        /\ Append(server[g].stdout, Head(server[g].stdin)) \in Seq(Lines \union {Unasked})
    BY <1>1, <1>2 DEF Processes
  <2>2. server' \in [Servers -> Processes] BY <1>2, <1>3, <2>1 DEF Processes
  <2>3. server'[g].stdin = Tail(server[g].stdin) BY <1>2, <1>3 DEF Processes
  <2>4. server'[g].stdout = Append(server[g].stdout, Head(server[g].stdin))
    BY <1>2, <1>3 DEF Processes
  <2>5. server'[g].alive = server[g].alive BY <1>2, <1>3 DEF Processes
  <2>6. \A h \in Servers \ {g} : server'[h] = server[h] BY <1>2, <1>3
  <2> QED BY <1>1, <2>2, <2>3, <2>4, <2>5, <2>6, ServerKeeps
<1>4. CASE server' = [server EXCEPT ![g].stdin = <<>>, ![g].alive = FALSE]
  BY <1>1, <1>4, DiesKeeps
<1> QED BY <1>3, <1>4 DEF Serve

LEMMA ExitInv ==
  ASSUME McpInv, NEW g \in Servers, Exit(g)
  PROVE  McpInv'
BY DiesKeeps DEF Exit

LEMMA NotifyInv ==
  ASSUME McpInv, NEW g \in Servers, Notify(g)
  PROVE  McpInv'
<1>1. /\ server[g].alive
      /\ server' = [server EXCEPT ![g].stdout = Append(@, Unasked)]
      /\ offset' = offset \union {g}
      /\ UNCHANGED <<session, servers, mutex, call, calls, misread>>
  BY DEF Notify
<1>2. server[g] \in Processes /\ server \in [Servers -> Processes]
  BY DEF McpInv, McpTypes
<1>3. Append(server[g].stdout, Unasked) \in Seq(Lines \union {Unasked})
  BY <1>2 DEF Processes
<1>4. server' \in [Servers -> Processes] BY <1>1, <1>2, <1>3 DEF Processes
<1>5. server'[g].alive = server[g].alive BY <1>1, <1>2 DEF Processes
<1>6. \A h \in Servers \ {g} : server'[h] = server[h] BY <1>1, <1>2
<1> QED BY <1>1, <1>4, <1>5, <1>6, ServerKeeps

\* Every step keeps it.
LEMMA McpStepInv ==
  ASSUME McpInv, [McpNext]_mcpVars
  PROVE  McpInv'
<1>1. ASSUME NEW c \in Callers, CallTool(c) \/ CallerStep(c) \/ HangUp(c)
      PROVE  McpInv'
  BY <1>1, CallToolInv, LockInv, EnsureSessionInv, WriteLineInv, ReadLineInv, GiveUpInv,
     HangUpInv DEF CallerStep
<1>2. ASSUME NEW g \in Servers, Serve(g) \/ Exit(g) \/ Notify(g)
      PROVE  McpInv'
  BY <1>2, ServeInv, ExitInv, NotifyInv
<1>3. CASE UNCHANGED mcpVars
  BY <1>3 DEF mcpVars, McpInv, McpTypes, InLine, HolderIsFirst, PipesOfServers,
              PipesInStep, AnswersMatch, Line
<1> QED BY <1>1, <1>2, <1>3 DEF McpNext

LEMMA McpKeepsInv == McpSpec => []McpInv
BY McpInitInv, McpStepInv, PTL DEF McpSpec

\* A line is mistaken for an answer only of a server that said something nobody
\* asked for or whose client hung up: no timeout, exit or retry shifts answers.
THEOREM AnswersInStep == McpSpec => []AnswersMatch
<1>1. McpInv => AnswersMatch BY DEF McpInv
<1> QED BY <1>1, McpKeepsInv, PTL

\* The session is used by one caller at a time, the first in line.
THEOREM OneExchange ==
  McpSpec => [](\A c, d \in Callers :
    call[c].pc \in Holding /\ call[d].pc \in Holding => c = d)
<1>1. McpInv => \A c, d \in Callers :
        call[c].pc \in Holding /\ call[d].pc \in Holding => c = d
  BY DEF McpInv, HolderIsFirst
<1> QED BY <1>1, McpKeepsInv, PTL
=============================================================================
