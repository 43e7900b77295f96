---------------------------- MODULE SkillRegistry ---------------------------
(***************************************************************************)
(* The registry of skills (clawork-skills).  A reload reads the manifests  *)
(* of the skills directory one by one, without a lock, and then puts what  *)
(* it read in place of the registry; one manifest it cannot read ends it.  *)
(* The watcher reloads for every event of the file system, and so does a   *)
(* request that has written a new skill.                                   *)
(***************************************************************************)
EXTENDS Integers, FiniteSets

CONSTANTS
  Bundled,   \* skills that are there from the start and that nobody changes
  Custom,    \* skills that come, change, break and go
  Watch,     \* the watcher
  Makers,    \* requests that create a skill
  MaxChanges \* bound: changes of the directory

ASSUME RegistryAssumption ==
  /\ Bundled \intersect Custom = {}
  /\ Watch \notin Makers
  /\ MaxChanges \in Nat

VARIABLES
  disk,     \* skill -> its manifest
  registry, \* skill -> the manifest held in memory
  events,   \* events the watcher has not taken yet
  reload,   \* thread -> its reload
  changes,  \* changes so far
  crossed   \* history: a reload began while another was under way

registryVars == <<disk, registry, events, reload, changes, crossed>>

Skills    == Bundled \union Custom
Reloaders == Makers \union {Watch}
Contents  == {"none", "unreadable", "first", "second"}

\* left: directories still to be read; read: manifests so far.
NoReload == [pc |-> "idle", left |-> {}, read |-> [s \in Skills |-> "none"]]

-----------------------------------------------------------------------------
(* The directory.                                                          *)

Change(s, content) ==
  /\ changes < MaxChanges
  /\ changes' = changes + 1
  /\ disk' = [disk EXCEPT ![s] = content]
  /\ events' = events + 1

\* A user writes, breaks or removes a skill.
Edit(s, content) ==
  /\ disk[s] # content
  /\ Change(s, content)
  /\ UNCHANGED <<registry, reload, crossed>>

BeginReload(t) ==
  /\ reload' = [reload EXCEPT ![t] = [NoReload EXCEPT !.pc = "scan", !.left = Skills]]
  /\ crossed' = (crossed \/ \E u \in Reloaders \ {t} : reload[u].pc # "idle")

\* create_skill_template: the manifest is written, whatever was there.  (The
\* module and the text beside it are of no matter here.)
CreateSkill(t, s) ==
  /\ reload[t].pc = "idle"
  /\ Change(s, "first")
  /\ BeginReload(t)
  /\ UNCHANGED registry

\* Mutant: what comes while a reload is under way is taken to be covered by it.
TakeEvents ==
  /\ reload[Watch].pc = "idle"
  /\ events > 0
  /\ events' = 0
  /\ IF \E u \in Makers : reload[u].pc # "idle"
     THEN UNCHANGED <<reload, crossed>>
     ELSE BeginReload(Watch)
  /\ UNCHANGED <<disk, registry, changes>>

\* watch: one reload for each event.
TakeEvent ==
  /\ reload[Watch].pc = "idle"
  /\ events > 0
  /\ events' = events - 1
  /\ BeginReload(Watch)
  /\ UNCHANGED <<disk, registry, changes>>

-----------------------------------------------------------------------------
(* A reload.                                                               *)

\* Mutant: a manifest that cannot be read ends the scan, not the reload.
ReadManifestBreak(t) ==
  /\ reload[t].pc = "scan"
  /\ \E s \in reload[t].left :
       reload' = [reload EXCEPT
         ![t].left = IF disk[s] = "unreadable" THEN {} ELSE @ \ {s},
         ![t].read[s] = IF disk[s] = "unreadable" THEN @ ELSE disk[s]]
  /\ UNCHANGED <<disk, registry, events, changes, crossed>>

ReadManifest(t) ==
  /\ reload[t].pc = "scan"
  /\ \E s \in reload[t].left :
       reload' = IF disk[s] = "unreadable"
                 THEN [reload EXCEPT ![t] = NoReload]
                 ELSE [reload EXCEPT ![t].left = @ \ {s}, ![t].read[s] = disk[s]]
  /\ UNCHANGED <<disk, registry, events, changes, crossed>>

Publish(t) ==
  /\ reload[t].pc = "scan"
  /\ reload[t].left = {}
  /\ registry' = reload[t].read
  /\ reload' = [reload EXCEPT ![t] = NoReload]
  /\ UNCHANGED <<disk, events, changes, crossed>>

-----------------------------------------------------------------------------

RegistryInit ==
  /\ disk = [s \in Skills |-> IF s \in Bundled THEN "first" ELSE "none"]
  /\ registry = disk
  /\ events = 0
  /\ reload = [t \in Reloaders |-> NoReload]
  /\ changes = 0
  /\ crossed = FALSE

RegistryNext ==
  \/ \E s \in Custom :
       \/ \E content \in Contents : Edit(s, content)
       \/ \E t \in Makers : CreateSkill(t, s)
  \/ TakeEvent
  \/ \E t \in Reloaders : ReadManifest(t) \/ Publish(t)

RegistrySpec == RegistryInit /\ [][RegistryNext]_registryVars

-----------------------------------------------------------------------------
(* Properties.                                                             *)

\* Every variable has its type.
RegistryTypeOK ==
  /\ disk \in [Skills -> Contents]
  /\ registry \in [Skills -> Contents \ {"unreadable"}]
  /\ events \in Nat
  /\ \A t \in Reloaders : reload[t].pc \in {"idle", "scan"} /\ reload[t].left \subseteq Skills

\* A skill nobody touches can be run all the time: not one broken manifest, nor
\* reloads that cross, nor a scan the directory changes under makes it go.
BundledStay == \A s \in Bundled : registry[s] = disk[s]

\* When the watcher has taken every event and no reload is under way, the
\* registry is what is on the disk, unless a manifest cannot be read or an old
\* reload could end after a younger one.
RegistryIsCurrent ==
  \/ events > 0
  \/ \E t \in Reloaders : reload[t].pc # "idle"
  \/ \E s \in Skills : disk[s] = "unreadable"
  \/ crossed
  \/ registry = disk
=============================================================================
