--------------------------- MODULE ActionGateProofs --------------------------
(***************************************************************************)
(* Theorems about the gate, for any requests, operations, tokens, domains, *)
(* policies and lifetimes.                                                 *)
(*                                                                         *)
(* What holds of a request depends on where it is and on what the user has *)
(* consented to since; Fits says it of the record of one request, so that  *)
(* a step of one leaves the others alone.                                  *)
(***************************************************************************)
EXTENDS ActionGate, FiniteSetTheorems, TLAPS

Engines == [until : Nat, pending : [Tokens -> Nat], approved : [Tokens -> Nat]]

Records ==
  [pc : {"idle"} \union Steps \union Answered, h : AllHandlers, domain : Text,
   outside : BOOLEAN, token : Tokens \union {NoToken}, round : {1, 2}, until : Nat,
   done : Nat, bad : BOOLEAN, unread : BOOLEAN, dropped : BOOLEAN,
   consent : BOOLEAN, elevated : BOOLEAN, banned : BOOLEAN]

Entries == [trace : Requests,
            decision : {"allowed", "error", "denied", "confirmation_required"}]

GateTypes ==
  /\ clock \in Nat
  /\ engine \in Engines
  /\ issued \subseteq Tokens
  /\ blocked \in [Domains -> SUBSET Kinds]
  /\ sweep \in {"sleep", "log"}
  /\ rq \in [Requests -> Records]
  /\ log \subseteq Entries
  /\ expiries \in Nat
  /\ elevations \in Nat
  /\ acts \in [Tokens \union {NoToken} -> Nat]

\* The engine holds nothing that the user has not consented to.
ConsentCovers ==
  /\ engine.until <= acts[NoToken]
  /\ \A k \in Tokens : engine.approved[k] <= acts[k]

-----------------------------------------------------------------------------
(* What holds of the record of a request.                                  *)

BeforeEffects == {"idle", "expiry", "log_expiry", "policy", "log_denied", "decide",
                  "log_asked", "prepare", "check_path", "denied", "asked"}
PastGate == {"prepare", "check_path", "perform", "log_done"}

\* How far its effects are.
Progress(x) ==
  /\ x.done <= Len(x.h.effects)
  /\ x.pc = "perform" => x.done < Len(x.h.effects)
  /\ x.pc = "log_done" /\ ~x.bad => x.done = Len(x.h.effects)
  /\ x.pc \in BeforeEffects => x.done = 0

\* Past the gate the user has consented.
Consented(x) ==
  (x.pc \in PastGate \/ x.done > 0) /\ Dangerous(x.h.kind) => x.consent

\* Past the check of its path an elevation was running, and the mode a request
\* has read is one the user asked for.
PathChecked(x) ==
  /\ x.outside => x.h.pathed
  /\ x.outside /\ x.h.rooted /\ (x.pc \in {"perform", "log_done"} \/ x.done > 0) => x.elevated
  /\ x.pc = "check_path" => x.until <= acts[NoToken]

\* A request that is banned is so by the policy of now, and gets no further than
\* the policy in its first round, unless that is not read.
BannedStops(x) ==
  x.banned =>
    /\ x.domain # NoDomain
    /\ x.h.kind \in blocked[x.domain]
    /\ x.unread \/ /\ x.done = 0
                   /\ \/ x.pc \in {"policy", "log_denied", "denied", "lost"}
                      \/ x.pc \in {"expiry", "log_expiry"} /\ x.round = 1

Fits(x) == Progress(x) /\ Consented(x) /\ PathChecked(x) /\ BannedStops(x)

RequestsFit == \A r \in Requests : Fits(rq[r])

-----------------------------------------------------------------------------
(* The audit log.                                                          *)

\* A record is of a request that was answered so.
EntriesFit ==
  \A e \in log :
    LET x == rq[e.trace]
    IN /\ e.decision = "denied" => x.pc = "denied"
       /\ e.decision = "confirmation_required" => x.pc = "asked"
       /\ e.decision \in {"allowed", "error"} => x.pc = "ok"
       /\ e.decision = "allowed" => x.done = Len(x.h.effects)

OneEntry == \A e, f \in log : e.trace = f.trace => e = f

\* Those who will record the end of an elevation.
Recorders == {r \in Requests : rq[r].pc = "log_expiry"}

\* 1 as long as there is an elevation that may end, 1 if the sweep will say so.
Running == IF engine.until # 0 THEN 1 ELSE 0
Sweeping == IF sweep = "log" THEN 1 ELSE 0

\* Each elevation is running, or to be recorded by one, or was recorded by one.
ExpiriesCounted ==
  /\ IsFiniteSet(Recorders)
  /\ expiries + Cardinality(Recorders) + Sweeping + Running <= elevations

GateInv ==
  /\ GateTypes
  /\ ConsentCovers
  /\ RequestsFit
  /\ EntriesFit
  /\ OneEntry
  /\ SuccessIsLogged
  /\ ExpiriesCounted

-----------------------------------------------------------------------------
(* The operations, and what a step of a request does.                      *)

\* What the gate needs to know of an operation.
WellShaped(h) ==
  /\ h.kind \in Kinds
  /\ h.targets \subseteq Text
  /\ Len(h.effects) \in Nat /\ Len(h.effects) > 0
  /\ h.mode \in BOOLEAN /\ h.pathed \in BOOLEAN /\ h.rooted \in BOOLEAN
  /\ h.pathed /\ ~h.rooted => Dangerous(h.kind)

LEMMA HandlerTypes == \A h \in AllHandlers : WellShaped(h)
<1> USE DEF WellShaped, Handler, Configured, Soft, Pathed, Rooted, Modeless, Kinds,
         Dangerous, Url, Text
<1>1. /\ WellShaped(run_skill) /\ WellShaped(api_run_skill)
      /\ WellShaped(create_skill) /\ WellShaped(api_create_skill)
  BY DEF run_skill, api_run_skill, create_skill, api_create_skill
<1>2. /\ WellShaped(send_message) /\ WellShaped(fs_read) /\ WellShaped(fs_write)
      /\ WellShaped(browser_navigate) /\ WellShaped(call_mcp_tool)
  BY DEF send_message, fs_read, fs_write, browser_navigate, call_mcp_tool
<1>3. /\ WellShaped(office_create_excel) /\ WellShaped(office_upload_graph_file)
      /\ WellShaped(memory_store) /\ WellShaped(mail_inbox_unreplied)
  BY DEF office_create_excel, office_upload_graph_file, memory_store, mail_inbox_unreplied
<1>4. /\ WellShaped(research_create_job) /\ WellShaped(media_generate)
      /\ WellShaped(web_search)
  BY DEF research_create_job, media_generate, web_search
<1>5. /\ WellShaped(connectors_google_sheets_append)
      /\ WellShaped(connectors_google_drive_create)
      /\ WellShaped(connectors_notion_search) /\ WellShaped(connectors_notion_page_create)
      /\ WellShaped(connectors_slack_post) /\ WellShaped(connectors_slack_history)
  BY DEF connectors_google_sheets_append, connectors_google_drive_create,
         connectors_notion_search, connectors_notion_page_create, connectors_slack_post,
         connectors_slack_history
<1> HIDE DEF WellShaped
<1> QED BY <1>1, <1>2, <1>3, <1>4, <1>5 DEF AllHandlers

-----------------------------------------------------------------------------
(* What a step of one request leaves as it is.                             *)

Labels == {"idle"} \union Steps \union Answered
Final  == {"denied", "asked", "ok"}

\* A request that goes to another place keeps all else.
LEMMA AtLabel ==
  ASSUME NEW x \in Records, NEW label \in Labels
  PROVE  /\ [x EXCEPT !.pc = label] \in Records
         /\ [x EXCEPT !.pc = label].pc = label
         /\ \A f \in DOMAIN x \ {"pc"} : [x EXCEPT !.pc = label][f] = x[f]
         /\ DOMAIN x = {"pc", "h", "domain", "outside", "token", "round", "until", "done",
                        "bad", "unread", "dropped", "consent", "elevated", "banned"}
BY DEF Records, Labels

\* The record of one request changes, the others fit as before.
LEMMA OneMoves ==
  ASSUME GateInv, NEW r \in Requests, NEW x \in Records, Set(r, x), Fits(x),
         UNCHANGED <<blocked, acts>>
  PROVE  /\ rq' \in [Requests -> Records]
         /\ rq'[r] = x
         /\ \A q \in Requests \ {r} : rq'[q] = rq[q]
         /\ RequestsFit'
<1>1. rq \in [Requests -> Records] /\ RequestsFit BY DEF GateInv, GateTypes
<1>2. rq' = [rq EXCEPT ![r] = x] BY DEF Set
<1>3. rq' \in [Requests -> Records] /\ rq'[r] = x BY <1>1, <1>2
<1>4. \A q \in Requests \ {r} : rq'[q] = rq[q] BY <1>1, <1>2
<1>5. RequestsFit'
  <2> SUFFICES ASSUME NEW q \in Requests PROVE Fits(rq[q])'
    BY DEF RequestsFit
  <2>1. CASE q = r
    BY <1>3, <2>1 DEF Fits, Progress, Consented, PathChecked, BannedStops
  <2>2. CASE q # r
    BY <1>1, <1>4, <2>2 DEF RequestsFit, Fits, Progress, Consented, PathChecked, BannedStops
  <2> QED BY <2>1, <2>2
<1> QED BY <1>3, <1>4, <1>5

\* A request under way has no record in the log.
LEMMA NotInLog ==
  ASSUME GateInv, NEW r \in Requests, rq[r].pc \notin Final
  PROVE  \A e \in log : e.trace # r
BY DEF GateInv, GateTypes, Entries, EntriesFit, Final

\* A step that leaves the log alone, and is not the end of a success, keeps what
\* is said of the log.
LEMMA LogStays ==
  ASSUME GateInv, NEW r \in Requests, rq[r].pc \notin Final, rq'[r].pc # "ok",
         \A q \in Requests \ {r} : rq'[q] = rq[q], log' = log
  PROVE  EntriesFit' /\ OneEntry' /\ SuccessIsLogged'
<1>1. \A e \in log : e.trace # r BY NotInLog
<1>2. \A e \in log : e.trace \in Requests BY DEF GateInv, GateTypes, Entries
<1>3. \A e \in log : rq'[e.trace] = rq[e.trace] BY <1>1, <1>2
<1>4. EntriesFit' BY <1>3 DEF GateInv, EntriesFit
<1>5. SuccessIsLogged' BY DEF GateInv, SuccessIsLogged
<1> QED BY <1>4, <1>5 DEF GateInv, OneEntry

\* The elevations that may still end are no more than before.
LEMMA NoneMore ==
  ASSUME GateInv, Recorders' = Recorders, engine' \in Engines,
         engine'.until \in {0, engine.until},
         UNCHANGED <<expiries, sweep, elevations>>
  PROVE  ExpiriesCounted'
<1>1. Running' <= Running /\ Running \in Nat /\ Running' \in Nat
  BY DEF Running, GateInv, GateTypes, Engines
<1>2. Sweeping' = Sweeping /\ Sweeping \in Nat BY DEF Sweeping
<1>3. Cardinality(Recorders) \in Nat
  BY FS_CardinalityType DEF GateInv, ExpiriesCounted
<1>4. expiries \in Nat /\ elevations \in Nat BY DEF GateInv, GateTypes
<1> QED BY <1>1, <1>2, <1>3, <1>4 DEF GateInv, ExpiriesCounted

LEMMA RecordersStay ==
  ASSUME NEW r \in Requests, rq[r].pc # "log_expiry", rq'[r].pc # "log_expiry",
         \A q \in Requests \ {r} : rq'[q] = rq[q]
  PROVE  Recorders' = Recorders
BY DEF Recorders

\* What a check of the expiry makes of the engine.
LEMMA SettledFacts ==
  ASSUME GateInv
  PROVE  /\ Settled \in Engines
         /\ Settled.until \in {0, engine.until}
         /\ Settled.until <= acts[NoToken]
         /\ \A k \in Tokens : Settled.approved[k] <= acts[k]
         /\ Lapsed => engine.until # 0 /\ Settled.until = 0
<1>1. NoAuthority \in Engines /\ NoAuthority.until = 0
      /\ \A k \in Tokens : NoAuthority.approved[k] = 0
  BY DEF NoAuthority, Engines
<1>2. engine \in Engines /\ acts \in [Tokens \union {NoToken} -> Nat]
  BY DEF GateInv, GateTypes
<1> QED BY <1>1, <1>2 DEF Settled, Lapsed, GateInv, ConsentCovers

LEMMA EngineCovered ==
  ASSUME GateInv, engine' \in {engine, Settled}, UNCHANGED acts
  PROVE  engine' \in Engines /\ engine'.until \in {0, engine.until} /\ ConsentCovers'
BY SettledFacts DEF ConsentCovers, GateInv, GateTypes

-----------------------------------------------------------------------------
(* Each step of a request keeps GateInv.                                   *)

\* A step that records nothing keeps it if the request fits where it goes.
LEMMA QuietStep ==
  ASSUME GateInv, NEW r \in Requests, NEW x \in Records, Set(r, x), Fits(x),
         rq[r].pc \notin Final \union {"log_expiry"},
         x.pc \notin {"ok", "log_expiry"},
         engine' \in Engines, engine'.until \in {0, engine.until}, ConsentCovers',
         issued' \subseteq Tokens,
         UNCHANGED <<clock, blocked, sweep, log, expiries, history>>
  PROVE  GateInv'
<1>1. UNCHANGED acts /\ UNCHANGED elevations BY DEF history
<1>2. /\ rq' \in [Requests -> Records] /\ rq'[r] = x
      /\ \A q \in Requests \ {r} : rq'[q] = rq[q]
      /\ RequestsFit'
  BY <1>1, OneMoves
<1>3. EntriesFit' /\ OneEntry' /\ SuccessIsLogged' BY <1>2, LogStays
<1>4. Recorders' = Recorders BY <1>2, RecordersStay
<1>5. ExpiriesCounted' BY <1>1, <1>4, NoneMore
<1>6. GateTypes' BY <1>1, <1>2 DEF GateInv, GateTypes
<1> QED BY <1>2, <1>3, <1>5, <1>6 DEF GateInv

LEMMA SameEngine ==
  ASSUME GateInv, UNCHANGED <<engine, history>>
  PROVE  engine' \in Engines /\ engine'.until \in {0, engine.until} /\ ConsentCovers'
BY DEF history, GateInv, GateTypes, ConsentCovers

LEMMA RequestInv ==
  ASSUME GateInv, NEW r \in Requests, Ask(r)
  PROVE  GateInv'
<1> PICK h \in Operations, k \in issued \union {NoToken} :
      \E d \in h.targets, outside \in (IF h.pathed THEN BOOLEAN ELSE {FALSE}) :
        Request(r, h, d, outside, k)
  BY DEF Ask
<1> PICK d \in h.targets, outside \in (IF h.pathed THEN BOOLEAN ELSE {FALSE}) :
      Request(r, h, d, outside, k)
  OBVIOUS
<1> DEFINE x == [Idle EXCEPT !.pc = "expiry", !.h = h, !.domain = d, !.outside = outside,
                   !.token = k, !.banned = d # NoDomain /\ h.kind \in blocked[d]]
<1>1. h \in AllHandlers /\ WellShaped(h) BY GateAssumption, HandlerTypes
<1>2. d \in Text /\ outside \in BOOLEAN /\ (outside => h.pathed) BY <1>1 DEF WellShaped
<1>3. k \in Tokens \union {NoToken} BY DEF GateInv, GateTypes
<1>4. fs_read \in AllHandlers BY DEF AllHandlers
<1>5. x \in Records
  BY <1>1, <1>2, <1>3, <1>4 DEF Idle, Records, Steps
<1>6. /\ x.pc = "expiry" /\ x.h = h /\ x.domain = d /\ x.outside = outside
      /\ x.done = 0 /\ x.round = 1
      /\ x.banned => d # NoDomain /\ h.kind \in blocked[d]
  BY DEF Idle
<1>7. Set(r, x) /\ rq[r].pc = "idle" BY DEF Request
<1>8. UNCHANGED <<clock, engine, issued, blocked, sweep, log, expiries, crashes, history>>
  BY DEF Request
<1> HIDE DEF x
<1>9. Fits(x)
  BY <1>1, <1>2, <1>6
  DEF Fits, Progress, Consented, PathChecked, BannedStops, PastGate, WellShaped
<1>10. issued' \subseteq Tokens BY <1>8 DEF GateInv, GateTypes
<1>11. engine' \in Engines /\ engine'.until \in {0, engine.until} /\ ConsentCovers'
  BY <1>8, SameEngine
<1> QED BY <1>5, <1>6, <1>7, <1>8, <1>9, <1>10, <1>11, QuietStep DEF Final

LEMMA CheckExpiryInv ==
  ASSUME GateInv, NEW r \in Requests, CheckExpiry(r)
  PROVE  GateInv'
<1> DEFINE label == IF Lapsed THEN "log_expiry"
                    ELSE IF rq[r].round = 1 THEN "policy" ELSE "decide"
           x == [rq[r] EXCEPT !.pc = label]
<1>1. rq[r] \in Records /\ Fits(rq[r]) /\ rq[r].pc = "expiry"
  BY DEF GateInv, GateTypes, RequestsFit, CheckExpiry
<1>2. label \in Labels /\ label \in {"log_expiry", "policy", "decide"}
  BY DEF Labels, Steps
<1>3. /\ x \in Records /\ x.pc = label /\ x.h = rq[r].h /\ x.domain = rq[r].domain
      /\ x.outside = rq[r].outside /\ x.round = rq[r].round /\ x.done = rq[r].done
      /\ x.unread = rq[r].unread /\ x.consent = rq[r].consent
      /\ x.elevated = rq[r].elevated /\ x.banned = rq[r].banned
  BY <1>1, <1>2, AtLabel
<1>4. Set(r, x) BY DEF CheckExpiry, Goto
<1>5. UNCHANGED <<clock, issued, blocked, sweep, log, expiries, history>> /\ engine' = Settled
  BY DEF CheckExpiry
<1>6. label = "decide" => rq[r].round # 1 OBVIOUS
<1> HIDE DEF x, label
<1>7. Fits(x)
  BY <1>1, <1>2, <1>3, <1>6
  DEF Fits, Progress, Consented, PathChecked, BannedStops, PastGate, BeforeEffects
<1>8. engine' \in Engines /\ engine'.until \in {0, engine.until} /\ ConsentCovers'
  BY <1>5, EngineCovered DEF history
<1>9. issued' \subseteq Tokens BY <1>5 DEF GateInv, GateTypes
<1>10. CASE label # "log_expiry"
  BY <1>1, <1>2, <1>3, <1>4, <1>5, <1>7, <1>8, <1>9, <1>10, QuietStep DEF Final
<1>11. CASE label = "log_expiry"
  <2>1. Lapsed BY <1>11 DEF label
  <2>2. UNCHANGED acts /\ UNCHANGED elevations BY <1>5 DEF history
  <2>3. /\ rq' \in [Requests -> Records] /\ rq'[r] = x
        /\ \A q \in Requests \ {r} : rq'[q] = rq[q]
        /\ RequestsFit'
    BY <1>3, <1>4, <1>5, <1>7, <2>2, OneMoves
  <2>4. EntriesFit' /\ OneEntry' /\ SuccessIsLogged'
    BY <1>1, <1>3, <1>5, <1>11, <2>3, LogStays DEF Final
  <2>5. Recorders' = Recorders \union {r} /\ r \notin Recorders
    BY <1>1, <1>3, <1>11, <2>3 DEF Recorders
  <2>6. /\ IsFiniteSet(Recorders')
        /\ Cardinality(Recorders') = Cardinality(Recorders) + 1
        /\ Cardinality(Recorders) \in Nat
    BY <2>5, FS_AddElement, FS_CardinalityType DEF GateInv, ExpiriesCounted
  <2>7. Running = 1 /\ Running' = 0 BY <1>5, <2>1, SettledFacts DEF Running
  <2>8. Sweeping' = Sweeping /\ Sweeping \in Nat BY <1>5 DEF Sweeping
  <2>9. expiries \in Nat /\ elevations \in Nat BY DEF GateInv, GateTypes
  <2>10. ExpiriesCounted'
    BY <1>5, <2>2, <2>6, <2>7, <2>8, <2>9 DEF GateInv, ExpiriesCounted
  <2>11. GateTypes' BY <1>5, <1>8, <2>2, <2>3 DEF GateInv, GateTypes
  <2> QED BY <1>8, <2>3, <2>4, <2>10, <2>11 DEF GateInv
<1> QED BY <1>10, <1>11

LEMMA LogExpiryInv ==
  ASSUME GateInv, NEW r \in Requests, LogExpiry(r)
  PROVE  GateInv'
<1> DEFINE label == IF rq[r].round = 1 THEN "policy" ELSE "decide"
           x == [rq[r] EXCEPT !.pc = label]
<1>1. rq[r] \in Records /\ Fits(rq[r]) /\ rq[r].pc = "log_expiry"
  BY DEF GateInv, GateTypes, RequestsFit, LogExpiry
<1>2. label \in Labels /\ label \in {"policy", "decide"}
  BY DEF Labels, Steps
<1>3. /\ x \in Records /\ x.pc = label /\ x.h = rq[r].h /\ x.domain = rq[r].domain
      /\ x.outside = rq[r].outside /\ x.round = rq[r].round /\ x.done = rq[r].done
      /\ x.unread = rq[r].unread /\ x.consent = rq[r].consent
      /\ x.elevated = rq[r].elevated /\ x.banned = rq[r].banned
  BY <1>1, <1>2, AtLabel
<1>4. Set(r, x) BY DEF LogExpiry, Goto
<1>5. /\ UNCHANGED <<clock, engine, issued, blocked, sweep, log, history>>
      /\ expiries' \in {expiries, expiries + 1}
  BY DEF LogExpiry
<1>6. label = "decide" => rq[r].round # 1 OBVIOUS
<1> HIDE DEF x, label
<1>7. Fits(x)
  BY <1>1, <1>2, <1>3, <1>6
  DEF Fits, Progress, Consented, PathChecked, BannedStops, PastGate, BeforeEffects
<1>8. UNCHANGED acts /\ UNCHANGED elevations BY <1>5 DEF history
<1>9. /\ rq' \in [Requests -> Records] /\ rq'[r] = x
      /\ \A q \in Requests \ {r} : rq'[q] = rq[q]
      /\ RequestsFit'
  BY <1>3, <1>4, <1>5, <1>7, <1>8, OneMoves
<1>10. EntriesFit' /\ OneEntry' /\ SuccessIsLogged'
  BY <1>1, <1>2, <1>3, <1>5, <1>9, LogStays DEF Final
<1>11. Recorders' = Recorders \ {r} /\ r \in Recorders
  BY <1>1, <1>2, <1>3, <1>9 DEF Recorders
<1>12. /\ IsFiniteSet(Recorders')
       /\ Cardinality(Recorders') = Cardinality(Recorders) - 1
       /\ Cardinality(Recorders) \in Nat
  BY <1>11, FS_RemoveElement, FS_CardinalityType DEF GateInv, ExpiriesCounted
<1>13. Running' = Running /\ Running \in Nat /\ Sweeping' = Sweeping /\ Sweeping \in Nat
  BY <1>5 DEF Running, Sweeping
<1>14. expiries \in Nat /\ elevations \in Nat BY DEF GateInv, GateTypes
<1>15. ExpiriesCounted'
  BY <1>5, <1>8, <1>12, <1>13, <1>14 DEF GateInv, ExpiriesCounted
<1>16. ConsentCovers' BY <1>5, SameEngine
<1>17. GateTypes' BY <1>5, <1>8, <1>9 DEF GateInv, GateTypes
<1> QED BY <1>9, <1>10, <1>15, <1>16, <1>17 DEF GateInv

\* What is forbidden now is denied, so what was all along is.
LEMMA CheckPolicyInv ==
  ASSUME GateInv, NEW r \in Requests, CheckPolicy(r)
  PROVE  GateInv'
<1>1. rq[r] \in Records /\ Fits(rq[r]) /\ rq[r].pc = "policy"
  BY DEF GateInv, GateTypes, RequestsFit, CheckPolicy
<1>2. UNCHANGED <<clock, engine, issued, blocked, sweep, log, expiries, history>>
  BY DEF CheckPolicy
<1>3. engine' \in Engines /\ engine'.until \in {0, engine.until} /\ ConsentCovers'
  BY <1>2, SameEngine
<1>4. issued' \subseteq Tokens BY <1>2 DEF GateInv, GateTypes
<1>5. CASE Goto(r, IF Forbidden(r) THEN "log_denied" ELSE "decide")
  <2> DEFINE label == IF Forbidden(r) THEN "log_denied" ELSE "decide"
             x == [rq[r] EXCEPT !.pc = label]
  <2>1. label \in Labels /\ label \in {"log_denied", "decide"} BY DEF Labels, Steps
  <2>2. /\ x \in Records /\ x.pc = label /\ x.h = rq[r].h /\ x.domain = rq[r].domain
        /\ x.outside = rq[r].outside /\ x.round = rq[r].round /\ x.done = rq[r].done
        /\ x.unread = rq[r].unread /\ x.consent = rq[r].consent
        /\ x.elevated = rq[r].elevated /\ x.banned = rq[r].banned
    BY <1>1, <2>1, AtLabel
  <2>3. Set(r, x) BY <1>5 DEF Goto
  <2>4. rq[r].banned => label = "log_denied"
    BY <1>1 DEF Fits, BannedStops, Forbidden
  <2> HIDE DEF x, label
  <2>5. Fits(x)
    BY <1>1, <2>1, <2>2, <2>4
    DEF Fits, Progress, Consented, PathChecked, BannedStops, PastGate, BeforeEffects
  <2> QED BY <1>1, <1>2, <1>3, <1>4, <2>1, <2>2, <2>3, <2>5, QuietStep DEF Final
<1>6. CASE Set(r, [rq[r] EXCEPT !.pc = "decide", !.unread = TRUE])
  <2> DEFINE x == [rq[r] EXCEPT !.pc = "decide", !.unread = TRUE]
  <2>1. /\ x \in Records /\ x.pc = "decide" /\ x.h = rq[r].h /\ x.domain = rq[r].domain
        /\ x.outside = rq[r].outside /\ x.done = rq[r].done /\ x.unread
        /\ x.consent = rq[r].consent /\ x.elevated = rq[r].elevated
        /\ x.banned = rq[r].banned
    BY <1>1 DEF Records, Steps
  <2> HIDE DEF x
  <2>2. Fits(x)
    BY <1>1, <2>1
    DEF Fits, Progress, Consented, PathChecked, BannedStops, PastGate, BeforeEffects
  <2>3. Set(r, x) BY <1>6 DEF x
  <2> QED BY <1>1, <1>2, <1>3, <1>4, <2>1, <2>2, <2>3, QuietStep DEF Final
<1> QED BY <1>5, <1>6 DEF CheckPolicy

\* The gate lets a dangerous request through only with consent.
LEMMA AllowedHasConsent ==
  ASSUME GateInv, NEW kind, NEW token \in Tokens \union {NoToken},
         Allows(Settled, kind, token), Dangerous(kind)
  PROVE  Consents(token)
<1>1. /\ clock \in Nat /\ acts \in [Tokens \union {NoToken} -> Nat]
      /\ Settled \in Engines
      /\ Settled.until <= acts[NoToken]
      /\ \A k \in Tokens : Settled.approved[k] <= acts[k]
  BY SettledFacts DEF GateInv, GateTypes
<1>2. Settled.until \in Nat /\ \A k \in Tokens : Settled.approved[k] \in Nat
  BY <1>1 DEF Engines
<1>3. CASE Settled.until > clock BY <1>1, <1>2, <1>3 DEF Consents
<1>4. CASE token # NoToken /\ Settled.approved[token] > clock
  BY <1>1, <1>2, <1>4 DEF Consents
<1> QED BY <1>3, <1>4 DEF Allows

LEMMA DecideInv ==
  ASSUME GateInv, NEW r \in Requests, Decide(r)
  PROVE  GateInv'
<1>1. rq[r] \in Records /\ Fits(rq[r]) /\ rq[r].pc = "decide"
  BY DEF GateInv, GateTypes, RequestsFit, Decide
<1>2. UNCHANGED <<clock, blocked, sweep, log, expiries, history>> BY DEF Decide
<1>3. UNCHANGED acts BY <1>2 DEF history
<1>4. CASE Allows(Settled, rq[r].h.kind, rq[r].token) /\ engine' = Settled /\ UNCHANGED issued
  <2> DEFINE label == IF rq[r].round = 1 THEN "expiry" ELSE "prepare"
             consent == Consents(rq[r].token)
             x == [rq[r] EXCEPT !.pc = label, !.round = 2, !.consent = consent]
  <2>1. label \in {"expiry", "prepare"} /\ consent \in BOOLEAN BY DEF Consents
  <2> HIDE DEF label, consent
  <2>2. /\ x \in Records /\ x.pc = label /\ x.h = rq[r].h /\ x.domain = rq[r].domain
        /\ x.outside = rq[r].outside /\ x.done = rq[r].done
        /\ x.unread = rq[r].unread /\ x.elevated = rq[r].elevated
        /\ x.banned = rq[r].banned
        /\ x.consent = consent
    BY <1>1, <2>1 DEF Records, Steps
  <2>3. Set(r, x) BY <1>1, <1>4 DEF Decide, label, consent
  <2>4. Dangerous(rq[r].h.kind) => consent
    BY <1>1, <1>4, AllowedHasConsent DEF Records, consent
  <2> HIDE DEF x
  <2>5. Fits(x)
    BY <1>1, <2>1, <2>2, <2>4
    DEF Fits, Progress, Consented, PathChecked, BannedStops, PastGate, BeforeEffects
  <2>6. engine' \in Engines /\ engine'.until \in {0, engine.until} /\ ConsentCovers'
    BY <1>3, <1>4, EngineCovered
  <2>7. issued' \subseteq Tokens BY <1>4 DEF GateInv, GateTypes
  <2> QED BY <1>1, <1>2, <2>1, <2>2, <2>3, <2>5, <2>6, <2>7, QuietStep DEF Final
<1>5. CASE ~Allows(Settled, rq[r].h.kind, rq[r].token)
  <2> DEFINE x == [rq[r] EXCEPT !.pc = "log_asked"]
  <2>1. PICK k \in Tokens \ issued :
          /\ issued' = issued \union {k}
          /\ engine' = [Settled EXCEPT !.pending[k] = clock + PendingLife]
    BY <1>5 DEF Decide
  <2>2. "log_asked" \in Labels BY DEF Labels, Steps
  <2>3. /\ x \in Records /\ x.pc = "log_asked" /\ x.h = rq[r].h /\ x.domain = rq[r].domain
        /\ x.outside = rq[r].outside /\ x.round = rq[r].round /\ x.done = rq[r].done
        /\ x.unread = rq[r].unread /\ x.consent = rq[r].consent
        /\ x.elevated = rq[r].elevated /\ x.banned = rq[r].banned
    BY <1>1, <2>2, AtLabel
  <2>4. Set(r, x) BY <1>5 DEF Decide, Goto
  <2> HIDE DEF x
  <2>5. Fits(x)
    BY <1>1, <2>3
    DEF Fits, Progress, Consented, PathChecked, BannedStops, PastGate, BeforeEffects
  <2>6. clock + PendingLife \in Nat BY GateAssumption DEF GateInv, GateTypes
  <2>7. /\ engine' \in Engines /\ engine'.until = Settled.until
        /\ engine'.approved = Settled.approved
    BY <2>1, <2>6, SettledFacts DEF Engines
  <2>8. engine'.until \in {0, engine.until} /\ ConsentCovers'
    BY <1>3, <2>7, SettledFacts DEF ConsentCovers
  <2>9. issued' \subseteq Tokens BY <2>1 DEF GateInv, GateTypes
  <2> QED BY <1>1, <1>2, <2>3, <2>4, <2>5, <2>7, <2>8, <2>9, QuietStep DEF Final
<1> QED BY <1>4, <1>5 DEF Decide

\* What goes into the log is what the request comes to.
AuditFits(x, decision, answer) ==
  /\ x.pc \in {"log_denied", "log_asked", "log_done"}
  /\ \/ decision = "denied" /\ answer = "denied"
     \/ decision = "confirmation_required" /\ answer = "asked"
     \/ decision \in {"allowed", "error"} /\ answer = "ok"
  /\ decision = "allowed" => x.done = Len(x.h.effects)
  /\ answer # "ok" => x.done = 0
  /\ x.banned => x.unread \/ (x.done = 0 /\ answer = "denied")

LEMMA AuditInv ==
  ASSUME GateInv, NEW r \in Requests, NEW decision, NEW answer,
         AuditFits(rq[r], decision, answer), AppendAudit(r, decision, answer),
         UNCHANGED <<clock, engine, issued, blocked, sweep, expiries, history>>
  PROVE  GateInv'
<1> DEFINE entry == [trace |-> r, decision |-> decision]
<1>1. rq[r] \in Records /\ Fits(rq[r])
  BY DEF GateInv, GateTypes, RequestsFit
<1>2. answer \in Final /\ answer \in Labels BY DEF AuditFits, Final, Labels, Answered
<1>3. UNCHANGED acts /\ UNCHANGED elevations BY DEF history
<1>4. \E x \in Records :
        /\ Set(r, x) /\ x.pc = answer /\ x.h = rq[r].h /\ x.domain = rq[r].domain
        /\ x.outside = rq[r].outside /\ x.done = rq[r].done
        /\ x.unread = rq[r].unread /\ x.consent = rq[r].consent
        /\ x.elevated = rq[r].elevated /\ x.banned = rq[r].banned
        /\ \/ log' = log \union {entry}
           \/ log' = log /\ x.dropped
  <2>1. CASE log' = log \union {entry} /\ Goto(r, answer)
    <3> DEFINE x == [rq[r] EXCEPT !.pc = answer]
    <3>1. /\ x \in Records /\ x.pc = answer /\ x.h = rq[r].h /\ x.domain = rq[r].domain
          /\ x.outside = rq[r].outside /\ x.done = rq[r].done
          /\ x.unread = rq[r].unread /\ x.consent = rq[r].consent
          /\ x.elevated = rq[r].elevated /\ x.banned = rq[r].banned
      BY <1>1, <1>2, AtLabel
    <3>2. Set(r, x) BY <2>1 DEF Goto
    <3> HIDE DEF x
    <3> QED BY <2>1, <3>1, <3>2
  <2>2. CASE Set(r, [rq[r] EXCEPT !.pc = answer, !.dropped = TRUE]) /\ UNCHANGED log
    <3> DEFINE x == [rq[r] EXCEPT !.pc = answer, !.dropped = TRUE]
    <3>1. /\ x \in Records /\ x.pc = answer /\ x.h = rq[r].h /\ x.domain = rq[r].domain
          /\ x.outside = rq[r].outside /\ x.done = rq[r].done
          /\ x.unread = rq[r].unread /\ x.consent = rq[r].consent
          /\ x.elevated = rq[r].elevated /\ x.banned = rq[r].banned /\ x.dropped
      BY <1>1, <1>2 DEF Records, Labels
    <3>2. Set(r, x) BY <2>2
    <3> HIDE DEF x
    <3> QED BY <2>2, <3>1, <3>2
  <2> QED BY <2>1, <2>2 DEF AppendAudit
<1> PICK x \in Records :
        /\ Set(r, x) /\ x.pc = answer /\ x.h = rq[r].h /\ x.domain = rq[r].domain
        /\ x.outside = rq[r].outside /\ x.done = rq[r].done
        /\ x.unread = rq[r].unread /\ x.consent = rq[r].consent
        /\ x.elevated = rq[r].elevated /\ x.banned = rq[r].banned
        /\ \/ log' = log \union {entry}
           \/ log' = log /\ x.dropped
  BY <1>4
<1>5. Fits(x)
  <2>1. Progress(x) /\ PathChecked(x)
    BY <1>1, <1>2 DEF Fits, Progress, PathChecked, BeforeEffects, AuditFits, Final
  <2>2. Consented(x) BY <1>1, <1>2 DEF Fits, Consented, PastGate, Final
  <2>3. BannedStops(x) BY <1>1, <1>2 DEF Fits, BannedStops, AuditFits, Final
  <2> QED BY <2>1, <2>2, <2>3 DEF Fits
<1>6. /\ rq' \in [Requests -> Records] /\ rq'[r] = x
      /\ \A q \in Requests \ {r} : rq'[q] = rq[q]
      /\ RequestsFit'
  BY <1>3, <1>5, OneMoves
<1>7. \A e \in log : e.trace # r /\ e.trace \in Requests /\ rq'[e.trace] = rq[e.trace]
  <2>1. rq[r].pc \notin Final BY DEF AuditFits, Final
  <2> QED BY <1>6, <2>1, NotInLog DEF GateInv, GateTypes, Entries
<1>8. entry \in Entries /\ entry.trace = r /\ entry.decision = decision
  BY DEF Entries, AuditFits
<1> HIDE DEF entry
<1>9. log' \subseteq log \union {entry} OBVIOUS
<1>10. EntriesFit'
  <2> SUFFICES ASSUME NEW e \in log'
               PROVE  /\ e.decision = "denied" => rq'[e.trace].pc = "denied"
                      /\ e.decision = "confirmation_required" => rq'[e.trace].pc = "asked"
                      /\ e.decision \in {"allowed", "error"} => rq'[e.trace].pc = "ok"
                      /\ e.decision = "allowed" =>
                           rq'[e.trace].done = Len(rq'[e.trace].h.effects)
    BY DEF EntriesFit
  <2>1. CASE e \in log BY <1>7, <2>1 DEF GateInv, EntriesFit
  <2>2. CASE e = entry BY <1>6, <1>8, <2>2 DEF AuditFits
  <2> QED BY <1>9, <2>1, <2>2
<1>11. OneEntry' BY <1>7, <1>8, <1>9 DEF GateInv, OneEntry
<1>12. SuccessIsLogged'
  <2> SUFFICES ASSUME NEW q \in Requests, rq'[q].pc = "ok"
               PROVE  rq'[q].dropped \/ \E e \in log' :
                         e.trace = q /\ e.decision \in {"allowed", "error"}
    BY DEF SuccessIsLogged
  <2>1. CASE q # r BY <1>6, <2>1 DEF GateInv, SuccessIsLogged
  <2>2. CASE q = r BY <1>6, <1>8, <2>2 DEF AuditFits
  <2> QED BY <2>1, <2>2
<1>13. Recorders' = Recorders
  BY <1>2, <1>6, RecordersStay DEF AuditFits, Final
<1>14. /\ engine' \in Engines /\ engine'.until \in {0, engine.until} /\ ConsentCovers'
  BY SameEngine
<1>15. ExpiriesCounted' BY <1>3, <1>13, <1>14, NoneMore
<1>16. log' \subseteq Entries BY <1>8, <1>9 DEF GateInv, GateTypes
<1>17. GateTypes' BY <1>3, <1>6, <1>16 DEF GateInv, GateTypes
<1> QED BY <1>6, <1>10, <1>11, <1>12, <1>14, <1>15, <1>17 DEF GateInv

LEMMA LogDeniedInv ==
  ASSUME GateInv, NEW r \in Requests, LogDenied(r)
  PROVE  GateInv'
<1>1. Fits(rq[r]) /\ rq[r].pc = "log_denied" BY DEF GateInv, RequestsFit, LogDenied
<1>2. AuditFits(rq[r], "denied", "denied")
  BY <1>1 DEF AuditFits, Fits, Progress, BeforeEffects
<1> QED BY <1>2, AuditInv DEF LogDenied

LEMMA LogAskedInv ==
  ASSUME GateInv, NEW r \in Requests, LogAsked(r)
  PROVE  GateInv'
<1>1. Fits(rq[r]) /\ rq[r].pc = "log_asked" BY DEF GateInv, RequestsFit, LogAsked
<1>2. rq[r].done = 0 BY <1>1 DEF Fits, Progress, BeforeEffects
<1>3. rq[r].banned => rq[r].unread BY <1>1 DEF Fits, BannedStops
<1>4. AuditFits(rq[r], "confirmation_required", "asked")
  BY <1>1, <1>2, <1>3 DEF AuditFits
<1> QED BY <1>4, AuditInv DEF LogAsked

LEMMA LogDoneInv ==
  ASSUME GateInv, NEW r \in Requests, LogDone(r)
  PROVE  GateInv'
<1>1. Fits(rq[r]) /\ rq[r].pc = "log_done" BY DEF GateInv, RequestsFit, LogDone
<1>2. rq[r].bad \in BOOLEAN BY DEF GateInv, GateTypes, Records
<1>3. ~rq[r].bad => rq[r].done = Len(rq[r].h.effects) BY <1>1 DEF Fits, Progress
<1>4. rq[r].banned => rq[r].unread BY <1>1 DEF Fits, BannedStops
<1>5. AuditFits(rq[r], IF rq[r].bad THEN "error" ELSE "allowed", "ok")
  BY <1>1, <1>2, <1>3, <1>4 DEF AuditFits
<1> QED BY <1>5, AuditInv DEF LogDone

\* The handler gives up before it has done anything more.
LEMMA FailsInv ==
  ASSUME GateInv, NEW r \in Requests, rq[r].pc \in PastGate, Goto(r, "failed"),
         engine' \in {engine, Settled},
         UNCHANGED <<clock, issued, blocked, sweep, log, expiries, history>>
  PROVE  GateInv'
<1> DEFINE x == [rq[r] EXCEPT !.pc = "failed"]
<1>1. rq[r] \in Records /\ Fits(rq[r]) BY DEF GateInv, GateTypes, RequestsFit
<1>2. "failed" \in Labels BY DEF Labels, Answered
<1>3. /\ x \in Records /\ x.pc = "failed" /\ x.h = rq[r].h /\ x.domain = rq[r].domain
      /\ x.outside = rq[r].outside /\ x.done = rq[r].done
      /\ x.unread = rq[r].unread /\ x.consent = rq[r].consent
      /\ x.elevated = rq[r].elevated /\ x.banned = rq[r].banned
  BY <1>1, <1>2, AtLabel
<1>4. Set(r, x) BY DEF Goto
<1> HIDE DEF x
<1>5. Fits(x)
  <2>1. Progress(x) BY <1>1, <1>3 DEF Fits, Progress, BeforeEffects
  <2>2. Consented(x) BY <1>1, <1>3 DEF Fits, Consented, PastGate
  <2>3. PathChecked(x) BY <1>1, <1>3 DEF Fits, PathChecked
  <2>4. BannedStops(x) BY <1>1, <1>3 DEF Fits, BannedStops, PastGate
  <2> QED BY <2>1, <2>2, <2>3, <2>4 DEF Fits
<1>6. engine' \in Engines /\ engine'.until \in {0, engine.until} /\ ConsentCovers'
  BY EngineCovered DEF history
<1>7. issued' \subseteq Tokens BY DEF GateInv, GateTypes
<1> QED BY <1>3, <1>4, <1>5, <1>6, <1>7, QuietStep DEF Final, PastGate

LEMMA PrepareInv ==
  ASSUME GateInv, NEW r \in Requests, Prepare(r)
  PROVE  GateInv'
<1>1. rq[r] \in Records /\ Fits(rq[r]) /\ rq[r].pc = "prepare"
  BY DEF GateInv, GateTypes, RequestsFit, Prepare
<1>2. /\ UNCHANGED <<clock, issued, blocked, sweep, log, expiries, history>>
      /\ engine' \in {engine, Settled}
  BY DEF Prepare
<1>3. CASE Goto(r, "failed") BY <1>1, <1>2, <1>3, FailsInv DEF PastGate
<1>4. CASE ~Goto(r, "failed")
  <2> DEFINE label == IF rq[r].h.rooted THEN "check_path" ELSE "perform"
             until == IF rq[r].h.mode THEN Settled.until ELSE 0
             x == [rq[r] EXCEPT !.pc = label, !.until = until]
  <2>1. label \in {"check_path", "perform"} /\ (label = "perform" => ~rq[r].h.rooted)
    OBVIOUS
  <2>2. /\ engine.until \in Nat /\ acts[NoToken] \in Nat
        /\ Settled.until \in {0, engine.until} /\ Settled.until <= acts[NoToken]
    BY SettledFacts DEF GateInv, GateTypes, Engines
  <2>3. until \in Nat /\ until <= acts[NoToken] BY <2>2
  <2> HIDE DEF label, until
  <2>4. /\ x \in Records /\ x.pc = label /\ x.until = until /\ x.h = rq[r].h
        /\ x.domain = rq[r].domain /\ x.outside = rq[r].outside /\ x.done = rq[r].done
        /\ x.unread = rq[r].unread /\ x.consent = rq[r].consent
        /\ x.elevated = rq[r].elevated /\ x.banned = rq[r].banned
    BY <1>1, <2>1, <2>3 DEF Records, Steps
  <2>5. Set(r, x) BY <1>4 DEF Prepare, label, until
  <2> HIDE DEF x
  <2>6. Fits(x)
    <3>1. rq[r].done = 0 BY <1>1 DEF Fits, Progress, BeforeEffects
    <3>2. Len(rq[r].h.effects) \in Nat /\ Len(rq[r].h.effects) > 0
      BY <1>1, HandlerTypes DEF Records, WellShaped
    <3>3. Progress(x) BY <2>1, <2>4, <3>1, <3>2 DEF Progress
    <3>4. Consented(x) BY <1>1, <2>4 DEF Fits, Consented, PastGate
    <3>5. PathChecked(x) BY <1>1, <2>1, <2>3, <2>4, <3>1 DEF Fits, PathChecked
    <3>6. BannedStops(x) BY <1>1, <2>4 DEF Fits, BannedStops
    <3> QED BY <3>3, <3>4, <3>5, <3>6 DEF Fits
  <2>7. engine' \in Engines /\ engine'.until \in {0, engine.until} /\ ConsentCovers'
    BY <1>2, EngineCovered DEF history
  <2>8. issued' \subseteq Tokens BY <1>2 DEF GateInv, GateTypes
  <2> QED BY <1>1, <1>2, <2>1, <2>4, <2>5, <2>6, <2>7, <2>8, QuietStep DEF Final
<1> QED BY <1>3, <1>4

\* The mode that was read is still active, so the user's elevation is.
LEMMA CheckPathInv ==
  ASSUME GateInv, NEW r \in Requests, CheckPath(r)
  PROVE  GateInv'
<1>1. rq[r] \in Records /\ Fits(rq[r]) /\ rq[r].pc = "check_path"
  BY DEF GateInv, GateTypes, RequestsFit, CheckPath
<1>2. UNCHANGED <<clock, engine, issued, blocked, sweep, log, expiries, history>>
  BY DEF CheckPath
<1>3. CASE rq[r].outside /\ rq[r].until <= clock
  BY <1>1, <1>2, <1>3, FailsInv DEF PastGate, CheckPath
<1>4. CASE ~(rq[r].outside /\ rq[r].until <= clock)
  <2> DEFINE elevated == acts[NoToken] > clock
             x == [rq[r] EXCEPT !.pc = "perform", !.elevated = elevated]
  <2>0. elevated \in BOOLEAN OBVIOUS
  <2> HIDE DEF elevated
  <2>1. /\ x \in Records /\ x.pc = "perform" /\ x.h = rq[r].h
        /\ x.domain = rq[r].domain /\ x.outside = rq[r].outside /\ x.done = rq[r].done
        /\ x.unread = rq[r].unread /\ x.consent = rq[r].consent
        /\ x.banned = rq[r].banned
        /\ elevated => x.elevated
    BY <1>1, <2>0 DEF Records, Steps
  <2>2. Set(r, x) BY <1>4 DEF CheckPath, elevated
  <2> HIDE DEF x
  <2>3. rq[r].until \in Nat /\ clock \in Nat /\ acts[NoToken] \in Nat
    BY <1>1 DEF Records, GateInv, GateTypes
  <2>4. rq[r].outside => elevated
    BY <1>1, <1>4, <2>3 DEF Fits, PathChecked, elevated
  <2>5. Fits(x)
    <3>1. rq[r].done = 0 BY <1>1 DEF Fits, Progress, BeforeEffects
    <3>2. Len(rq[r].h.effects) \in Nat /\ Len(rq[r].h.effects) > 0
      BY <1>1, HandlerTypes DEF Records, WellShaped
    <3>3. Progress(x) BY <2>1, <3>1, <3>2 DEF Progress, BeforeEffects
    <3>4. Consented(x) BY <1>1, <2>1 DEF Fits, Consented, PastGate
    <3>5. PathChecked(x) BY <1>1, <2>1, <2>4 DEF Fits, PathChecked
    <3>6. BannedStops(x) BY <1>1, <2>1 DEF Fits, BannedStops
    <3> QED BY <3>3, <3>4, <3>5, <3>6 DEF Fits
  <2>6. engine' \in Engines /\ engine'.until \in {0, engine.until} /\ ConsentCovers'
    BY <1>2, SameEngine
  <2>7. issued' \subseteq Tokens BY <1>2 DEF GateInv, GateTypes
  <2> QED BY <1>1, <1>2, <2>1, <2>2, <2>5, <2>6, <2>7, QuietStep DEF Final
<1> QED BY <1>3, <1>4

\* An effect more, or none, and the handler goes on, records or fails.
LEMMA PerformInv ==
  ASSUME GateInv, NEW r \in Requests, Perform(r)
  PROVE  GateInv'
<1>1. rq[r] \in Records /\ Fits(rq[r]) /\ rq[r].pc = "perform"
  BY DEF GateInv, GateTypes, RequestsFit, Perform
<1>2. UNCHANGED <<clock, engine, issued, blocked, sweep, log, expiries, history>>
  BY DEF Perform
<1>3. /\ rq[r].done \in Nat /\ Len(rq[r].h.effects) \in Nat
      /\ rq[r].done < Len(rq[r].h.effects)
  BY <1>1, HandlerTypes DEF Records, WellShaped, Fits, Progress
<1>4. \E x \in Records :
        /\ Set(r, x) /\ x.h = rq[r].h /\ x.domain = rq[r].domain
        /\ x.outside = rq[r].outside /\ x.unread = rq[r].unread
        /\ x.consent = rq[r].consent /\ x.elevated = rq[r].elevated
        /\ x.banned = rq[r].banned
        /\ x.pc \in {"perform", "log_done", "failed"}
        /\ x.done \in Nat /\ x.done <= Len(x.h.effects)
        /\ x.pc = "perform" => x.done < Len(x.h.effects)
        /\ x.pc = "log_done" /\ ~x.bad => x.done = Len(x.h.effects)
  <2> DEFINE n == rq[r].done + 1
             label == IF n = Len(rq[r].h.effects) THEN "log_done" ELSE "perform"
  <2>1. CASE Set(r, [rq[r] EXCEPT !.done = n, !.pc = label])
    <3> DEFINE x == [rq[r] EXCEPT !.done = n, !.pc = label]
    <3>1. label \in {"log_done", "perform"} /\ n \in Nat BY <1>3
    <3>2. /\ n <= Len(rq[r].h.effects)
          /\ label = "perform" => n < Len(rq[r].h.effects)
          /\ label = "log_done" => n = Len(rq[r].h.effects)
      BY <1>3
    <3> HIDE DEF n, label
    <3>3. /\ x \in Records /\ x.pc = label /\ x.done = n
          /\ x.h = rq[r].h /\ x.domain = rq[r].domain
          /\ x.outside = rq[r].outside /\ x.unread = rq[r].unread
          /\ x.consent = rq[r].consent /\ x.elevated = rq[r].elevated
          /\ x.banned = rq[r].banned
      BY <1>1, <3>1 DEF Records, Steps
    <3>4. Set(r, x) BY <2>1
    <3> HIDE DEF x
    <3> QED BY <3>1, <3>2, <3>3, <3>4
  <2>2. CASE \E m \in {n - 1, n} : Set(r, [rq[r] EXCEPT !.done = m, !.pc = "failed"])
    <3> PICK m \in {n - 1, n} : Set(r, [rq[r] EXCEPT !.done = m, !.pc = "failed"])
      BY <2>2
    <3> DEFINE x == [rq[r] EXCEPT !.done = m, !.pc = "failed"]
    <3>1. m \in Nat /\ m <= Len(rq[r].h.effects) BY <1>3
    <3> HIDE DEF n
    <3>2. /\ x \in Records /\ x.pc = "failed" /\ x.done = m
          /\ x.h = rq[r].h /\ x.domain = rq[r].domain
          /\ x.outside = rq[r].outside /\ x.unread = rq[r].unread
          /\ x.consent = rq[r].consent /\ x.elevated = rq[r].elevated
          /\ x.banned = rq[r].banned
      BY <1>1, <3>1 DEF Records, Answered
    <3>3. Set(r, x) OBVIOUS
    <3> HIDE DEF x
    <3> QED BY <3>1, <3>2, <3>3
  <2>3. CASE Set(r, [rq[r] EXCEPT !.pc = "log_done", !.bad = TRUE])
    <3> DEFINE x == [rq[r] EXCEPT !.pc = "log_done", !.bad = TRUE]
    <3>1. /\ x \in Records /\ x.pc = "log_done" /\ x.done = rq[r].done /\ x.bad
          /\ x.h = rq[r].h /\ x.domain = rq[r].domain
          /\ x.outside = rq[r].outside /\ x.unread = rq[r].unread
          /\ x.consent = rq[r].consent /\ x.elevated = rq[r].elevated
          /\ x.banned = rq[r].banned
      BY <1>1 DEF Records, Steps
    <3>2. Set(r, x) BY <2>3
    <3> HIDE DEF x
    <3> QED BY <1>3, <3>1, <3>2
  <2> QED BY <2>1, <2>2, <2>3 DEF Perform
<1> PICK x \in Records :
        /\ Set(r, x) /\ x.h = rq[r].h /\ x.domain = rq[r].domain
        /\ x.outside = rq[r].outside /\ x.unread = rq[r].unread
        /\ x.consent = rq[r].consent /\ x.elevated = rq[r].elevated
        /\ x.banned = rq[r].banned
        /\ x.pc \in {"perform", "log_done", "failed"}
        /\ x.done \in Nat /\ x.done <= Len(x.h.effects)
        /\ x.pc = "perform" => x.done < Len(x.h.effects)
        /\ x.pc = "log_done" /\ ~x.bad => x.done = Len(x.h.effects)
  BY <1>4
<1>5. Fits(x)
  <2>1. Progress(x) BY DEF Progress, BeforeEffects
  <2>2. Consented(x) BY <1>1 DEF Fits, Consented, PastGate
  <2>3. PathChecked(x) BY <1>1 DEF Fits, PathChecked
  <2>4. BannedStops(x) BY <1>1 DEF Fits, BannedStops
  <2> QED BY <2>1, <2>2, <2>3, <2>4 DEF Fits
<1>6. engine' \in Engines /\ engine'.until \in {0, engine.until} /\ ConsentCovers'
  BY <1>2, SameEngine
<1>7. issued' \subseteq Tokens BY <1>2 DEF GateInv, GateTypes
<1> QED BY <1>1, <1>2, <1>5, <1>6, <1>7, QuietStep DEF Final

-----------------------------------------------------------------------------
(* Each step of the user, the sweep, a poll, the clock and a restart too.  *)

\* A step that leaves the requests alone takes no consent to elevations away.
LEMMA RequestsStay ==
  ASSUME GateInv, UNCHANGED <<rq, log, blocked>>, acts'[NoToken] \in Nat,
         acts[NoToken] <= acts'[NoToken]
  PROVE  RequestsFit' /\ EntriesFit' /\ OneEntry' /\ SuccessIsLogged'
         /\ Recorders' = Recorders
<1>1. RequestsFit'
  <2> SUFFICES ASSUME NEW r \in Requests PROVE Fits(rq[r])'
    BY DEF RequestsFit
  <2>1. rq[r] \in Records /\ Fits(rq[r]) BY DEF GateInv, GateTypes, RequestsFit
  <2>2. rq[r].until \in Nat /\ acts[NoToken] \in Nat
    BY <2>1 DEF Records, GateInv, GateTypes
  <2>3. Progress(rq[r])' BY <2>1 DEF Fits, Progress
  <2>4. Consented(rq[r])' BY <2>1 DEF Fits, Consented
  <2>5. PathChecked(rq[r])' BY <2>1, <2>2 DEF Fits, PathChecked
  <2>6. BannedStops(rq[r])' BY <2>1 DEF Fits, BannedStops
  <2> QED BY <2>3, <2>4, <2>5, <2>6 DEF Fits
<1>2. EntriesFit' BY DEF GateInv, EntriesFit
<1>3. OneEntry' BY DEF GateInv, OneEntry
<1>4. SuccessIsLogged' BY DEF GateInv, SuccessIsLogged
<1>5. Recorders' = Recorders BY DEF Recorders
<1> QED BY <1>1, <1>2, <1>3, <1>4, <1>5

\* What is counted, as numbers.
LEMMA Counted ==
  ASSUME GateInv
  PROVE  /\ Cardinality(Recorders) \in Nat /\ IsFiniteSet(Recorders)
         /\ Running \in {0, 1} /\ Sweeping \in {0, 1}
         /\ expiries \in Nat /\ elevations \in Nat
         /\ expiries + Cardinality(Recorders) + Sweeping + Running <= elevations
BY FS_CardinalityType DEF GateInv, GateTypes, ExpiriesCounted, Running, Sweeping

LEMMA ElevateInv ==
  ASSUME GateInv, NEW ttl \in TTLs, Elevate(ttl)
  PROVE  GateInv'
<1>1. /\ UNCHANGED <<clock, issued, blocked, sweep, rq, log, expiries>>
      /\ elevations' = elevations + 1
      /\ engine' = [engine EXCEPT !.until = clock + ttl]
      /\ acts' = [acts EXCEPT ![NoToken] = Latest(acts[NoToken], clock + ttl)]
  BY DEF Elevate
<1>2. /\ clock \in Nat /\ clock + ttl \in Nat /\ engine \in Engines
      /\ acts \in [Tokens \union {NoToken} -> Nat]
  BY GateAssumption DEF GateInv, GateTypes
<1>3. /\ Latest(acts[NoToken], clock + ttl) \in Nat
      /\ acts[NoToken] <= Latest(acts[NoToken], clock + ttl)
      /\ clock + ttl <= Latest(acts[NoToken], clock + ttl)
  BY <1>2 DEF Latest
<1>4. /\ acts' \in [Tokens \union {NoToken} -> Nat]
      /\ acts'[NoToken] = Latest(acts[NoToken], clock + ttl)
      /\ \A k \in Tokens : acts'[k] = acts[k]
  BY <1>1, <1>2, <1>3, GateAssumption
<1>5. /\ engine' \in Engines /\ engine'.until = clock + ttl
      /\ engine'.approved = engine.approved
  BY <1>1, <1>2 DEF Engines
<1>6. ConsentCovers' BY <1>3, <1>4, <1>5 DEF ConsentCovers, GateInv
<1>7. RequestsFit' /\ EntriesFit' /\ OneEntry' /\ SuccessIsLogged'
      /\ Recorders' = Recorders
  BY <1>1, <1>3, <1>4, RequestsStay
<1>8. Running' \in {0, 1} /\ Sweeping' = Sweeping BY <1>1 DEF Running, Sweeping
<1>9. ExpiriesCounted' BY <1>1, <1>7, <1>8, Counted DEF ExpiriesCounted
<1>10. GateTypes' BY <1>1, <1>4, <1>5 DEF GateInv, GateTypes
<1> QED BY <1>6, <1>7, <1>9, <1>10 DEF GateInv

LEMMA ApproveInv ==
  ASSUME GateInv, NEW k \in Tokens, Approve(k)
  PROVE  GateInv'
<1>1. UNCHANGED <<clock, issued, blocked, sweep, rq, log, expiries, elevations>>
  BY DEF Approve
<1>2. /\ Settled \in Engines /\ Settled.until \in {0, engine.until}
      /\ Settled.until <= acts[NoToken]
      /\ \A j \in Tokens : Settled.approved[j] <= acts[j]
  BY SettledFacts
<1>3. acts \in [Tokens \union {NoToken} -> Nat] /\ k # NoToken
  BY GateAssumption DEF GateInv, GateTypes
<1>4. /\ engine' \in Engines /\ engine'.until = Settled.until
      /\ acts' \in [Tokens \union {NoToken} -> Nat]
      /\ acts'[NoToken] = acts[NoToken]
      /\ \A j \in Tokens : engine'.approved[j] <= acts'[j]
  <2>1. CASE Settled.pending[k] > clock
    <3>1. /\ engine' = [Settled EXCEPT !.approved[k] = Settled.pending[k]]
          /\ acts' = [acts EXCEPT ![k] = Settled.pending[k]]
      BY <2>1 DEF Approve
    <3>2. /\ Settled.pending[k] \in Nat
          /\ Settled.approved \in [Tokens -> Nat]
      BY <1>2 DEF Engines
    <3>3. /\ engine' \in Engines /\ engine'.until = Settled.until
          /\ engine'.approved = [Settled.approved EXCEPT ![k] = Settled.pending[k]]
      BY <1>2, <3>1, <3>2 DEF Engines
    <3>4. /\ acts' \in [Tokens \union {NoToken} -> Nat] /\ acts'[NoToken] = acts[NoToken]
          /\ acts'[k] = Settled.pending[k]
          /\ \A j \in Tokens \ {k} : acts'[j] = acts[j]
      BY <1>3, <3>1, <3>2
    <3> QED BY <1>2, <3>2, <3>3, <3>4
  <2>2. CASE ~(Settled.pending[k] > clock)
    <3>1. engine' = Settled /\ acts' = acts BY <2>2 DEF Approve
    <3> QED BY <1>2, <1>3, <3>1
  <2> QED BY <2>1, <2>2
<1>5. ConsentCovers' BY <1>2, <1>4 DEF ConsentCovers
<1>6. acts'[NoToken] \in Nat /\ acts[NoToken] <= acts'[NoToken] BY <1>3, <1>4
<1>7. RequestsFit' /\ EntriesFit' /\ OneEntry' /\ SuccessIsLogged'
      /\ Recorders' = Recorders
  BY <1>1, <1>6, RequestsStay
<1>8. ExpiriesCounted' BY <1>1, <1>2, <1>4, <1>7, NoneMore
<1>9. GateTypes' BY <1>1, <1>4 DEF GateInv, GateTypes
<1> QED BY <1>5, <1>7, <1>8, <1>9 DEF GateInv

\* A policy that no longer forbids a request has not forbidden it all along.
LEMMA SetPolicyInv ==
  ASSUME GateInv, NEW d \in Domains, NEW kinds \in Policies, SetPolicy(d, kinds)
  PROVE  GateInv'
<1>1. /\ UNCHANGED <<clock, engine, issued, sweep, log, expiries, history>>
      /\ blocked' = [blocked EXCEPT ![d] = kinds]
      /\ rq' = [r \in Requests |->
                  IF rq[r].domain = d /\ rq[r].h.kind \notin kinds
                  THEN [rq[r] EXCEPT !.banned = FALSE] ELSE rq[r]]
  BY DEF SetPolicy
<1>2. UNCHANGED acts /\ UNCHANGED elevations BY <1>1 DEF history
<1>3. blocked \in [Domains -> SUBSET Kinds] /\ kinds \in SUBSET Kinds
  BY GateAssumption DEF GateInv, GateTypes
<1>4. /\ blocked' \in [Domains -> SUBSET Kinds] /\ blocked'[d] = kinds
      /\ \A c \in Domains \ {d} : blocked'[c] = blocked[c]
  BY <1>1, <1>3
<1>5. \A r \in Requests :
        /\ rq'[r] \in Records
        /\ rq'[r].pc = rq[r].pc /\ rq'[r].h = rq[r].h /\ rq'[r].domain = rq[r].domain
        /\ rq'[r].outside = rq[r].outside /\ rq'[r].round = rq[r].round
        /\ rq'[r].until = rq[r].until /\ rq'[r].done = rq[r].done
        /\ rq'[r].bad = rq[r].bad /\ rq'[r].unread = rq[r].unread
        /\ rq'[r].dropped = rq[r].dropped /\ rq'[r].consent = rq[r].consent
        /\ rq'[r].elevated = rq[r].elevated
        /\ rq'[r].banned =>
             rq[r].banned /\ (rq[r].domain = d => rq[r].h.kind \in kinds)
  <2> SUFFICES ASSUME NEW r \in Requests
               PROVE  /\ rq'[r] \in Records
                      /\ rq'[r].pc = rq[r].pc /\ rq'[r].h = rq[r].h
                      /\ rq'[r].domain = rq[r].domain
                      /\ rq'[r].outside = rq[r].outside /\ rq'[r].round = rq[r].round
                      /\ rq'[r].until = rq[r].until /\ rq'[r].done = rq[r].done
                      /\ rq'[r].bad = rq[r].bad /\ rq'[r].unread = rq[r].unread
                      /\ rq'[r].dropped = rq[r].dropped
                      /\ rq'[r].consent = rq[r].consent
                      /\ rq'[r].elevated = rq[r].elevated
                      /\ rq'[r].banned =>
                           rq[r].banned /\ (rq[r].domain = d => rq[r].h.kind \in kinds)
    OBVIOUS
  <2>1. rq[r] \in Records BY DEF GateInv, GateTypes
  <2>2. rq'[r] = IF rq[r].domain = d /\ rq[r].h.kind \notin kinds
                 THEN [rq[r] EXCEPT !.banned = FALSE] ELSE rq[r]
    BY <1>1
  <2>3. CASE rq[r].domain = d /\ rq[r].h.kind \notin kinds
    <3> DEFINE x == [rq[r] EXCEPT !.banned = FALSE]
    <3>1. rq'[r] = x BY <2>2, <2>3
    <3>2. x \in Records /\ ~x.banned BY <2>1 DEF Records
    <3>3. /\ x.pc = rq[r].pc /\ x.h = rq[r].h /\ x.domain = rq[r].domain
          /\ x.outside = rq[r].outside /\ x.round = rq[r].round
          /\ x.until = rq[r].until /\ x.done = rq[r].done /\ x.bad = rq[r].bad
          /\ x.unread = rq[r].unread /\ x.dropped = rq[r].dropped
          /\ x.consent = rq[r].consent /\ x.elevated = rq[r].elevated
      BY <2>1 DEF Records
    <3> HIDE DEF x
    <3> QED BY <3>1, <3>2, <3>3
  <2>4. CASE ~(rq[r].domain = d /\ rq[r].h.kind \notin kinds)
    BY <2>1, <2>2, <2>4
  <2> QED BY <2>3, <2>4
<1>6. rq' \in [Requests -> Records] BY <1>1, <1>5
<1>7. RequestsFit'
  <2> SUFFICES ASSUME NEW r \in Requests PROVE Fits(rq[r])'
    BY DEF RequestsFit
  <2>1. Fits(rq[r]) BY DEF GateInv, RequestsFit
  <2>2. Progress(rq[r])' BY <1>5, <2>1 DEF Fits, Progress
  <2>3. Consented(rq[r])' BY <1>5, <2>1 DEF Fits, Consented
  <2>4. PathChecked(rq[r])' BY <1>2, <1>5, <2>1 DEF Fits, PathChecked
  <2>5. BannedStops(rq[r])'
    <3> SUFFICES ASSUME rq'[r].banned PROVE BannedStops(rq[r])' BY DEF BannedStops
    <3>0. BannedStops(rq[r]) BY <2>1 DEF Fits
    <3>1. rq[r].banned /\ (rq[r].domain = d => rq[r].h.kind \in kinds)
      BY <1>5, Zenon
    <3>2. rq[r].domain \in Text /\ rq[r].domain # NoDomain
      BY <3>0, <3>1 DEF BannedStops, GateInv, GateTypes, Records
    <3>3. rq[r].domain \in Domains BY <3>2 DEF Text
    <3>4. rq[r].h.kind \in blocked'[rq[r].domain]
      BY <1>4, <3>0, <3>1, <3>3 DEF BannedStops
    <3> QED BY <1>5, <3>0, <3>1, <3>4 DEF BannedStops
  <2> QED BY <2>2, <2>3, <2>4, <2>5 DEF Fits
<1>8. \A e \in log : e.trace \in Requests BY DEF GateInv, GateTypes, Entries
<1>9. EntriesFit' BY <1>1, <1>5, <1>8 DEF GateInv, EntriesFit
<1>10. OneEntry' BY <1>1 DEF GateInv, OneEntry
<1>11. SuccessIsLogged' BY <1>1, <1>5 DEF GateInv, SuccessIsLogged
<1>12. Recorders' = Recorders BY <1>5 DEF Recorders
<1>13. engine' \in Engines /\ engine'.until \in {0, engine.until} /\ ConsentCovers'
  BY <1>1, SameEngine
<1>14. ExpiriesCounted' BY <1>1, <1>2, <1>12, <1>13, NoneMore
<1>15. GateTypes' BY <1>1, <1>2, <1>4, <1>6 DEF GateInv, GateTypes
<1> QED BY <1>7, <1>9, <1>10, <1>11, <1>13, <1>14, <1>15 DEF GateInv

LEMMA SweepInv ==
  ASSUME GateInv, Sweep
  PROVE  GateInv'
<1>1. /\ UNCHANGED <<clock, issued, blocked, rq, log, expiries, history>>
      /\ sweep = "sleep" /\ engine' = Settled
      /\ sweep' = IF Lapsed THEN "log" ELSE "sleep"
  BY DEF Sweep
<1>2. UNCHANGED acts /\ UNCHANGED elevations BY <1>1 DEF history
<1>3. engine' \in Engines /\ engine'.until \in {0, engine.until} /\ ConsentCovers'
  BY <1>1, <1>2, EngineCovered
<1>4. acts'[NoToken] \in Nat /\ acts[NoToken] <= acts'[NoToken]
  BY <1>2 DEF GateInv, GateTypes
<1>5. RequestsFit' /\ EntriesFit' /\ OneEntry' /\ SuccessIsLogged'
      /\ Recorders' = Recorders
  BY <1>1, <1>4, RequestsStay
<1>6. ExpiriesCounted'
  <2>1. CASE Lapsed
    <3>1. Running = 1 /\ Running' = 0 BY <1>1, <2>1, SettledFacts DEF Running
    <3>2. Sweeping = 0 /\ Sweeping' = 1 BY <1>1, <2>1 DEF Sweeping
    <3> QED BY <1>1, <1>2, <1>5, <3>1, <3>2, Counted DEF ExpiriesCounted
  <2>2. CASE ~Lapsed BY <1>1, <1>2, <1>3, <1>5, <2>2, NoneMore
  <2> QED BY <2>1, <2>2
<1>7. GateTypes' BY <1>1, <1>2, <1>3 DEF GateInv, GateTypes
<1> QED BY <1>3, <1>5, <1>6, <1>7 DEF GateInv

LEMMA LogSweepInv ==
  ASSUME GateInv, LogSweep
  PROVE  GateInv'
<1>1. /\ UNCHANGED <<clock, engine, issued, blocked, rq, log, history>>
      /\ sweep = "log" /\ sweep' = "sleep"
      /\ expiries' \in {expiries, expiries + 1}
  BY DEF LogSweep
<1>2. UNCHANGED acts /\ UNCHANGED elevations BY <1>1 DEF history
<1>3. ConsentCovers' BY <1>1, SameEngine
<1>4. acts'[NoToken] \in Nat /\ acts[NoToken] <= acts'[NoToken]
  BY <1>2 DEF GateInv, GateTypes
<1>5. RequestsFit' /\ EntriesFit' /\ OneEntry' /\ SuccessIsLogged'
      /\ Recorders' = Recorders
  BY <1>1, <1>4, RequestsStay
<1>6. Running' = Running /\ Sweeping = 1 /\ Sweeping' = 0
  BY <1>1 DEF Running, Sweeping
<1>7. ExpiriesCounted' BY <1>1, <1>2, <1>5, <1>6, Counted DEF ExpiriesCounted
<1>8. GateTypes' BY <1>1, <1>2 DEF GateInv, GateTypes
<1> QED BY <1>3, <1>5, <1>7, <1>8 DEF GateInv

LEMMA PollInv ==
  ASSUME GateInv, Poll
  PROVE  GateInv'
<1>1. /\ UNCHANGED <<clock, issued, blocked, sweep, rq, log, expiries, history>>
      /\ engine' = Settled
  BY DEF Poll
<1>2. UNCHANGED acts /\ UNCHANGED elevations BY <1>1 DEF history
<1>3. engine' \in Engines /\ engine'.until \in {0, engine.until} /\ ConsentCovers'
  BY <1>1, <1>2, EngineCovered
<1>4. acts'[NoToken] \in Nat /\ acts[NoToken] <= acts'[NoToken]
  BY <1>2 DEF GateInv, GateTypes
<1>5. RequestsFit' /\ EntriesFit' /\ OneEntry' /\ SuccessIsLogged'
      /\ Recorders' = Recorders
  BY <1>1, <1>4, RequestsStay
<1>6. ExpiriesCounted' BY <1>1, <1>2, <1>3, <1>5, NoneMore
<1>7. GateTypes' BY <1>1, <1>2, <1>3 DEF GateInv, GateTypes
<1> QED BY <1>3, <1>5, <1>6, <1>7 DEF GateInv

\* The clock moves on, or nothing that GateInv is about changes at all.
LEMMA TickInv ==
  ASSUME GateInv, clock' \in {clock, clock + 1},
         UNCHANGED <<engine, issued, blocked, sweep, rq, log, expiries, history>>
  PROVE  GateInv'
<1>1. UNCHANGED acts /\ UNCHANGED elevations BY DEF history
<1>2. engine' \in Engines /\ engine'.until \in {0, engine.until} /\ ConsentCovers'
  BY SameEngine
<1>3. acts'[NoToken] \in Nat /\ acts[NoToken] <= acts'[NoToken]
  BY <1>1 DEF GateInv, GateTypes
<1>4. RequestsFit' /\ EntriesFit' /\ OneEntry' /\ SuccessIsLogged'
      /\ Recorders' = Recorders
  BY <1>3, RequestsStay
<1>5. ExpiriesCounted' BY <1>1, <1>2, <1>4, NoneMore
<1>6. clock' \in Nat BY DEF GateInv, GateTypes
<1>7. GateTypes' BY <1>1, <1>2, <1>6 DEF GateInv, GateTypes
<1> QED BY <1>2, <1>4, <1>5, <1>7 DEF GateInv

\* Every consent ends with the application, and every request under way is lost.
LEMMA RestartInv ==
  ASSUME GateInv, Restart
  PROVE  GateInv'
<1>1. /\ UNCHANGED <<clock, issued, blocked, log, expiries, elevations>>
      /\ engine' = NoAuthority /\ sweep' = "sleep"
      /\ rq' = [r \in Requests |->
                  IF r \in Live THEN [rq[r] EXCEPT !.pc = "lost"] ELSE rq[r]]
      /\ acts' = [k \in Tokens \union {NoToken} |-> 0]
  BY DEF Restart
<1>2. /\ engine' \in Engines /\ engine'.until = 0
      /\ \A k \in Tokens : engine'.approved[k] = 0
      /\ acts' \in [Tokens \union {NoToken} -> Nat]
  BY <1>1 DEF NoAuthority, Engines
<1>3. ConsentCovers' BY <1>1, <1>2 DEF ConsentCovers
<1>4. \A r \in Requests : rq[r] \in Records /\ Fits(rq[r])
  BY DEF GateInv, GateTypes, RequestsFit
<1>5. \A r \in Requests : rq[r].pc \notin Steps => rq'[r] = rq[r]
  BY <1>1 DEF Live
<1>6. \A r \in Requests : rq[r].pc \in Steps =>
        /\ rq'[r] \in Records
        /\ rq'[r].pc = "lost"
        /\ \A f \in DOMAIN rq[r] \ {"pc"} : rq'[r][f] = rq[r][f]
        /\ DOMAIN rq[r] = {"pc", "h", "domain", "outside", "token", "round", "until",
                           "done", "bad", "unread", "dropped", "consent", "elevated",
                           "banned"}
  <2> SUFFICES ASSUME NEW r \in Requests, rq[r].pc \in Steps
               PROVE  /\ rq'[r] \in Records
                      /\ rq'[r].pc = "lost"
                      /\ \A f \in DOMAIN rq[r] \ {"pc"} : rq'[r][f] = rq[r][f]
                      /\ DOMAIN rq[r] = {"pc", "h", "domain", "outside", "token", "round",
                                         "until", "done", "bad", "unread", "dropped",
                                         "consent", "elevated", "banned"}
    OBVIOUS
  <2>1. rq'[r] = [rq[r] EXCEPT !.pc = "lost"] BY <1>1 DEF Live
  <2>2. "lost" \in Labels BY DEF Labels, Answered
  <2> QED BY <1>4, <2>1, <2>2, AtLabel
<1>7. rq' \in [Requests -> Records] BY <1>1, <1>4, <1>5, <1>6
<1>8. RequestsFit'
  <2> SUFFICES ASSUME NEW r \in Requests PROVE Fits(rq[r])'
    BY DEF RequestsFit
  <2>1. Fits(rq[r]) /\ rq[r] \in Records BY <1>4
  <2>2. CASE rq[r].pc \in Steps
    <3>1. /\ rq'[r].pc = "lost" /\ rq'[r].h = rq[r].h /\ rq'[r].domain = rq[r].domain
          /\ rq'[r].outside = rq[r].outside /\ rq'[r].done = rq[r].done
          /\ rq'[r].unread = rq[r].unread /\ rq'[r].consent = rq[r].consent
          /\ rq'[r].elevated = rq[r].elevated /\ rq'[r].banned = rq[r].banned
      BY <1>6, <2>2
    <3>2. Progress(rq[r])' BY <2>1, <3>1 DEF Fits, Progress, BeforeEffects
    <3>3. Consented(rq[r])' BY <2>1, <3>1 DEF Fits, Consented, PastGate
    <3>4. PathChecked(rq[r])' BY <2>1, <3>1 DEF Fits, PathChecked
    <3>5. BannedStops(rq[r])' BY <1>1, <2>1, <3>1 DEF Fits, BannedStops
    <3> QED BY <3>2, <3>3, <3>4, <3>5 DEF Fits
  <2>3. CASE rq[r].pc \notin Steps
    <3>1. rq'[r] = rq[r] BY <1>5, <2>3
    <3>2. Progress(rq[r])' BY <2>1, <3>1 DEF Fits, Progress
    <3>3. Consented(rq[r])' BY <2>1, <3>1 DEF Fits, Consented
    <3>4. PathChecked(rq[r])' BY <2>1, <2>3, <3>1 DEF Fits, PathChecked, Steps
    <3>5. BannedStops(rq[r])' BY <1>1, <2>1, <3>1 DEF Fits, BannedStops
    <3> QED BY <3>2, <3>3, <3>4, <3>5 DEF Fits
  <2> QED BY <2>2, <2>3
<1>9. \A e \in log : e.trace \in Requests /\ rq'[e.trace] = rq[e.trace]
  <2> SUFFICES ASSUME NEW e \in log
               PROVE  e.trace \in Requests /\ rq'[e.trace] = rq[e.trace]
    OBVIOUS
  <2>1. e.trace \in Requests
        /\ e.decision \in {"allowed", "error", "denied", "confirmation_required"}
    BY DEF GateInv, GateTypes, Entries
  <2>2. rq[e.trace].pc \in {"denied", "asked", "ok"} BY <2>1 DEF GateInv, EntriesFit
  <2> QED BY <1>5, <2>1, <2>2 DEF Steps
<1>10. EntriesFit' BY <1>1, <1>9 DEF GateInv, EntriesFit
<1>11. OneEntry' BY <1>1 DEF GateInv, OneEntry
<1>12. SuccessIsLogged'
  <2>1. \A r \in Requests : rq'[r].pc = "ok" => rq'[r] = rq[r] BY <1>5, <1>6
  <2> QED BY <1>1, <2>1 DEF GateInv, SuccessIsLogged
<1>13. Recorders' = {} BY <1>5, <1>6 DEF Recorders, Steps
<1>14. IsFiniteSet(Recorders') /\ Cardinality(Recorders') = 0 BY <1>13, FS_EmptySet
<1>15. Running' = 0 /\ Sweeping' = 0 BY <1>1, <1>2 DEF Running, Sweeping
<1>16. ExpiriesCounted' BY <1>1, <1>14, <1>15, Counted DEF ExpiriesCounted
<1>17. GateTypes' BY <1>1, <1>2, <1>7 DEF GateInv, GateTypes
<1> QED BY <1>3, <1>8, <1>10, <1>11, <1>12, <1>16, <1>17 DEF GateInv

-----------------------------------------------------------------------------
(* The invariant, and what it says.                                        *)

LEMMA GateInvInit == Init => GateInv
<1> SUFFICES ASSUME Init PROVE GateInv OBVIOUS
<1>1. /\ Idle \in Records /\ Idle.pc = "idle" /\ Idle.done = 0 /\ ~Idle.outside
      /\ ~Idle.banned /\ Idle.h = fs_read
  BY DEF Idle, Records, Text, AllHandlers
<1>2. Len(fs_read.effects) \in Nat
  BY HandlerTypes DEF WellShaped, AllHandlers
<1>3. Fits(Idle)
  BY <1>1, <1>2
  DEF Fits, Progress, Consented, PathChecked, BannedStops, BeforeEffects, PastGate
<1>4. /\ clock = 0 /\ engine = NoAuthority /\ issued = {} /\ sweep = "sleep"
      /\ blocked = [d \in Domains |-> {}] /\ rq = [r \in Requests |-> Idle]
      /\ log = {} /\ expiries = 0 /\ elevations = 0
      /\ acts = [k \in Tokens \union {NoToken} |-> 0]
  BY DEF Init
<1>5. RequestsFit BY <1>3, <1>4 DEF RequestsFit
<1>6. engine \in Engines /\ engine.until = 0 /\ ConsentCovers
  BY <1>4 DEF NoAuthority, Engines, ConsentCovers
<1>7. Recorders = {} BY <1>1, <1>4 DEF Recorders
<1>8. IsFiniteSet(Recorders) /\ Cardinality(Recorders) = 0 BY <1>7, FS_EmptySet
<1>9. ExpiriesCounted BY <1>4, <1>6, <1>8 DEF ExpiriesCounted, Running, Sweeping
<1>10. EntriesFit /\ OneEntry BY <1>4 DEF EntriesFit, OneEntry
<1>11. SuccessIsLogged BY <1>1, <1>4 DEF SuccessIsLogged
<1>12. GateTypes BY <1>1, <1>4, <1>6 DEF GateTypes
<1> QED BY <1>5, <1>6, <1>9, <1>10, <1>11, <1>12 DEF GateInv

LEMMA GateInvNext == GateInv /\ [Next]_vars => GateInv'
<1> SUFFICES ASSUME GateInv, [Next]_vars PROVE GateInv' OBVIOUS
<1>1. ASSUME NEW r \in Requests, Ask(r) \/ Handle(r) PROVE GateInv'
  BY <1>1, RequestInv, CheckExpiryInv, LogExpiryInv, CheckPolicyInv, LogDeniedInv,
     DecideInv, LogAskedInv, PrepareInv, CheckPathInv, PerformInv, LogDoneInv
  DEF Handle
<1>2. ASSUME NEW ttl \in TTLs, Elevate(ttl) PROVE GateInv' BY <1>2, ElevateInv
<1>3. ASSUME NEW k \in Tokens, Approve(k) PROVE GateInv' BY <1>3, ApproveInv
<1>4. ASSUME NEW d \in Domains, NEW kinds \in Policies, SetPolicy(d, kinds) PROVE GateInv'
  BY <1>4, SetPolicyInv
<1>5. CASE Sweep BY <1>5, SweepInv
<1>6. CASE LogSweep BY <1>6, LogSweepInv
<1>7. CASE Poll BY <1>7, PollInv
<1>8. CASE Tick BY <1>8, TickInv DEF Tick
<1>9. CASE Restart BY <1>9, RestartInv
<1>10. CASE UNCHANGED vars BY <1>10, TickInv DEF vars
<1> QED
  BY <1>1, <1>2, <1>3, <1>4, <1>5, <1>6, <1>7, <1>8, <1>9, <1>10 DEF Next

\* The inductive invariant holds in every reachable state.
THEOREM GateKeepsInv == Spec => []GateInv
BY GateInvInit, GateInvNext, PTL DEF Spec

\* Every variable keeps its type, and the bounds of the model are kept.
THEOREM GateTyped == Spec => []TypeOK
<1> DEFINE Bounds == clock \in 0 .. MaxTime /\ crashes \in 0 .. MaxCrashes
<1>1. Init => Bounds BY GateAssumption DEF Init
<1>2. Bounds /\ [Next]_vars => Bounds'
  <2> SUFFICES ASSUME Bounds, [Next]_vars PROVE Bounds' OBVIOUS
  <2>1. CASE Tick BY <2>1, GateAssumption DEF Tick
  <2>2. CASE Restart BY <2>2, GateAssumption DEF Restart
  <2>3. CASE UNCHANGED <<clock, crashes>> BY <2>3
  <2>4. ASSUME NEW r \in Requests, Ask(r) \/ Handle(r) PROVE UNCHANGED <<clock, crashes>>
    <3>1. CASE Ask(r) BY <3>1 DEF Ask, Request
    <3>2. CASE CheckExpiry(r) \/ LogExpiry(r) \/ CheckPolicy(r) \/ LogDenied(r)
      BY <3>2 DEF CheckExpiry, LogExpiry, CheckPolicy, LogDenied
    <3>3. CASE Decide(r) \/ LogAsked(r) \/ Prepare(r)
      BY <3>3 DEF Decide, LogAsked, Prepare
    <3>4. CASE CheckPath(r) \/ Perform(r) \/ LogDone(r)
      BY <3>4 DEF CheckPath, Perform, LogDone
    <3> QED BY <2>4, <3>1, <3>2, <3>3, <3>4 DEF Handle
  <2>5. CASE \/ \E ttl \in TTLs : Elevate(ttl)
             \/ \E k \in Tokens : Approve(k)
             \/ \E d \in Domains, kinds \in Policies : SetPolicy(d, kinds)
    BY <2>3, <2>5 DEF Elevate, Approve, SetPolicy
  <2>6. CASE Sweep \/ LogSweep \/ Poll BY <2>3, <2>6 DEF Sweep, LogSweep, Poll
  <2> QED BY <2>1, <2>2, <2>3, <2>4, <2>5, <2>6 DEF Next, vars
<1>3. GateInv /\ Bounds => TypeOK
  <2> SUFFICES ASSUME GateInv, Bounds PROVE TypeOK OBVIOUS
  <2>1. \A r \in Requests : /\ rq[r].pc \in {"idle"} \union Steps \union Answered
                           /\ rq[r].done \in 0 .. Len(rq[r].h.effects)
    <3> SUFFICES ASSUME NEW r \in Requests
                 PROVE  /\ rq[r].pc \in {"idle"} \union Steps \union Answered
                        /\ rq[r].done \in 0 .. Len(rq[r].h.effects)
      OBVIOUS
    <3>1. /\ rq[r].pc \in {"idle"} \union Steps \union Answered
          /\ rq[r].done \in Nat /\ rq[r].h \in AllHandlers
      BY DEF GateInv, GateTypes, Records
    <3>2. rq[r].done <= Len(rq[r].h.effects)
      BY DEF GateInv, RequestsFit, Fits, Progress
    <3>3. Len(rq[r].h.effects) \in Nat BY <3>1, HandlerTypes DEF WellShaped
    <3> QED BY <3>1, <3>2, <3>3
  <2> QED BY <2>1 DEF GateInv, GateTypes, Engines, Entries, TypeOK
<1> QED BY <1>1, <1>2, <1>3, GateKeepsInv, PTL DEF Spec

\* No dangerous effect without the user's consent, given since the start of the
\* application and running when the gate last looked.
THEOREM GateConsent == Spec => []EffectHasConsent
<1>1. GateInv => EffectHasConsent
  BY DEF GateInv, GateTypes, Records, RequestsFit, Fits, Consented, EffectHasConsent
<1> QED BY <1>1, GateKeepsInv, PTL

\* Outside the roots nothing is touched without an elevation by the handlers that
\* check the path, nor by the others without consent.
THEOREM GateOutside == Spec => []OutsideNeedsElevation
<1>1. ASSUME GateInv, NEW r \in Requests, rq[r].done > 0, rq[r].outside
      PROVE  IF rq[r].h.rooted THEN rq[r].elevated ELSE rq[r].consent
  <2>1. rq[r] \in Records /\ Fits(rq[r])
    BY <1>1 DEF GateInv, GateTypes, RequestsFit
  <2>2. WellShaped(rq[r].h) BY <2>1, HandlerTypes DEF Records
  <2>3. CASE rq[r].h.rooted
    BY <1>1, <2>1, <2>3 DEF Fits, PathChecked
  <2>4. CASE ~rq[r].h.rooted
    <3>1. Dangerous(rq[r].h.kind)
      BY <1>1, <2>1, <2>2, <2>4 DEF Fits, PathChecked, WellShaped
    <3> QED BY <1>1, <2>1, <2>4, <3>1 DEF Fits, Consented
  <2> QED BY <2>3, <2>4
<1>2. GateInv => OutsideNeedsElevation BY <1>1 DEF OutsideNeedsElevation
<1> QED BY <1>2, GateKeepsInv, PTL

\* What a domain's policy forbids all along is not done there.
THEOREM GateBlocks == Spec => []BlockedNotDone
<1>1. GateInv => BlockedNotDone
  BY DEF GateInv, GateTypes, Records, RequestsFit, Fits, BannedStops, BlockedNotDone
<1> QED BY <1>1, GateKeepsInv, PTL

\* The audit log says of no request what it did not come to.
THEOREM GateLogTrue == Spec => []LogTellsTruth
<1>1. GateInv => LogTellsTruth
  <2> SUFFICES ASSUME GateInv, NEW e \in log
               PROVE  /\ e.decision = "allowed" =>
                           rq[e.trace].done = Len(rq[e.trace].h.effects)
                      /\ e.decision \in {"denied", "confirmation_required"} =>
                           rq[e.trace].done = 0
                      /\ \A f \in log : f.trace = e.trace => f = e
    BY DEF LogTellsTruth
  <2>1. e.trace \in Requests BY DEF GateInv, GateTypes, Entries
  <2>2. Progress(rq[e.trace]) BY <2>1 DEF GateInv, RequestsFit, Fits
  <2> QED BY <2>2 DEF GateInv, EntriesFit, OneEntry, Progress, BeforeEffects
<1> QED BY <1>1, GateKeepsInv, PTL

\* A success a client was told of is in the log, or its record was lost.
THEOREM GateLogComplete == Spec => []SuccessIsLogged
<1>1. GateInv => SuccessIsLogged BY DEF GateInv
<1> QED BY <1>1, GateKeepsInv, PTL

\* The end of an elevation is recorded once at most.
THEOREM GateExpiryOnce == Spec => []ExpiryLoggedOnce
<1>1. GateInv => ExpiryLoggedOnce BY Counted DEF ExpiryLoggedOnce
<1> QED BY <1>1, GateKeepsInv, PTL
=============================================================================
