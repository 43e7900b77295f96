------------------------------ MODULE ActionGate ----------------------------
(***************************************************************************)
(* The gate of apps/desktop/src-tauri/src/lib.rs: what happens between a   *)
(* request for an operation and the audit record of it.  A request passes  *)
(* authorize_action and ensure_action_still_authorized, does what its      *)
(* handler does, and is audited; every `await` between those steps lets    *)
(* other requests, the user, the sweep and the clock in.                   *)
(*                                                                         *)
(* A call of the permission engine is one step here; how the engine's own  *)
(* steps interleave is the subject of PermissionEngine.                    *)
(***************************************************************************)
EXTENDS Handlers, FiniteSets

CONSTANTS
  Requests,    \* requests, each made once and with a trace id of its own
  Operations,  \* the handlers that requests are made to
  Tokens,      \* confirmation tokens
  NoToken,     \* a request that carries no approval token
  TTLs,        \* elevation lifetimes
  PendingLife, \* the lifetime of a confirmation token
  Policies,    \* the sets of kinds that the user has policies block
  MaxTime,     \* bound: the clock stops here
  MaxElevations, \* bound: the user asks for so many elevations
  MaxCrashes   \* bound: the application is restarted so many times

ASSUME GateAssumption ==
  /\ Operations \subseteq AllHandlers
  /\ NoToken \notin Tokens
  /\ TTLs \subseteq Nat \ {0}
  /\ PendingLife \in Nat \ {0}
  /\ Policies \subseteq SUBSET Kinds
  /\ MaxTime \in Nat
  /\ MaxElevations \in Nat
  /\ MaxCrashes \in Nat

VARIABLES
  clock,    \* Utc::now()
  engine,   \* the permission engine: until (0: Sandbox), pending, approved
  issued,   \* tokens ever minted
  blocked,  \* domain -> the kinds of action its policy blocks
  sweep,    \* the two-second loop: "sleep", or "log" when it ended an elevation
  rq,       \* the requests
  log,      \* audit records of the requests: trace and decision (the records
            \* of elevations and approvals are left out, no property is of them)
  expiries, \* audit records of an expired elevation
  crashes,  \* how often the application was restarted
  elevations, \* history: how often the user asked for an elevation
  acts      \* history: until when the user consents, since the last start

history == <<elevations, acts>>
vars == <<clock, engine, issued, blocked, sweep, rq, log, expiries, crashes, history>>

-----------------------------------------------------------------------------
(* Values.                                                                 *)

NoAuthority == [until |-> 0, pending |-> [k \in Tokens |-> 0],
                approved |-> [k \in Tokens |-> 0]]

Answered == {"denied", "asked", "failed", "ok", "lost"}
Steps == {"expiry", "log_expiry", "policy", "log_denied", "decide", "log_asked",
          "prepare", "check_path", "perform", "log_done"}

\* A request; round tells authorize_action (1) from the recheck (2); until is
\* the mode as read after the gate; done counts its effects; bad: the result
\* is an error; unread: its policy could not be read; dropped: an audit record
\* of it was.  The rest is history: whether the user consented when the gate last
\* looked, whether an elevation the user asked for was running when the path was
\* checked, and whether the policy has forbidden the request all the time.
Idle == [pc |-> "idle", h |-> fs_read, domain |-> NoDomain, outside |-> FALSE,
         token |-> NoToken, round |-> 1, until |-> 0, done |-> 0, bad |-> FALSE,
         unread |-> FALSE, dropped |-> FALSE,
         consent |-> FALSE, elevated |-> FALSE, banned |-> FALSE]

Live == {r \in Requests : rq[r].pc \in Steps}

\* The user consents to a request: by an elevation (acts[NoToken]) or by an
\* approval of the token it carries, neither of them over.
Consents(token) == acts[NoToken] > clock \/ acts[token] > clock

Latest(a, b) == IF a > b THEN a ELSE b

-----------------------------------------------------------------------------
(* The engine, one call at a time.                                         *)

Lapsed == engine.until # 0 /\ engine.until <= clock

\* The engine after expire_elevation_if_needed.
Settled == IF Lapsed THEN NoAuthority ELSE engine

\* Mutant: an approval is taken to hold at the instant at which it ends.
AllowsAtEnd(e, kind, token) ==
  \/ ~Dangerous(kind)
  \/ e.until > clock
  \/ token # NoToken /\ e.approved[token] >= clock

\* authorize allows a request of this kind with this token.
Allows(e, kind, token) ==
  \/ ~Dangerous(kind)
  \/ e.until > clock
  \/ token # NoToken /\ e.approved[token] > clock

-----------------------------------------------------------------------------
(* Requests.                                                               *)

Set(r, fields) == rq' = [rq EXCEPT ![r] = fields]
Goto(r, label) == Set(r, [rq[r] EXCEPT !.pc = label])

Forbidden(r) == rq[r].domain # NoDomain /\ rq[r].h.kind \in blocked[rq[r].domain]

\* append_audit: a store that is missing or fails loses the record silently.
AppendAudit(r, decision, answer) ==
  \/ /\ log' = log \union {[trace |-> r, decision |-> decision]}
     /\ Goto(r, answer)
  \/ /\ Set(r, [rq[r] EXCEPT !.pc = answer, !.dropped = TRUE])
     /\ UNCHANGED log

Request(r, h, d, outside, k) ==
  /\ rq[r].pc = "idle"
  /\ Set(r, [Idle EXCEPT !.pc = "expiry", !.h = h, !.domain = d, !.outside = outside,
               !.token = k,
               !.banned = d # NoDomain /\ h.kind \in blocked[d]])
  /\ UNCHANGED <<clock, engine, issued, blocked, sweep, log, expiries, crashes, history>>

\* Mutant: the expiry is seen, and left to authorize to act on.
CheckExpiryOnly(r) ==
  /\ rq[r].pc = "expiry"
  /\ Goto(r, IF Lapsed THEN "log_expiry"
             ELSE IF rq[r].round = 1 THEN "policy" ELSE "decide")
  /\ UNCHANGED <<clock, engine, issued, blocked, sweep, log, expiries, crashes, history>>

\* audit_elevation_expiry_if_needed, of either round.
CheckExpiry(r) ==
  /\ rq[r].pc = "expiry"
  /\ engine' = Settled
  /\ Goto(r, IF Lapsed THEN "log_expiry"
             ELSE IF rq[r].round = 1 THEN "policy" ELSE "decide")
  /\ UNCHANGED <<clock, issued, blocked, sweep, log, expiries, crashes, history>>

LogExpiry(r) ==
  /\ rq[r].pc = "log_expiry"
  /\ expiries' \in {expiries, expiries + 1}
  /\ Goto(r, IF rq[r].round = 1 THEN "policy" ELSE "decide")
  /\ UNCHANGED <<clock, engine, issued, blocked, sweep, log, crashes, history>>

\* Mutant: an elevated session is above the policies.
CheckPolicyUnlessElevated(r) ==
  /\ rq[r].pc = "policy"
  /\ \/ Goto(r, IF Forbidden(r) /\ engine.until <= clock THEN "log_denied" ELSE "decide")
     \/ /\ rq[r].domain # NoDomain
        /\ Set(r, [rq[r] EXCEPT !.pc = "decide", !.unread = TRUE])
  /\ UNCHANGED <<clock, engine, issued, blocked, sweep, log, expiries, crashes, history>>

\* The policy of the target's domain; one that cannot be read forbids nothing.
CheckPolicy(r) ==
  /\ rq[r].pc = "policy"
  /\ \/ Goto(r, IF Forbidden(r) THEN "log_denied" ELSE "decide")
     \/ /\ rq[r].domain # NoDomain
        /\ Set(r, [rq[r] EXCEPT !.pc = "decide", !.unread = TRUE])
  /\ UNCHANGED <<clock, engine, issued, blocked, sweep, log, expiries, crashes, history>>

LogDenied(r) ==
  /\ rq[r].pc = "log_denied"
  /\ AppendAudit(r, "denied", "denied")
  /\ UNCHANGED <<clock, engine, issued, blocked, sweep, expiries, crashes, history>>

\* current_mode and authorize, in authorize_action and again in
\* ensure_action_still_authorized.  Either may ask for a confirmation.
Decide(r) ==
  /\ rq[r].pc = "decide"
  /\ \/ /\ Allows(Settled, rq[r].h.kind, rq[r].token)
        /\ engine' = Settled
        /\ Set(r, [rq[r] EXCEPT !.pc = IF rq[r].round = 1 THEN "expiry" ELSE "prepare",
                                !.round = 2, !.consent = Consents(rq[r].token)])
        /\ UNCHANGED issued
     \/ /\ ~Allows(Settled, rq[r].h.kind, rq[r].token)
        /\ \E k \in Tokens \ issued :
             /\ issued' = issued \union {k}
             /\ engine' = [Settled EXCEPT !.pending[k] = clock + PendingLife]
        /\ Goto(r, "log_asked")
  /\ UNCHANGED <<clock, blocked, sweep, log, expiries, crashes, history>>

LogAsked(r) ==
  /\ rq[r].pc = "log_asked"
  /\ AppendAudit(r, "confirmation_required", "asked")
  /\ UNCHANGED <<clock, engine, issued, blocked, sweep, expiries, crashes, history>>

\* Past the gate the handler reads the mode, and may find that it has no
\* adapter, store or connector: it returns, and audits nothing.
Prepare(r) ==
  /\ rq[r].pc = "prepare"
  /\ engine' = IF rq[r].h.mode THEN Settled ELSE engine
  /\ \/ Set(r, [rq[r] EXCEPT !.pc = IF rq[r].h.rooted THEN "check_path" ELSE "perform",
                             !.until = IF rq[r].h.mode THEN Settled.until ELSE 0])
     \/ rq[r].h.setup /\ Goto(r, "failed")
  /\ UNCHANGED <<clock, issued, blocked, sweep, log, expiries, crashes, history>>

\* Mutant: the mode that was read is elevated, active or not.
CheckPathByMode(r) ==
  /\ rq[r].pc = "check_path"
  /\ IF rq[r].outside /\ rq[r].until = 0
     THEN Goto(r, "failed")
     ELSE Set(r, [rq[r] EXCEPT !.pc = "perform", !.elevated = acts[NoToken] > clock])
  /\ UNCHANGED <<clock, engine, issued, blocked, sweep, log, expiries, crashes, history>>

\* SandboxFsService: a path outside the roots needs the mode that was read to
\* be active now.
CheckPath(r) ==
  /\ rq[r].pc = "check_path"
  /\ IF rq[r].outside /\ rq[r].until <= clock
     THEN Goto(r, "failed")
     ELSE Set(r, [rq[r] EXCEPT !.pc = "perform", !.elevated = acts[NoToken] > clock])
  /\ UNCHANGED <<clock, engine, issued, blocked, sweep, log, expiries, crashes, history>>

\* Mutant: a refusal is answered before the audit.
PerformRefusalUnlogged(r) ==
  /\ rq[r].pc = "perform"
  /\ LET n == rq[r].done + 1
     IN \/ Set(r, [rq[r] EXCEPT !.done = n,
                     !.pc = IF n = Len(rq[r].h.effects) THEN "log_done" ELSE "perform"])
        \/ \E m \in {n - 1, n} : Set(r, [rq[r] EXCEPT !.done = m, !.pc = "failed"])
        \/ n = rq[r].h.soft /\ Set(r, [rq[r] EXCEPT !.pc = "ok", !.bad = TRUE])
  /\ UNCHANGED <<clock, engine, issued, blocked, sweep, log, expiries, crashes, history>>

\* One effect of the handler: it is done; it fails, or is done and its answer
\* is lost, and the handler returns with no audit record; or it is refused.
Perform(r) ==
  /\ rq[r].pc = "perform"
  /\ LET n == rq[r].done + 1
     IN \/ Set(r, [rq[r] EXCEPT !.done = n,
                     !.pc = IF n = Len(rq[r].h.effects) THEN "log_done" ELSE "perform"])
        \/ \E m \in {n - 1, n} : Set(r, [rq[r] EXCEPT !.done = m, !.pc = "failed"])
        \/ n = rq[r].h.soft /\ Set(r, [rq[r] EXCEPT !.pc = "log_done", !.bad = TRUE])
  /\ UNCHANGED <<clock, engine, issued, blocked, sweep, log, expiries, crashes, history>>

\* Mutant: a call that returns a result is audited as allowed.
LogDoneAllowed(r) ==
  /\ rq[r].pc = "log_done"
  /\ AppendAudit(r, "allowed", "ok")
  /\ UNCHANGED <<clock, engine, issued, blocked, sweep, expiries, crashes, history>>

LogDone(r) ==
  /\ rq[r].pc = "log_done"
  /\ AppendAudit(r, IF rq[r].bad THEN "error" ELSE "allowed", "ok")
  /\ UNCHANGED <<clock, engine, issued, blocked, sweep, expiries, crashes, history>>

-----------------------------------------------------------------------------
(* The user, the sweep, status polls, time and restarts.                   *)

Elevate(ttl) ==
  /\ elevations < MaxElevations
  /\ elevations' = elevations + 1
  /\ engine' = [engine EXCEPT !.until = clock + ttl]
  /\ acts' = [acts EXCEPT ![NoToken] = Latest(@, clock + ttl)]
  /\ UNCHANGED <<clock, issued, blocked, sweep, rq, log, expiries, crashes>>

\* approve_token, for a token the application has given out.
Approve(k) ==
  LET e == Settled
      granted == e.pending[k] > clock
  IN /\ k \in issued
     /\ engine' = IF granted THEN [e EXCEPT !.approved[k] = e.pending[k]] ELSE e
     /\ acts' = IF granted THEN [acts EXCEPT ![k] = e.pending[k]] ELSE acts
     /\ UNCHANGED <<clock, issued, blocked, sweep, rq, log, expiries, crashes, elevations>>

\* policy_set_domain overwrites the policy of one domain.
SetPolicy(d, kinds) ==
  /\ blocked' = [blocked EXCEPT ![d] = kinds]
  /\ rq' = [r \in Requests |->
              IF rq[r].domain = d /\ rq[r].h.kind \notin kinds
              THEN [rq[r] EXCEPT !.banned = FALSE] ELSE rq[r]]
  /\ UNCHANGED <<clock, engine, issued, sweep, log, expiries, crashes, history>>

Sweep ==
  /\ sweep = "sleep"
  /\ engine' = Settled
  /\ sweep' = IF Lapsed THEN "log" ELSE "sleep"
  /\ UNCHANGED <<clock, issued, blocked, rq, log, expiries, crashes, history>>

LogSweep ==
  /\ sweep = "log"
  /\ expiries' \in {expiries, expiries + 1}
  /\ sweep' = "sleep"
  /\ UNCHANGED <<clock, engine, issued, blocked, rq, log, crashes, history>>

\* status_inner: whoever asks for the mode may end an elevation, unrecorded.
Poll ==
  /\ engine' = Settled
  /\ UNCHANGED <<clock, issued, blocked, sweep, rq, log, expiries, crashes, history>>

Tick ==
  /\ clock < MaxTime
  /\ clock' = clock + 1
  /\ UNCHANGED <<engine, issued, blocked, sweep, rq, log, expiries, crashes, history>>

\* The engine is in memory only; the audit log and the policies are on disk.
Restart ==
  /\ crashes < MaxCrashes
  /\ crashes' = crashes + 1
  /\ engine' = NoAuthority
  /\ sweep' = "sleep"
  /\ rq' = [r \in Requests |->
              IF r \in Live THEN [rq[r] EXCEPT !.pc = "lost"] ELSE rq[r]]
  /\ acts' = [k \in Tokens \union {NoToken} |-> 0]
  /\ UNCHANGED <<clock, issued, blocked, log, expiries, elevations>>

-----------------------------------------------------------------------------

Init ==
  /\ clock = 0
  /\ engine = NoAuthority
  /\ issued = {}
  /\ blocked = [d \in Domains |-> {}]
  /\ sweep = "sleep"
  /\ rq = [r \in Requests |-> Idle]
  /\ log = {}
  /\ expiries = 0
  /\ crashes = 0
  /\ elevations = 0
  /\ acts = [k \in Tokens \union {NoToken} |-> 0]

\* A client presents a token it was given, or none.
Ask(r) ==
  \E h \in Operations, k \in issued \union {NoToken} :
    \E d \in h.targets, outside \in (IF h.pathed THEN BOOLEAN ELSE {FALSE}) :
      Request(r, h, d, outside, k)

Handle(r) ==
  \/ CheckExpiry(r) \/ LogExpiry(r) \/ CheckPolicy(r) \/ LogDenied(r)
  \/ Decide(r) \/ LogAsked(r)
  \/ Prepare(r) \/ CheckPath(r) \/ Perform(r) \/ LogDone(r)

Next ==
  \/ \E r \in Requests : Ask(r) \/ Handle(r)
  \/ \E ttl \in TTLs : Elevate(ttl)
  \/ \E k \in Tokens : Approve(k)
  \/ \E d \in Domains, kinds \in Policies : SetPolicy(d, kinds)
  \/ Sweep \/ LogSweep \/ Poll
  \/ Tick
  \/ Restart

Spec == Init /\ [][Next]_vars

-----------------------------------------------------------------------------
(* Properties.                                                             *)

\* Every variable has its type.
TypeOK ==
  /\ clock \in 0 .. MaxTime
  /\ engine \in [until : Nat, pending : [Tokens -> Nat], approved : [Tokens -> Nat]]
  /\ issued \subseteq Tokens
  /\ blocked \in [Domains -> SUBSET Kinds]
  /\ sweep \in {"sleep", "log"}
  /\ \A r \in Requests :
       /\ rq[r].pc \in {"idle"} \union Steps \union Answered
       /\ rq[r].done \in 0 .. Len(rq[r].h.effects)
  /\ log \subseteq [trace : Requests,
                    decision : {"allowed", "error", "denied", "confirmation_required"}]
  /\ expiries \in Nat
  /\ crashes \in 0 .. MaxCrashes

\* A dangerous effect has the user's consent: when the gate last looked, an
\* elevation, or an approval of the token the request carries, given by the
\* user since the application started, was running.  Neither a restart nor the
\* renewal or the end of an elevation lets a request through without one.
EffectHasConsent ==
  \A r \in Requests :
    rq[r].done > 0 /\ Dangerous(rq[r].h.kind) => rq[r].consent

\* fs_read and fs_write touch a path outside the roots, even to read it, only if
\* an elevation was running when they checked it: an approval is not enough, and
\* nor is an elevation that ended after they read the mode.  The handlers that
\* write where the client says without a check (office_create_excel,
\* media_generate and research_create_job) leave the roots with what the gate
\* asks for wherever they write: an approval is enough for them.
OutsideNeedsElevation ==
  \A r \in Requests :
    rq[r].done > 0 /\ rq[r].outside =>
      IF rq[r].h.rooted THEN rq[r].elevated ELSE rq[r].consent

\* What the policy of a domain forbids all along is not done there, unless the
\* policy could not be read.
BlockedNotDone ==
  \A r \in Requests : rq[r].banned /\ rq[r].done > 0 => rq[r].unread

\* The audit log tells the truth about each request, even if records are lost:
\* "allowed" only if all of it was done, a denial or a question only if nothing
\* was, and never two different ends.
LogTellsTruth ==
  \A e \in log :
    /\ e.decision = "allowed" => rq[e.trace].done = Len(rq[e.trace].h.effects)
    /\ e.decision \in {"denied", "confirmation_required"} => rq[e.trace].done = 0
    /\ \A f \in log : f.trace = e.trace => f = e

\* A success that a client was told of is in the log, or its record was lost.
SuccessIsLogged ==
  \A r \in Requests :
    rq[r].pc = "ok" =>
      rq[r].dropped \/ \E e \in log : e.trace = r /\ e.decision \in {"allowed", "error"}

\* The end of an elevation is recorded once at most, whoever notices it: of the
\* sweep and the requests under way, one changes the mode and one only records.
ExpiryLoggedOnce == expiries <= elevations
=============================================================================
