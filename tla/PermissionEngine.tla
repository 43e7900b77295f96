-------------------------- MODULE PermissionEngine --------------------------
(***************************************************************************)
(* The permission engine of crates/clawork-capabilities/src/lib.rs: three  *)
(* maps (mode, pending, approved), each behind a lock of its own, shared   *)
(* by the threads of the runtime.  No operation holds one lock for its     *)
(* whole length, so a step of this module is one critical section, or one  *)
(* reading of the wall clock, of one thread, and every interleaving of     *)
(* those steps is a behaviour.                                             *)
(*                                                                         *)
(* The only lock held from one step to the next is the read lock on        *)
(* `pending` that approve_token keeps while it writes `approved`.          *)
(***************************************************************************)
EXTENDS Naturals, FiniteSets

CONSTANTS
  Callers,      \* threads that run UI commands, API handlers and loops
  Sweeper,      \* the task that expires elevations every two seconds
  Tokens,       \* confirmation tokens (UUIDs: minted once, never again)
  NoToken,      \* a request that carries no approval token
  TTLs,         \* elevation lifetimes a user asks for
  MinTTL,       \* the lifetime an elevation has at least (30 seconds)
  PendingLife,  \* the lifetime of a confirmation token (5 minutes)
  MaxTime       \* bound: the clock stops here

ASSUME ThreadAssumption == Sweeper \notin Callers
ASSUME TokenAssumption  == NoToken \notin Tokens
ASSUME TimeAssumption   == /\ MinTTL \in Nat \ {0}
                           /\ PendingLife \in Nat \ {0}
                           /\ MaxTime \in Nat
                           /\ TTLs \subseteq Nat

VARIABLES
  clock,     \* Utc::now()
  mode,      \* the permission mode
  pending,   \* token -> expiry of the confirmation; NoEntry: not in the map
  approved,  \* token -> expiry of the approval; NoEntry: not in the map
  readers,   \* threads that hold the read lock of `pending`
  issued,    \* every token ever minted
  pc,        \* where each thread is
  frame      \* the local variables of the call each thread is in

vars == <<clock, mode, pending, approved, readers, issued, pc, frame>>

Threads == Callers \union {Sweeper}

-----------------------------------------------------------------------------
(* Values.                                                                 *)

NoEntry == 0
Empty   == [k \in Tokens |-> NoEntry]

Sandbox     == [tag |-> "Sandbox", until |-> 0]
Elevated(e) == [tag |-> "Elevated", until |-> e]
Modes == [tag : {"Sandbox", "Elevated"}, until : Nat]

\* PermissionMode::is_elevated_active
ElevatedActive(m, now) == m.tag = "Elevated" /\ m.until > now

\* A thread at one of these is in no call; "allow" and "confirm" are the two
\* decisions of authorize, "approve" and "refuse" the answers of approve_token.
Returned == {"idle", "allow", "confirm", "approve", "refuse"}

Running == {"expire_now", "expire_mode", "clear_pending", "clear_approved",
            "current_mode", "read_mode", "check_approved", "mint",
            "approve_now", "approve_check", "approve_insert", "elevate"}

\* start: the `now` of authorize and of approve_token; now: the `now` of the
\* expiry check; back: where the thread goes when that check is over; expiry:
\* what request_elevation computed, or what approve_token found in `pending`.
Frames == [op : {"none", "mode", "elevate", "approve", "authorize"},
           start : Nat, now : Nat, expiry : Nat,
           back : {"idle", "current_mode", "read_mode", "approve_now"},
           token : Tokens \union {NoToken}, dangerous : BOOLEAN]

NoFrame == [op |-> "none", start |-> 0, now |-> 0, expiry |-> 0,
            back |-> "idle", token |-> NoToken, dangerous |-> FALSE]

Longest(a, b) == IF a > b THEN a ELSE b

-----------------------------------------------------------------------------
(* Control: a call starts, goes on, or returns.                            *)

Goto(t, label) == pc' = [pc EXCEPT ![t] = label]

Enter(t, label, f) ==
  /\ pc[t] \in Returned
  /\ Goto(t, label)
  /\ frame' = [frame EXCEPT ![t] = f]

Return(t, answer) ==
  /\ Goto(t, answer)
  /\ frame' = [frame EXCEPT ![t] = NoFrame]

Maps == <<mode, pending, approved>>

-----------------------------------------------------------------------------
(* expire_elevation_if_needed: the clock is read before the lock is taken, *)
(* the lock is released before the two maps are cleared one after the      *)
(* other.                                                                  *)

\* Mutant: the check is made before the lock is taken, the lock only obeys it.
ExpireNowUnlocked(t) ==
  /\ pc[t] = "expire_now"
  /\ frame' = [frame EXCEPT ![t].now =
       IF mode.tag = "Elevated" /\ mode.until <= clock THEN MaxTime + PendingLife
       ELSE 0]
  /\ Goto(t, "expire_mode")
  /\ UNCHANGED <<clock, Maps, readers, issued>>

ExpireNow(t) ==
  /\ pc[t] = "expire_now"
  /\ frame' = [frame EXCEPT ![t].now = clock]
  /\ Goto(t, "expire_mode")
  /\ UNCHANGED <<clock, Maps, readers, issued>>

\* Mutant: an elevation that ends at this very instant is taken for active.
ExpireModeStrict(t) ==
  /\ pc[t] = "expire_mode"
  /\ \/ /\ mode.tag = "Elevated"
        /\ mode.until < frame[t].now
        /\ mode' = Sandbox
        /\ Goto(t, "clear_pending")
     \/ /\ ~(mode.tag = "Elevated" /\ mode.until < frame[t].now)
        /\ Goto(t, frame[t].back)
        /\ UNCHANGED mode
  /\ UNCHANGED <<clock, pending, approved, readers, issued, frame>>

ExpireMode(t) ==
  /\ pc[t] = "expire_mode"
  /\ \/ /\ mode.tag = "Elevated"
        /\ mode.until <= frame[t].now
        /\ mode' = Sandbox
        /\ Goto(t, "clear_pending")
     \/ /\ ~(mode.tag = "Elevated" /\ mode.until <= frame[t].now)
        /\ Goto(t, frame[t].back)
        /\ UNCHANGED mode
  /\ UNCHANGED <<clock, pending, approved, readers, issued, frame>>

ClearPending(t) ==
  /\ pc[t] = "clear_pending"
  /\ readers = {}
  /\ pending' = Empty
  /\ Goto(t, "clear_approved")
  /\ UNCHANGED <<clock, mode, approved, readers, issued, frame>>

ClearApproved(t) ==
  /\ pc[t] = "clear_approved"
  /\ approved' = Empty
  /\ Goto(t, frame[t].back)
  /\ UNCHANGED <<clock, mode, pending, readers, issued, frame>>

-----------------------------------------------------------------------------
(* current_mode: an expiry check whose answer is dropped, then a read.     *)

BeginMode(t) ==
  /\ Enter(t, "current_mode", [NoFrame EXCEPT !.op = "mode"])
  /\ UNCHANGED <<clock, Maps, readers, issued>>

CurrentMode(t) ==
  /\ pc[t] = "current_mode"
  /\ frame' = [frame EXCEPT ![t].now = clock, ![t].back = "read_mode"]
  /\ Goto(t, "expire_mode")
  /\ UNCHANGED <<clock, Maps, readers, issued>>

ReadMode(t) ==
  /\ pc[t] = "read_mode"
  /\ frame[t].op = "mode"
  /\ Return(t, "idle")
  /\ UNCHANGED <<clock, Maps, readers, issued>>

-----------------------------------------------------------------------------
(* request_elevation: the expiry is computed before the lock is taken, and *)
(* the mode is overwritten whatever it is.                                 *)

BeginElevate(t, ttl) ==
  /\ Enter(t, "elevate", [NoFrame EXCEPT !.op = "elevate",
                            !.expiry = clock + Longest(ttl, MinTTL)])
  /\ UNCHANGED <<clock, Maps, readers, issued>>

ElevateWrite(t) ==
  /\ pc[t] = "elevate"
  /\ mode' = Elevated(frame[t].expiry)
  /\ Return(t, "idle")
  /\ UNCHANGED <<clock, pending, approved, readers, issued>>

-----------------------------------------------------------------------------
(* approve_token: the read lock of `pending` is held from the lookup to    *)
(* the insertion into `approved`.                                          *)

\* Mutant: the lock of `pending` is taken first, the expiry check made under it.
BeginApproveLocked(t, k) ==
  /\ Enter(t, "expire_now", [NoFrame EXCEPT !.op = "approve", !.token = k,
                               !.back = "approve_now"])
  /\ readers' = readers \union {t}
  /\ UNCHANGED <<clock, Maps, issued>>

BeginApprove(t, k) ==
  /\ Enter(t, "expire_now", [NoFrame EXCEPT !.op = "approve", !.token = k,
                               !.back = "approve_now"])
  /\ UNCHANGED <<clock, Maps, readers, issued>>

ApproveNow(t) ==
  /\ pc[t] = "approve_now"
  /\ frame' = [frame EXCEPT ![t].start = clock]
  /\ Goto(t, "approve_check")
  /\ UNCHANGED <<clock, Maps, readers, issued>>

\* Mutant: the entry is copied and the lock given back before the insertion.
ApproveCheckUnlocked(t) ==
  /\ pc[t] = "approve_check"
  /\ \/ /\ pending[frame[t].token] > frame[t].start
        /\ frame' = [frame EXCEPT ![t].expiry = pending[frame[t].token]]
        /\ Goto(t, "approve_insert")
     \/ /\ ~(pending[frame[t].token] > frame[t].start)
        /\ Return(t, "refuse")
  /\ UNCHANGED <<clock, Maps, readers, issued>>

\* An absent token has NoEntry, which is after no `now`.
ApproveCheck(t) ==
  /\ pc[t] = "approve_check"
  /\ \/ /\ pending[frame[t].token] > frame[t].start
        /\ readers' = readers \union {t}
        /\ frame' = [frame EXCEPT ![t].expiry = pending[frame[t].token]]
        /\ Goto(t, "approve_insert")
     \/ /\ ~(pending[frame[t].token] > frame[t].start)
        /\ Return(t, "refuse")
        /\ UNCHANGED readers
  /\ UNCHANGED <<clock, Maps, issued>>

ApproveInsert(t) ==
  /\ pc[t] = "approve_insert"
  /\ approved' = [approved EXCEPT ![frame[t].token] = frame[t].expiry]
  /\ readers' = readers \ {t}
  /\ Return(t, "approve")
  /\ UNCHANGED <<clock, mode, pending, issued>>

-----------------------------------------------------------------------------
(* authorize: the clock, an expiry check, current_mode (a second one), and *)
(* then the decision, each map read once.                                  *)

Authorizing == {t \in Callers : frame[t].op = "authorize"}

\* Bound: no more calls than tokens are left to mint.
TokensLeft == Cardinality(Authorizing) < Cardinality(Tokens \ issued)

BeginAuthorize(t, k, d) ==
  /\ TokensLeft
  /\ Enter(t, "expire_now", [NoFrame EXCEPT !.op = "authorize", !.token = k,
                               !.start = clock, !.dangerous = d,
                               !.back = "current_mode"])
  /\ UNCHANGED <<clock, Maps, readers, issued>>

\* Mutant: a request that carries a token is judged by its token alone.
DecideByModeOrToken(t) ==
  /\ pc[t] = "read_mode"
  /\ frame[t].op = "authorize"
  /\ LET allowed == ~frame[t].dangerous \/ ( /\ frame[t].token = NoToken
                                            /\ ElevatedActive(mode, frame[t].start) )
     IN \/ allowed /\ Return(t, "allow")
        \/ /\ ~allowed
           /\ Goto(t, IF frame[t].token = NoToken THEN "mint" ELSE "check_approved")
           /\ UNCHANGED frame
  /\ UNCHANGED <<clock, Maps, readers, issued>>

DecideByMode(t) ==
  /\ pc[t] = "read_mode"
  /\ frame[t].op = "authorize"
  /\ \/ /\ ~frame[t].dangerous \/ ElevatedActive(mode, frame[t].start)
        /\ Return(t, "allow")
     \/ /\ frame[t].dangerous
        /\ ~ElevatedActive(mode, frame[t].start)
        /\ Goto(t, IF frame[t].token = NoToken THEN "mint" ELSE "check_approved")
        /\ UNCHANGED frame
  /\ UNCHANGED <<clock, Maps, readers, issued>>

\* Mutant: the token is looked up among the confirmations, not the approvals.
DecideByPending(t) ==
  /\ pc[t] = "check_approved"
  /\ \/ /\ pending[frame[t].token] > frame[t].start
        /\ Return(t, "allow")
     \/ /\ ~(pending[frame[t].token] > frame[t].start)
        /\ Goto(t, "mint")
        /\ UNCHANGED frame
  /\ UNCHANGED <<clock, Maps, readers, issued>>

DecideByToken(t) ==
  /\ pc[t] = "check_approved"
  /\ \/ /\ approved[frame[t].token] > frame[t].start
        /\ Return(t, "allow")
     \/ /\ ~(approved[frame[t].token] > frame[t].start)
        /\ Goto(t, "mint")
        /\ UNCHANGED frame
  /\ UNCHANGED <<clock, Maps, readers, issued>>

\* Mutant: the lifetime is subtracted from the clock.
MintExpired(t) ==
  /\ pc[t] = "mint"
  /\ readers = {}
  /\ \E k \in Tokens \ issued :
       /\ pending' = [pending EXCEPT ![k] = frame[t].start - PendingLife]
       /\ issued' = issued \union {k}
  /\ Return(t, "confirm")
  /\ UNCHANGED <<clock, mode, approved, readers>>

Mint(t) ==
  /\ pc[t] = "mint"
  /\ readers = {}
  /\ \E k \in Tokens \ issued :
       /\ pending' = [pending EXCEPT ![k] = frame[t].start + PendingLife]
       /\ issued' = issued \union {k}
  /\ Return(t, "confirm")
  /\ UNCHANGED <<clock, mode, approved, readers>>

-----------------------------------------------------------------------------
(* The sweep the application runs every two seconds, and the clock.        *)

BeginSweep ==
  /\ Enter(Sweeper, "expire_now", NoFrame)
  /\ UNCHANGED <<clock, Maps, readers, issued>>

Tick ==
  /\ clock < MaxTime
  /\ clock' = clock + 1
  /\ UNCHANGED <<Maps, readers, issued, pc, frame>>

\* reset_to_sandbox: public, and called by nothing in the application.
Reset(t) ==
  /\ Enter(t, "clear_pending", NoFrame)
  /\ mode' = Sandbox
  /\ UNCHANGED <<clock, pending, approved, readers, issued>>

-----------------------------------------------------------------------------

Init ==
  /\ clock = 0
  /\ mode = Sandbox
  /\ pending = Empty
  /\ approved = Empty
  /\ readers = {}
  /\ issued = {}
  /\ pc = [t \in Threads |-> "idle"]
  /\ frame = [t \in Threads |-> NoFrame]

\* Calls arrive in any order.  A token a client presents is one it was given.
Begin(t) ==
  \/ BeginMode(t)
  \/ \E ttl \in TTLs : BeginElevate(t, ttl)
  \/ \E k \in issued : BeginApprove(t, k)
  \/ \E k \in issued \union {NoToken}, d \in BOOLEAN : BeginAuthorize(t, k, d)
  \/ Reset(t)

\* A thread in a call goes on.
Continue(t) ==
  \/ ExpireNow(t) \/ ExpireMode(t) \/ ClearPending(t) \/ ClearApproved(t)
  \/ CurrentMode(t) \/ ReadMode(t)
  \/ ElevateWrite(t)
  \/ ApproveNow(t) \/ ApproveCheck(t) \/ ApproveInsert(t)
  \/ DecideByMode(t) \/ DecideByToken(t) \/ Mint(t)

Next ==
  \/ Tick
  \/ BeginSweep
  \/ \E t \in Callers : Begin(t)
  \/ \E t \in Threads : Continue(t)

Spec == Init /\ [][Next]_vars

\* The runtime keeps running a thread that is in a call, the sweep comes round
\* again, and a thread that waits for the lock of `pending` is not overtaken
\* for ever (the locks of parking_lot are fair).  No caller has to call.
Fairness ==
  /\ WF_vars(BeginSweep)
  /\ \A t \in Threads : SF_vars(Continue(t))

FairSpec == Spec /\ Fairness

-----------------------------------------------------------------------------
(* Properties.                                                             *)

\* Every variable has its type.
TypeOK ==
  /\ clock \in Nat
  /\ mode \in Modes
  /\ pending \in [Tokens -> Nat]
  /\ approved \in [Tokens -> Nat]
  /\ readers \subseteq Threads
  /\ issued \subseteq Tokens
  /\ pc \in [Threads -> Returned \union Running]
  /\ frame \in [Threads -> Frames]

\* An approval is an approval of a confirmation that still stands, with its
\* expiry, except while an expiry is between its two clears.  An approval that
\* slipped in after the clears would outlive the elevation that expired: it is
\* the lock approve_token holds on `pending` that keeps it out.
ApprovedIsPending ==
  \/ \E t \in Threads : pc[t] = "clear_approved"
  \/ \A k \in Tokens : approved[k] # NoEntry => approved[k] = pending[k]

\* But for a reset, nothing ends an elevation that has not expired: an expiry
\* check compares with a clock read before it takes the lock, and the user may
\* have renewed the elevation in between.
OnlyLapsedElevationEnds ==
  [][mode.tag = "Elevated" /\ mode'.tag = "Sandbox" =>
       mode.until <= clock \/ \E t \in Callers : Reset(t)]_vars

\* An elevation that has expired ends, whoever is calling: the sweep sees it.
ElevationEnds ==
  mode.tag = "Elevated" /\ mode.until <= clock
    ~> mode.tag = "Sandbox" \/ mode.until > clock

\* Every call returns: the locks are never waited for in a circle.
CallsReturn ==
  \A t \in Threads : pc[t] \in Running ~> pc[t] \in Returned
=============================================================================
