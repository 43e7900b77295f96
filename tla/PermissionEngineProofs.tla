----------------------- MODULE PermissionEngineProofs -----------------------
(***************************************************************************)
(* Theorems about the permission engine, for any set of threads and of     *)
(* tokens, any lifetimes and any bound on the clock.                       *)
(*                                                                         *)
(* ApprovedIsPending is not inductive by itself: that an insertion into    *)
(* `approved` agrees with `pending` depends on who holds the lock, on what *)
(* the holder found under it, and on tokens being fresh when minted.  IInv *)
(* says those things.                                                      *)
(*                                                                         *)
(* The second half is about what authorize answers.  The three moments at  *)
(* which it looks at the clock, the mode and the approvals are each one of *)
(* the moments `seen` records, whatever the other threads do between them: *)
(* SeenIsComplete is the invariant that says so, and the rest of DInv is   *)
(* about where a thread in authorize may be.                               *)
(***************************************************************************)
EXTENDS PermissionRefinement, PermissionDecisions, TLAPS

\* A thread that will look a token up carries one.
TokenCalls ==
  \A t \in Threads :
    \/ pc[t] \in {"approve_now", "approve_check", "approve_insert", "check_approved"}
    \/ frame[t].back = "approve_now"
    => frame[t].token \in Tokens

\* The read lock of `pending` is held by the threads about to insert.
LockHolders == readers = {t \in Threads : pc[t] = "approve_insert"}

\* What such a thread found is still there.
FoundStands ==
  \A t \in Threads : pc[t] = "approve_insert" =>
    /\ frame[t].expiry > NoEntry
    /\ pending[frame[t].token] = frame[t].expiry

\* Only minted tokens are in the maps.
OnlyIssued ==
  \A k \in Tokens : pending[k] # NoEntry \/ approved[k] # NoEntry => k \in issued

\* No thread has read a time that is still to come.
ClockRead == \A t \in Threads : frame[t].now <= clock

IInv ==
  /\ TypeOK
  /\ TokenCalls
  /\ LockHolders
  /\ FoundStands
  /\ OnlyIssued
  /\ ApprovedIsPending
  /\ ClockRead

-----------------------------------------------------------------------------
(* Types.                                                                  *)

LEMMA FrameTypes ==
  ASSUME NEW t \in Threads, TypeOK
  PROVE  /\ frame[t] \in Frames
         /\ pc[t] \in Returned \union Running
BY DEF TypeOK

LEMMA GotoType ==
  ASSUME TypeOK, NEW t \in Threads, NEW label \in Returned \union Running,
         Goto(t, label)
  PROVE  pc' \in [Threads -> Returned \union Running]
BY DEF TypeOK, Goto

LEMMA ReturnType ==
  ASSUME TypeOK, NEW t \in Threads, NEW answer \in Returned, Return(t, answer)
  PROVE  /\ pc' \in [Threads -> Returned \union Running]
         /\ frame' \in [Threads -> Frames]
<1>1. NoFrame \in Frames BY DEF NoFrame, Frames
<1> QED BY <1>1 DEF TypeOK, Return, Goto, Returned, Running

LEMMA EnterType ==
  ASSUME TypeOK, NEW t \in Threads, NEW label \in Running, NEW f \in Frames,
         Enter(t, label, f)
  PROVE  /\ pc' \in [Threads -> Returned \union Running]
         /\ frame' \in [Threads -> Frames]
BY DEF TypeOK, Enter, Goto

\* The initial state has the right types.
LEMMA InitType == Init => TypeOK
BY DEF Init, TypeOK, Modes, Sandbox, Empty, Returned, Frames, NoFrame, NoEntry

\* A step of a thread in a call keeps the types.
LEMMA ContinueType ==
  ASSUME TypeOK, TokenCalls, NEW t \in Threads, Continue(t)
  PROVE  TypeOK'
<1> USE FrameTypes DEF TypeOK, Maps
<1>1. CASE ExpireNow(t) BY <1>1 DEF ExpireNow, Goto, Frames, Returned, Running
<1>2. CASE ExpireMode(t)
  BY <1>2 DEF ExpireMode, Goto, Sandbox, Modes, Frames, Returned, Running
<1>3. CASE ClearPending(t)
  BY <1>3 DEF ClearPending, Empty, NoEntry, Goto, Returned, Running
<1>4. CASE ClearApproved(t)
  BY <1>4 DEF ClearApproved, Empty, NoEntry, Goto, Frames, Returned, Running
<1>5. CASE CurrentMode(t)
  <2>1. pc' \in [Threads -> Returned \union Running]
    BY <1>5, GotoType DEF CurrentMode, Running
  <2>2. [frame[t] EXCEPT !.now = clock, !.back = "read_mode"] \in Frames
    BY DEF Frames
  <2>3. frame' = [frame EXCEPT ![t] = [frame[t] EXCEPT !.now = clock,
                                                        !.back = "read_mode"]]
    BY <1>5 DEF CurrentMode, Frames
  <2> QED BY <1>5, <2>1, <2>2, <2>3 DEF CurrentMode
<1>6. CASE ReadMode(t) BY <1>6, ReturnType DEF ReadMode, Returned
<1>7. CASE ElevateWrite(t)
  BY <1>7, ReturnType DEF ElevateWrite, Elevated, Modes, Frames, Returned
<1>8. CASE ApproveNow(t) BY <1>8 DEF ApproveNow, Goto, Frames, Returned, Running
<1>9. CASE ApproveCheck(t)
  <2>1. CASE pending[frame[t].token] > frame[t].start
    <3>1. frame[t].token \in Tokens BY <1>9 DEF ApproveCheck, TokenCalls
    <3>2. [frame[t] EXCEPT !.expiry = pending[frame[t].token]] \in Frames
      BY <3>1 DEF Frames
    <3>3. frame' \in [Threads -> Frames] BY <1>9, <2>1, <3>2 DEF ApproveCheck
    <3>4. Goto(t, "approve_insert") BY <1>9, <2>1 DEF ApproveCheck
    <3>5. pc' \in [Threads -> Returned \union Running]
      BY <3>4, GotoType DEF Running
    <3> QED BY <1>9, <2>1, <3>3, <3>5 DEF ApproveCheck
  <2>2. CASE ~(pending[frame[t].token] > frame[t].start)
    BY <1>9, <2>2, ReturnType DEF ApproveCheck, Returned
  <2> QED BY <2>1, <2>2
<1>10. CASE ApproveInsert(t)
  BY <1>10, ReturnType DEF ApproveInsert, TokenCalls, Frames, Returned
<1>11. CASE DecideByMode(t)
  <2>1. CASE Return(t, "allow") BY <1>11, <2>1, ReturnType DEF DecideByMode, Returned
  <2>2. CASE /\ Goto(t, IF frame[t].token = NoToken THEN "mint" ELSE "check_approved")
             /\ UNCHANGED frame
    BY <1>11, <2>2, GotoType DEF DecideByMode, Running
  <2> QED BY <1>11, <2>1, <2>2 DEF DecideByMode
<1>12. CASE DecideByToken(t)
  <2>1. CASE Return(t, "allow") BY <1>12, <2>1, ReturnType DEF DecideByToken, Returned
  <2>2. CASE Goto(t, "mint") /\ UNCHANGED frame
    BY <1>12, <2>2, GotoType DEF DecideByToken, Running
  <2> QED BY <1>12, <2>1, <2>2 DEF DecideByToken
<1>13. CASE Mint(t)
  BY <1>13, TimeAssumption, ReturnType DEF Mint, Frames, Returned
<1> QED BY <1>1, <1>2, <1>3, <1>4, <1>5, <1>6, <1>7, <1>8, <1>9, <1>10,
           <1>11, <1>12, <1>13 DEF Continue

\* So does the start of a call, of a sweep or of a reset.
LEMMA BeginType ==
  ASSUME TypeOK, NEW t \in Callers, Begin(t)
  PROVE  TypeOK'
<1> USE DEF TypeOK, Maps
<1>0. t \in Threads BY DEF Threads
<1>1. CASE BeginMode(t)
  <2>1. [NoFrame EXCEPT !.op = "mode"] \in Frames BY DEF NoFrame, Frames
  <2> QED BY <1>0, <1>1, <2>1, EnterType DEF BeginMode, Running
<1>2. ASSUME NEW ttl \in TTLs, BeginElevate(t, ttl)
      PROVE  TypeOK'
  <2>1. clock + Longest(ttl, MinTTL) \in Nat BY TimeAssumption DEF Longest
  <2>2. [NoFrame EXCEPT !.op = "elevate",
           !.expiry = clock + Longest(ttl, MinTTL)] \in Frames
    BY <2>1 DEF NoFrame, Frames
  <2> QED BY <1>0, <1>2, <2>2, EnterType DEF BeginElevate, Running
<1>3. ASSUME NEW k \in issued, BeginApprove(t, k)
      PROVE  TypeOK'
  <2>1. [NoFrame EXCEPT !.op = "approve", !.token = k,
           !.back = "approve_now"] \in Frames
    BY DEF NoFrame, Frames
  <2> QED BY <1>0, <1>3, <2>1, EnterType DEF BeginApprove, Running
<1>4. ASSUME NEW k \in issued \union {NoToken}, NEW d \in BOOLEAN,
             BeginAuthorize(t, k, d)
      PROVE  TypeOK'
  <2>1. [NoFrame EXCEPT !.op = "authorize", !.token = k, !.start = clock,
           !.dangerous = d, !.back = "current_mode"] \in Frames
    BY DEF NoFrame, Frames
  <2> QED BY <1>0, <1>4, <2>1, EnterType DEF BeginAuthorize, Running
<1>5. CASE Reset(t)
  <2>1. NoFrame \in Frames BY DEF NoFrame, Frames
  <2> QED BY <1>0, <1>5, <2>1, EnterType DEF Reset, Running, Sandbox, Modes
<1> QED BY <1>1, <1>2, <1>3, <1>4, <1>5 DEF Begin

LEMMA StepType ==
  ASSUME TypeOK, TokenCalls, [Next]_vars
  PROVE  TypeOK'
<1>1. CASE Tick BY <1>1 DEF Tick, TypeOK, Maps
<1>2. CASE BeginSweep
  <2>1. NoFrame \in Frames BY DEF NoFrame, Frames
  <2> QED BY <1>2, <2>1, EnterType DEF BeginSweep, TypeOK, Maps, Running, Threads
<1>3. ASSUME NEW t \in Callers, Begin(t)
      PROVE  TypeOK'
  BY <1>3, BeginType
<1>4. ASSUME NEW t \in Threads, Continue(t)
      PROVE  TypeOK'
  BY <1>4, ContinueType
<1>5. CASE UNCHANGED vars BY <1>5 DEF vars, TypeOK
<1> QED BY <1>1, <1>2, <1>3, <1>4, <1>5 DEF Next

-----------------------------------------------------------------------------
(* What a step does to the thread that takes it, and to the others.        *)

\* The other threads stay where they are, with the frames they have.
OthersStay(t) ==
  \A u \in Threads \ {t} : pc'[u] = pc[u] /\ frame'[u] = frame[u]

LEMMA ContinueOthers ==
  ASSUME TypeOK, NEW t \in Threads, Continue(t)
  PROVE  OthersStay(t)
BY DEF TypeOK, OthersStay, Continue, Goto, Return, ExpireNow, ExpireMode,
       ClearPending, ClearApproved, CurrentMode, ReadMode, ElevateWrite,
       ApproveNow, ApproveCheck, ApproveInsert, DecideByMode, DecideByToken, Mint

\* A call that starts touches no map and no lock.
Start(t) ==
  /\ pc[t] \in Returned
  /\ pc'[t] \in Running \ {"approve_insert", "clear_approved", "approve_now",
                          "approve_check", "check_approved"}
  /\ frame'[t].now = 0
  /\ frame'[t].back = "approve_now" => frame'[t].token \in Tokens
  /\ UNCHANGED <<clock, pending, approved, readers, issued>>

LEMMA BeginStart ==
  ASSUME TypeOK, NEW t \in Callers, Begin(t)
  PROVE  Start(t) /\ OthersStay(t)
<1>0. t \in Threads BY DEF Threads
<1> USE <1>0 DEF TypeOK, Start, OthersStay, Enter, Goto, Maps, Running, NoFrame
<1>1. CASE BeginMode(t) BY <1>1 DEF BeginMode
<1>2. CASE \E ttl \in TTLs : BeginElevate(t, ttl) BY <1>2 DEF BeginElevate
<1>3. CASE \E k \in issued : BeginApprove(t, k) BY <1>3 DEF BeginApprove
<1>4. CASE \E k \in issued \union {NoToken}, d \in BOOLEAN : BeginAuthorize(t, k, d)
  BY <1>4 DEF BeginAuthorize
<1>5. CASE Reset(t) BY <1>5 DEF Reset
<1> QED BY <1>1, <1>2, <1>3, <1>4, <1>5 DEF Begin

LEMMA SweepStart ==
  ASSUME TypeOK, BeginSweep
  PROVE  Start(Sweeper) /\ OthersStay(Sweeper)
BY DEF TypeOK, BeginSweep, Start, OthersStay, Enter, Goto, Maps, Running,
       NoFrame, Threads

-----------------------------------------------------------------------------
(* The inductive invariant.                                                *)

\* It holds at the start.
LEMMA InitIInv == Init => IInv
<1> SUFFICES ASSUME Init PROVE IInv
  OBVIOUS
<1>1. TypeOK BY InitType
<1>2. TokenCalls /\ LockHolders /\ FoundStands /\ ClockRead
  BY DEF Init, TokenCalls, LockHolders, FoundStands, ClockRead, NoFrame
<1>3. OnlyIssued /\ ApprovedIsPending
  BY DEF Init, OnlyIssued, ApprovedIsPending, Empty
<1> QED BY <1>1, <1>2, <1>3 DEF IInv

\* Starting a call disturbs none of it.
LEMMA StartIInv ==
  ASSUME IInv, TypeOK', NEW t \in Threads, Start(t), OthersStay(t)
  PROVE  IInv'
<1> USE DEF IInv, Start, OthersStay
<1>0. pc[t] \notin Running
  BY DEF Returned, Running
<1>1. TokenCalls' BY DEF TokenCalls
<1>2. LockHolders' BY <1>0 DEF LockHolders, Running
<1>3. FoundStands' BY DEF FoundStands
<1>4. OnlyIssued' BY DEF OnlyIssued
<1>5. ApprovedIsPending' BY <1>0 DEF ApprovedIsPending, Running
<1>6. ClockRead' BY DEF ClockRead, TypeOK
<1> QED BY <1>1, <1>2, <1>3, <1>4, <1>5, <1>6

\* Nor does time passing.
LEMMA TickIInv ==
  ASSUME IInv, TypeOK', Tick
  PROVE  IInv'
<1> USE DEF IInv, Tick, Maps
<1>1. TokenCalls' /\ LockHolders' /\ FoundStands'
  BY DEF TokenCalls, LockHolders, FoundStands
<1>2. OnlyIssued' /\ ApprovedIsPending'
  BY DEF OnlyIssued, ApprovedIsPending
<1>3. ClockRead'
  <2>1. \A t \in Threads : frame[t].now \in Nat BY DEF TypeOK, Frames
  <2> QED BY <2>1 DEF ClockRead, TypeOK
<1> QED BY <1>1, <1>2, <1>3

\* The steps of a thread in a call, one conjunct at a time.
LEMMA ContinueTokenCalls ==
  ASSUME IInv, NEW t \in Threads, Continue(t), OthersStay(t)
  PROVE  TokenCalls'
<1> SUFFICES (\/ pc'[t] \in {"approve_now", "approve_check", "approve_insert",
                             "check_approved"}
              \/ frame'[t].back = "approve_now"
              => frame'[t].token \in Tokens)
  BY DEF IInv, TokenCalls, OthersStay
<1> USE FrameTypes DEF IInv, TokenCalls, TypeOK, Frames, Goto, Return, NoFrame, Running, Returned
<1>1. CASE ExpireNow(t) BY <1>1 DEF ExpireNow
<1>2. CASE ExpireMode(t) BY <1>2 DEF ExpireMode
<1>3. CASE ClearPending(t) BY <1>3 DEF ClearPending
<1>4. CASE ClearApproved(t) BY <1>4 DEF ClearApproved
<1>5. CASE CurrentMode(t) BY <1>5 DEF CurrentMode
<1>6. CASE ReadMode(t) BY <1>6 DEF ReadMode
<1>7. CASE ElevateWrite(t) BY <1>7 DEF ElevateWrite
<1>8. CASE ApproveNow(t) BY <1>8 DEF ApproveNow
<1>9. CASE ApproveCheck(t) BY <1>9 DEF ApproveCheck
<1>10. CASE ApproveInsert(t) BY <1>10 DEF ApproveInsert
<1>11. CASE DecideByMode(t) BY <1>11 DEF DecideByMode
<1>12. CASE DecideByToken(t) BY <1>12 DEF DecideByToken
<1>13. CASE Mint(t) BY <1>13 DEF Mint
<1> QED BY <1>1, <1>2, <1>3, <1>4, <1>5, <1>6, <1>7, <1>8, <1>9, <1>10,
           <1>11, <1>12, <1>13 DEF Continue

LEMMA ContinueLockHolders ==
  ASSUME IInv, NEW t \in Threads, Continue(t), OthersStay(t)
  PROVE  LockHolders'
<1> USE DEF IInv, LockHolders, OthersStay
<1>1. CASE ApproveCheck(t)
  BY <1>1 DEF ApproveCheck, TypeOK, Goto, Return
<1>2. CASE ApproveInsert(t)
  BY <1>2 DEF ApproveInsert, TypeOK, Goto, Return
<1>3. CASE ExpireMode(t) \/ ClearApproved(t)
  BY <1>3 DEF ExpireMode, ClearApproved, TypeOK, Goto, Frames
<1>4. CASE /\ pc[t] # "approve_insert"
           /\ pc'[t] # "approve_insert"
           /\ readers' = readers
  BY <1>4
<1> QED BY <1>1, <1>2, <1>3, <1>4
  DEF Continue, TypeOK, Goto, Return, Maps, ExpireNow, ClearPending, CurrentMode,
      ReadMode, ElevateWrite, ApproveNow, DecideByMode, DecideByToken, Mint

\* No one clears or adds a confirmation while another has found one.
LEMMA ContinueFoundStands ==
  ASSUME IInv, NEW t \in Threads, Continue(t), OthersStay(t)
  PROVE  FoundStands'
<1> USE DEF IInv, FoundStands, OthersStay
<1>1. CASE ApproveCheck(t)
  <2>1. frame[t].token \in Tokens BY <1>1 DEF ApproveCheck, TokenCalls
  <2>2. frame[t] \in Frames BY FrameTypes
  <2>3. pending' = pending BY <1>1 DEF ApproveCheck, Maps
  <2>4. pc'[t] = "approve_insert" =>
          /\ frame'[t].expiry = pending[frame[t].token]
          /\ frame'[t].token = frame[t].token
          /\ pending[frame[t].token] > frame[t].start
    BY <1>1, <2>2 DEF ApproveCheck, TypeOK, Goto, Return, Frames
  <2>5. pending[frame[t].token] \in Nat /\ frame[t].start \in Nat
    BY <2>1, <2>2 DEF TypeOK, Frames
  <2>6. pc'[t] = "approve_insert" => frame'[t].expiry > NoEntry
    BY <2>4, <2>5 DEF NoEntry
  <2> QED BY <2>3, <2>4, <2>6
<1>2. CASE ClearPending(t) \/ Mint(t)
  <2>1. readers = {} BY <1>2 DEF ClearPending, Mint
  <2>2. \A u \in Threads : pc[u] # "approve_insert" BY <2>1 DEF LockHolders
  <2>3. pc'[t] # "approve_insert"
    BY <1>2 DEF ClearPending, Mint, Return, Goto, TypeOK
  <2> QED BY <2>2, <2>3
<1>3. CASE ExpireMode(t) \/ ClearApproved(t)
  BY <1>3 DEF ExpireMode, ClearApproved, TypeOK, Goto, Frames
<1>4. CASE pc'[t] # "approve_insert" /\ pending' = pending
  BY <1>4
<1> QED BY <1>1, <1>2, <1>3, <1>4
  DEF Continue, TypeOK, Goto, Return, Maps, ExpireNow, CurrentMode, ReadMode,
      ElevateWrite, ApproveNow, ApproveInsert, DecideByMode, DecideByToken

LEMMA ContinueOnlyIssued ==
  ASSUME IInv, NEW t \in Threads, Continue(t)
  PROVE  OnlyIssued'
<1> USE DEF IInv, OnlyIssued
<1>1. CASE ClearPending(t) BY <1>1 DEF ClearPending, Empty
<1>2. CASE ClearApproved(t) BY <1>2 DEF ClearApproved, Empty
<1>3. CASE ApproveInsert(t)
  <2>1. frame[t].token \in Tokens /\ pending[frame[t].token] # NoEntry
    BY <1>3, FrameTypes DEF ApproveInsert, TokenCalls, FoundStands, Frames
  <2> QED BY <1>3, <2>1 DEF ApproveInsert, TypeOK
<1>4. CASE Mint(t) BY <1>4 DEF Mint, TypeOK
<1>5. CASE UNCHANGED <<pending, approved, issued>> BY <1>5
<1> QED BY <1>1, <1>2, <1>3, <1>4, <1>5
  DEF Continue, Maps, ExpireNow, ExpireMode, CurrentMode, ReadMode, ElevateWrite,
      ApproveNow, ApproveCheck, DecideByMode, DecideByToken

\* The insertion agrees with `pending`, and a clear of `pending` is followed by
\* one of `approved`.
LEMMA ContinueApprovedIsPending ==
  ASSUME IInv, NEW t \in Threads, Continue(t), OthersStay(t)
  PROVE  ApprovedIsPending'
<1> USE DEF IInv, ApprovedIsPending, OthersStay
<1>1. CASE ClearPending(t) BY <1>1 DEF ClearPending, Goto, TypeOK
<1>2. CASE ClearApproved(t) BY <1>2 DEF ClearApproved, Empty
<1>3. CASE ApproveInsert(t)
  <2>1. pending[frame[t].token] = frame[t].expiry BY <1>3 DEF ApproveInsert, FoundStands
  <2> QED BY <1>3, <2>1 DEF ApproveInsert, TypeOK
<1>4. CASE Mint(t)
  <2>1. \A k \in Tokens \ issued : approved[k] = NoEntry BY DEF OnlyIssued
  <2> QED BY <1>4, <2>1 DEF Mint, TypeOK
<1>5. CASE UNCHANGED <<pending, approved>> /\ pc[t] # "clear_approved"
  BY <1>5
<1> QED BY <1>1, <1>2, <1>3, <1>4, <1>5
  DEF Continue, Maps, ExpireNow, ExpireMode, CurrentMode, ReadMode, ElevateWrite,
      ApproveNow, ApproveCheck, DecideByMode, DecideByToken

LEMMA ContinueClockRead ==
  ASSUME IInv, NEW t \in Threads, Continue(t), OthersStay(t)
  PROVE  ClockRead'
<1>1. clock' = clock
  BY DEF Continue, ExpireNow, ExpireMode, ClearPending, ClearApproved, CurrentMode,
         ReadMode, ElevateWrite, ApproveNow, ApproveCheck, ApproveInsert,
         DecideByMode, DecideByToken, Mint
<1>2. frame'[t].now \in {frame[t].now, clock, 0}
  BY FrameTypes DEF IInv, TypeOK, Frames, NoFrame, Return, Continue, ExpireNow,
     ExpireMode, ClearPending, ClearApproved, CurrentMode, ReadMode, ElevateWrite,
     ApproveNow, ApproveCheck, ApproveInsert, DecideByMode, DecideByToken, Mint
<1> QED BY <1>1, <1>2 DEF IInv, ClockRead, OthersStay, TypeOK

\* Every step preserves the invariant.
LEMMA NextIInv ==
  ASSUME IInv, [Next]_vars
  PROVE  IInv'
<1>1. TypeOK' BY StepType DEF IInv
<1>2. CASE Tick BY <1>1, <1>2, TickIInv
<1>3. CASE BeginSweep
  BY <1>1, <1>3, SweepStart, StartIInv DEF IInv, Threads
<1>4. ASSUME NEW t \in Callers, Begin(t)
      PROVE  IInv'
  BY <1>1, <1>4, BeginStart, StartIInv DEF IInv, Threads
<1>5. ASSUME NEW t \in Threads, Continue(t)
      PROVE  IInv'
  <2>1. OthersStay(t) BY <1>5, ContinueOthers DEF IInv
  <2> QED
    BY <1>1, <1>5, <2>1, ContinueTokenCalls, ContinueLockHolders,
       ContinueFoundStands, ContinueOnlyIssued, ContinueApprovedIsPending,
       ContinueClockRead DEF IInv
<1>6. CASE UNCHANGED vars
  BY <1>6 DEF vars, IInv, TypeOK, TokenCalls, LockHolders, FoundStands, OnlyIssued,
              ApprovedIsPending, ClockRead
<1> QED BY <1>2, <1>3, <1>4, <1>5, <1>6 DEF Next

-----------------------------------------------------------------------------
(* Theorems.                                                               *)

\* The engine keeps the invariant, whatever its clients call.
THEOREM Invariance == Spec => []IInv
<1>1. Init => IInv BY InitIInv
<1>2. IInv /\ [Next]_vars => IInv' BY NextIInv
<1> QED BY <1>1, <1>2, PTL DEF Spec

\* Every variable always has its type.
THEOREM TypeCorrect == Spec => []TypeOK
<1>1. IInv => TypeOK BY DEF IInv
<1> QED BY <1>1, Invariance, PTL

\* No approval outlives its confirmation: what approve_token inserts is never
\* left behind by an expiry, however the two interleave.
THEOREM ApprovalsStand == Spec => []ApprovedIsPending
<1>1. IInv => ApprovedIsPending BY DEF IInv
<1> QED BY <1>1, Invariance, PTL

\* An elevation that has not expired is ended by nothing but a reset.
THEOREM ElevationKept == Spec => OnlyLapsedElevationEnds
<1> DEFINE Kept == mode.tag = "Elevated" /\ mode'.tag = "Sandbox" =>
                     mode.until <= clock \/ \E t \in Callers : Reset(t)
<1>1. ASSUME IInv, [Next]_vars
      PROVE  [Kept]_vars
  <2>1. CASE \E t \in Threads : ExpireMode(t)
    <3>1. PICK t \in Threads : ExpireMode(t) BY <2>1
    <3>2. frame[t].now \in Nat /\ frame[t].now <= clock /\ clock \in Nat
      BY <1>1, FrameTypes DEF IInv, ClockRead, TypeOK, Frames
    <3> QED BY <1>1, <3>1, <3>2 DEF ExpireMode, IInv, TypeOK, Modes
  <2>2. CASE \E t \in Threads : ElevateWrite(t)
    BY <2>2 DEF ElevateWrite, Elevated
  <2>3. CASE \E t \in Callers : Reset(t)
    BY <2>3
  <2>4. CASE UNCHANGED mode
    BY <2>4
  <2> QED
    BY <1>1, <2>1, <2>2, <2>3, <2>4
    DEF Next, Begin, Continue, Maps, vars, Tick, BeginSweep, BeginMode, BeginElevate,
        BeginApprove, BeginAuthorize, ExpireNow, ClearPending, ClearApproved,
        CurrentMode, ReadMode, ApproveNow, ApproveCheck, ApproveInsert, DecideByMode,
        DecideByToken, Mint
<1> QED BY <1>1, Invariance, PTL DEF Spec, OnlyLapsedElevationEnds

-----------------------------------------------------------------------------
(* The engine implements PermissionService.                                *)

owed == [t \in Threads |-> Owes(t)]

\* The abstract variables that a step leaves as they are.
Same == UNCHANGED <<clock, mode, pending, approved, issued, owed>>

\* A thread that goes from one place of no debt to another owes nothing more.
LEMMA NoDebt ==
  ASSUME NEW t \in Threads, OthersStay(t),
         pc[t] \notin {"clear_pending", "clear_approved"},
         pc'[t] \notin {"clear_pending", "clear_approved"}
  PROVE  owed' = owed
<1>1. \A u \in Threads : Owes(u)' = Owes(u) BY DEF Owes, OthersStay
<1> QED BY <1>1 DEF owed

\* A change of one thread's debt.
LEMMA Debt ==
  ASSUME NEW t \in Threads, OthersStay(t)
  PROVE  owed' = [owed EXCEPT ![t] = Owes(t)']
<1>1. \A u \in Threads \ {t} : Owes(u)' = Owes(u) BY DEF Owes, OthersStay
<1> QED BY <1>1 DEF owed

\* Starting a call is invisible, but for a reset.
LEMMA StartStutters ==
  ASSUME IInv, NEW t \in Threads, Start(t), OthersStay(t),
         pc'[t] # "clear_pending", UNCHANGED mode
  PROVE  Same
<1>1. pc[t] \notin {"clear_pending", "clear_approved"} BY DEF Start, Returned
<1>2. pc'[t] \notin {"clear_pending", "clear_approved"} BY DEF Start
<1> QED BY <1>1, <1>2, NoDebt DEF Same, Start

\* A step of a thread in a call is a step of the service or invisible.
LEMMA ContinueImplements ==
  ASSUME IInv, NEW t \in Threads, Continue(t), OthersStay(t)
  PROVE  Service!Next \/ Same
<1> USE DEF IInv, TypeOK
<1> USE FrameTypes
<1>1. CASE ExpireMode(t)
  <2>1. CASE mode.tag = "Elevated" /\ mode.until <= frame[t].now
    <3>1. mode.until <= clock
      BY <2>1 DEF ClockRead, Frames, Modes
    <3>2. Owes(t) = "nothing" /\ Owes(t)' = "both"
      BY <1>1, <2>1 DEF ExpireMode, Owes, Goto
    <3>3. owed' = [owed EXCEPT ![t] = "both"] /\ owed[t] = "nothing"
      BY <3>2, Debt DEF owed
    <3>4. Service!Expire(t)
      BY <1>1, <2>1, <3>1, <3>3 DEF ExpireMode, Service!Expire, Sandbox, owed
    <3> QED BY <3>4 DEF Service!Next
  <2>2. CASE ~(mode.tag = "Elevated" /\ mode.until <= frame[t].now)
    <3>1. pc'[t] = frame[t].back BY <1>1, <2>2 DEF ExpireMode, Goto
    <3>2. owed' = owed BY <1>1, <3>1, NoDebt DEF ExpireMode, Frames
    <3> QED BY <1>1, <2>2, <3>2 DEF ExpireMode, Same
  <2> QED BY <2>1, <2>2
<1>2. CASE ClearPending(t)
  <2>1. Owes(t) = "both" /\ Owes(t)' = "approved"
    BY <1>2 DEF ClearPending, Owes, Goto
  <2>2. owed' = [owed EXCEPT ![t] = "approved"] /\ owed[t] = "both"
    BY <2>1, Debt DEF owed
  <2>3. Service!ForgetPending(t)
    BY <1>2, <2>2 DEF ClearPending, Service!ForgetPending, Empty, NoEntry, owed
  <2> QED BY <2>3 DEF Service!Next
<1>3. CASE ClearApproved(t)
  <2>1. pc'[t] = frame[t].back BY <1>3 DEF ClearApproved, Goto
  <2>2. Owes(t) = "approved" /\ Owes(t)' = "nothing"
    BY <1>3, <2>1 DEF ClearApproved, Owes, Frames
  <2>3. owed' = [owed EXCEPT ![t] = "nothing"] /\ owed[t] = "approved"
    BY <2>2, Debt DEF owed
  <2>4. Service!ForgetApproved(t)
    BY <1>3, <2>3 DEF ClearApproved, Service!ForgetApproved, Empty, NoEntry, owed
  <2> QED BY <2>4 DEF Service!Next
<1>4. CASE ElevateWrite(t)
  <2>1. owed' = owed BY <1>4, NoDebt DEF ElevateWrite, Return, Goto
  <2>2. Service!Elevate
    BY <1>4, <2>1 DEF ElevateWrite, Elevated, Service!Elevate, owed
  <2> QED BY <2>2 DEF Service!Next
<1>5. CASE ApproveInsert(t)
  <2>1. owed' = owed BY <1>5, NoDebt DEF ApproveInsert, Return, Goto
  <2>2. frame[t].token \in Tokens BY <1>5 DEF ApproveInsert, TokenCalls
  <2>3. pending[frame[t].token] = frame[t].expiry /\ frame[t].expiry > 0
    BY <1>5 DEF ApproveInsert, FoundStands, NoEntry
  <2>4. Service!Grant(frame[t].token)
    BY <1>5, <2>1, <2>3 DEF ApproveInsert, Service!Grant, owed
  <2> QED BY <2>2, <2>4 DEF Service!Next
<1>6. CASE Mint(t)
  <2>1. owed' = owed BY <1>6, NoDebt DEF Mint, Return, Goto
  <2>2. PICK k \in Tokens \ issued :
          /\ pending' = [pending EXCEPT ![k] = frame[t].start + PendingLife]
          /\ issued' = issued \union {k}
    BY <1>6 DEF Mint
  <2>3. pending'[k] = frame[t].start + PendingLife /\ pending'[k] > 0
    BY <2>2, TimeAssumption DEF Frames
  <2>4. Service!Ask(k)
    BY <1>6, <2>1, <2>2, <2>3 DEF Mint, Service!Ask, owed
  <2> QED BY <2>4 DEF Service!Next
<1>7. CASE \/ ExpireNow(t) \/ CurrentMode(t) \/ ReadMode(t) \/ ApproveNow(t)
           \/ ApproveCheck(t) \/ DecideByMode(t) \/ DecideByToken(t)
  <2>1. /\ pc[t] \notin {"clear_pending", "clear_approved"}
        /\ pc'[t] \notin {"clear_pending", "clear_approved"}
    BY <1>7 DEF ExpireNow, CurrentMode, ReadMode, ApproveNow, ApproveCheck,
                DecideByMode, DecideByToken, Goto, Return
  <2>2. UNCHANGED <<clock, mode, pending, approved, issued>>
    BY <1>7 DEF ExpireNow, CurrentMode, ReadMode, ApproveNow, ApproveCheck,
                DecideByMode, DecideByToken, Maps
  <2> QED BY <2>1, <2>2, NoDebt DEF Same
<1> QED BY <1>1, <1>2, <1>3, <1>4, <1>5, <1>6, <1>7 DEF Continue

\* A reset owes both clears from its first step on.
LEMMA ResetImplements ==
  ASSUME IInv, NEW t \in Threads, Reset(t), OthersStay(t)
  PROVE  Service!Next
<1>1. Owes(t) = "nothing" /\ Owes(t)' = "both"
  BY DEF Reset, Enter, Goto, Returned, Owes, IInv, TypeOK
<1>2. owed' = [owed EXCEPT ![t] = "both"] /\ owed[t] = "nothing"
  BY <1>1, Debt DEF owed
<1>3. Service!Reset(t) BY <1>2 DEF Reset, Service!Reset, Sandbox, owed
<1> QED BY <1>3 DEF Service!Next

\* Every step of the engine is a step of the service or invisible.
LEMMA NextImplements ==
  ASSUME IInv, [Next]_vars
  PROVE  Service!Next \/ Same
<1>1. CASE Tick
  <2>1. owed' = owed BY <1>1 DEF Tick, owed, Owes
  <2>2. Service!Tick BY <1>1, <2>1 DEF Tick, Maps, Service!Tick, owed
  <2> QED BY <2>2 DEF Service!Next
<1>2. CASE BeginSweep
  <2>1. Start(Sweeper) /\ OthersStay(Sweeper) BY <1>2, SweepStart DEF IInv
  <2>2. pc'[Sweeper] # "clear_pending" /\ UNCHANGED mode
    BY <1>2 DEF BeginSweep, Enter, Goto, Maps, IInv, TypeOK, Threads
  <2> QED BY <2>1, <2>2, StartStutters DEF Threads
<1>3. ASSUME NEW t \in Callers, Begin(t)
      PROVE  Service!Next \/ Same
  <2>1. Start(t) /\ OthersStay(t) /\ t \in Threads
    BY <1>3, BeginStart DEF IInv, Threads
  <2>2. CASE Reset(t) BY <2>1, <2>2, ResetImplements
  <2>3. CASE ~Reset(t)
    <3>1. pc'[t] # "clear_pending" /\ UNCHANGED mode
      BY <1>3, <2>3 DEF Begin, BeginMode, BeginElevate, BeginApprove, BeginAuthorize,
                        Enter, Goto, Maps, IInv, TypeOK, Threads
    <3> QED BY <2>1, <3>1, StartStutters
  <2> QED BY <2>2, <2>3
<1>4. ASSUME NEW t \in Threads, Continue(t)
      PROVE  Service!Next \/ Same
  <2>1. OthersStay(t) BY <1>4, ContinueOthers DEF IInv
  <2> QED BY <1>4, <2>1, ContinueImplements
<1>5. CASE UNCHANGED vars BY <1>5 DEF vars, Same, owed, Owes
<1> QED BY <1>1, <1>2, <1>3, <1>4, <1>5 DEF Next

\* The engine implements the service: an approval is granted only while its
\* confirmation stands, and confirmations and approvals are forgotten only by a
\* thread that ended an elevation that had expired, or by a reset.
THEOREM Implements == Spec => ImplementsService
<1>1. Init => Service!Init
  <2> SUFFICES ASSUME Init PROVE Service!Init
    OBVIOUS
  <2>1. \A t \in Threads : Owes(t) = "nothing" BY DEF Init, Owes
  <2> QED BY <2>1 DEF Init, Service!Init, Sandbox, Empty, NoEntry
<1>2. ASSUME IInv, [Next]_vars
      PROVE  [Service!Next]_Service!vars
  BY <1>2, NextImplements DEF Same, Service!vars, owed
<1> QED BY <1>1, <1>2, Invariance, PTL DEF Spec, ImplementsService, Service!Spec

-----------------------------------------------------------------------------
(* What authorize answers.                                                 *)

Seen == [grounds : BOOLEAN, unelevated : BOOLEAN, unapproved : BOOLEAN]

\* A thread that has returned is in no operation.
ReturnedIsOut == \A t \in Callers : pc[t] \in Returned => ~InAuthorize(t)

\* Only authorize takes a decision, and only a dangerous action goes on to the
\* approvals.
DecidesInAuthorize ==
  \A t \in Callers : pc[t] \in {"check_approved", "mint"} =>
    InAuthorize(t) /\ frame[t].dangerous

\* An expiry check made in authorize goes back to authorize.
StaysInAuthorize ==
  \A t \in Callers : InAuthorize(t) => frame[t].back \in {"current_mode", "read_mode"}

\* The time authorize compares with is not still to come.
StartRead == \A t \in Callers : InAuthorize(t) => frame[t].start <= clock

\* What is the case now is recorded for every call of authorize under way.
SeenIsComplete ==
  \A t \in Callers : InAuthorize(t) =>
    /\ Grounds(t)    => seen[t].grounds
    /\ Unelevated    => seen[t].unelevated
    /\ Unapproved(t) => seen[t].unapproved

\* A thread that goes on found no elevation, and, before it asks, no approval.
GoesOnUnelevated ==
  \A t \in Callers :
    /\ pc[t] \in {"check_approved", "mint"} => seen[t].unelevated
    /\ pc[t] = "mint" => seen[t].unapproved

DInv ==
  /\ IInv
  /\ seen \in [Callers -> Seen]
  /\ ReturnedIsOut
  /\ DecidesInAuthorize
  /\ StaysInAuthorize
  /\ StartRead
  /\ SeenIsComplete
  /\ GoesOnUnelevated
  /\ AllowedOnGrounds
  /\ AskedOnlyIfLapsed

-----------------------------------------------------------------------------
(* A step, seen from one caller.                                           *)

Stays(t) == pc'[t] = pc[t] /\ frame'[t] = frame[t]

\* A step leaves a caller where it is, or is a step of that caller.
LEMMA CallerStep ==
  ASSUME IInv, [Next]_vars, NEW t \in Callers
  PROVE  Stays(t) \/ Begin(t) \/ Continue(t)
<1>0. t \in Threads /\ t # Sweeper BY ThreadAssumption DEF Threads
<1>1. CASE Tick BY <1>1 DEF Tick, Stays
<1>2. CASE BeginSweep
  BY <1>0, <1>2, SweepStart DEF OthersStay, Stays, IInv
<1>3. ASSUME NEW u \in Callers, Begin(u)
      PROVE  Stays(t) \/ Begin(t)
  BY <1>0, <1>3, BeginStart DEF OthersStay, Stays, IInv
<1>4. ASSUME NEW u \in Threads, Continue(u)
      PROVE  Stays(t) \/ Continue(t)
  BY <1>0, <1>4, ContinueOthers DEF OthersStay, Stays, IInv
<1>5. CASE UNCHANGED vars BY <1>5 DEF vars, Stays
<1> QED BY <1>1, <1>2, <1>3, <1>4, <1>5 DEF Next

\* The clock does not go back, and only time passing moves it.
LEMMA ClockGoesOn ==
  ASSUME IInv, [Next]_vars
  PROVE  /\ clock \in Nat /\ clock' \in Nat /\ clock' >= clock
         /\ \A t \in Callers : Begin(t) \/ Continue(t) => clock' = clock
<1>1. clock \in Nat BY DEF IInv, TypeOK
<1>2. \A t \in Callers : Begin(t) => clock' = clock
  BY BeginStart DEF Start, IInv
<1>3. \A t \in Threads : Continue(t) => clock' = clock
  BY DEF Continue, ExpireNow, ExpireMode, ClearPending, ClearApproved, CurrentMode,
         ReadMode, ElevateWrite, ApproveNow, ApproveCheck, ApproveInsert,
         DecideByMode, DecideByToken, Mint
<1>4. CASE Tick BY <1>1, <1>2, <1>3, <1>4 DEF Tick, Threads
<1>5. CASE ~Tick
  BY <1>1, <1>2, <1>3, <1>5 DEF Next, BeginSweep, vars, Threads
<1> QED BY <1>4, <1>5

-----------------------------------------------------------------------------
(* Where a caller is, and with what frame.                                 *)

\* What the invariant says of one caller, but for what it has seen.
Local(t) ==
  /\ pc[t] \in Returned => ~InAuthorize(t)
  /\ pc[t] \in {"check_approved", "mint"} => InAuthorize(t) /\ frame[t].dangerous
  /\ InAuthorize(t) => frame[t].back \in {"current_mode", "read_mode"}
  /\ InAuthorize(t) => frame[t].start <= clock

LEMMA LocalIsAll ==
  (\A t \in Callers : Local(t)) <=>
    ReturnedIsOut /\ DecidesInAuthorize /\ StaysInAuthorize /\ StartRead
BY DEF Local, ReturnedIsOut, DecidesInAuthorize, StaysInAuthorize, StartRead

\* A call that starts is not yet at a decision, and has just read the clock.
LEMMA BeginLocal ==
  ASSUME IInv, NEW t \in Callers, Begin(t), clock' = clock
  PROVE  Local(t)'
<1>0. t \in Threads BY DEF Threads
<1> USE <1>0 DEF IInv, TypeOK, Local, InAuthorize, Enter, Goto, NoFrame, Returned
<1>1. CASE BeginMode(t) BY <1>1 DEF BeginMode
<1>2. CASE \E ttl \in TTLs : BeginElevate(t, ttl) BY <1>2 DEF BeginElevate
<1>3. CASE \E k \in issued : BeginApprove(t, k) BY <1>3 DEF BeginApprove
<1>4. CASE \E k \in issued \union {NoToken}, d \in BOOLEAN : BeginAuthorize(t, k, d)
  BY <1>4 DEF BeginAuthorize
<1>5. CASE Reset(t) BY <1>5 DEF Reset
<1> QED BY <1>1, <1>2, <1>3, <1>4, <1>5 DEF Begin

LEMMA ContinueLocal ==
  ASSUME IInv, NEW t \in Callers, Local(t), Continue(t), clock' = clock
  PROVE  Local(t)'
<1>0. t \in Threads BY DEF Threads
<1> USE <1>0, FrameTypes
    DEF IInv, TypeOK, Local, InAuthorize, Goto, Return, NoFrame, Returned, Running,
        Frames
<1>1. CASE ExpireNow(t) BY <1>1 DEF ExpireNow
<1>2. CASE ExpireMode(t) BY <1>2 DEF ExpireMode
<1>3. CASE ClearPending(t) BY <1>3 DEF ClearPending
<1>4. CASE ClearApproved(t) BY <1>4 DEF ClearApproved
<1>5. CASE CurrentMode(t) BY <1>5 DEF CurrentMode
<1>6. CASE ReadMode(t) BY <1>6 DEF ReadMode
<1>7. CASE ElevateWrite(t) BY <1>7 DEF ElevateWrite
<1>8. CASE ApproveNow(t) BY <1>8 DEF ApproveNow
<1>9. CASE ApproveCheck(t) BY <1>9 DEF ApproveCheck
<1>10. CASE ApproveInsert(t) BY <1>10 DEF ApproveInsert
<1>11. CASE DecideByMode(t) BY <1>11 DEF DecideByMode
<1>12. CASE DecideByToken(t) BY <1>12 DEF DecideByToken
<1>13. CASE Mint(t) BY <1>13 DEF Mint
<1> QED BY <1>1, <1>2, <1>3, <1>4, <1>5, <1>6, <1>7, <1>8, <1>9, <1>10,
           <1>11, <1>12, <1>13 DEF Continue

LEMMA StepLocal ==
  ASSUME IInv, IInv', [Next]_vars, NEW t \in Callers, Local(t)
  PROVE  Local(t)'
<1>1. Stays(t) \/ Begin(t) \/ Continue(t) BY CallerStep
<1>2. CASE Stays(t)
  <2>1. frame[t].start \in Nat BY FrameTypes DEF IInv, Threads, Frames
  <2> QED BY <1>2, <2>1, ClockGoesOn DEF Stays, Local, InAuthorize
<1>3. CASE Begin(t) BY <1>3, ClockGoesOn, BeginLocal
<1>4. CASE Continue(t) BY <1>4, ClockGoesOn, ContinueLocal
<1> QED BY <1>1, <1>2, <1>3, <1>4

-----------------------------------------------------------------------------
(* What is recorded.                                                       *)

\* The record of a call under way holds what is the case after the step, and
\* what it held before; that of a call that has just returned is kept.
LEMMA Recorded ==
  ASSUME seen \in [Callers -> Seen], Observe, NEW t \in Callers
  PROVE  /\ seen'[t] \in Seen
         /\ InAuthorize(t)' =>
              /\ Grounds(t)'    => seen'[t].grounds
              /\ Unelevated'    => seen'[t].unelevated
              /\ Unapproved(t)' => seen'[t].unapproved
              /\ InAuthorize(t) => /\ seen[t].unelevated => seen'[t].unelevated
                                   /\ seen[t].unapproved => seen'[t].unapproved
         /\ ~InAuthorize(t)' /\ pc'[t] \in {"allow", "confirm"} => seen'[t] = seen[t]
<1> DEFINE g == Grounds(t)'
           m == Unelevated'
           a == Unapproved(t)'
           i == InAuthorize(t)
           j == InAuthorize(t)'
<1>1. seen'[t] =
        IF j THEN
          [grounds    |-> (IF i THEN seen[t] ELSE NothingSeen).grounds    \/ g,
           unelevated |-> (IF i THEN seen[t] ELSE NothingSeen).unelevated \/ m,
           unapproved |-> (IF i THEN seen[t] ELSE NothingSeen).unapproved \/ a]
        ELSE IF pc'[t] \in {"allow", "confirm"} THEN seen[t] ELSE NothingSeen
  BY DEF Observe, Look
<1>2. g \in BOOLEAN /\ m \in BOOLEAN /\ a \in BOOLEAN /\ i \in BOOLEAN /\ j \in BOOLEAN
  BY DEF Grounds, ElevatedActive, Unelevated, Unapproved, InAuthorize
<1>3. seen[t] \in Seen OBVIOUS
<1> HIDE DEF g, m, a, i, j
<1>4. /\ seen'[t] \in Seen
      /\ j => /\ g => seen'[t].grounds
              /\ m => seen'[t].unelevated
              /\ a => seen'[t].unapproved
              /\ i => /\ seen[t].unelevated => seen'[t].unelevated
                      /\ seen[t].unapproved => seen'[t].unapproved
      /\ ~j /\ pc'[t] \in {"allow", "confirm"} => seen'[t] = seen[t]
  BY <1>1, <1>2, <1>3 DEF Seen, NothingSeen
<1> QED BY <1>4 DEF g, m, a, i, j

LEMMA RecordsTyped ==
  ASSUME seen \in [Callers -> Seen], Observe
  PROVE  seen' \in [Callers -> Seen]
<1>1. \A t \in Callers : seen'[t] \in Seen BY Recorded
<1> QED BY <1>1 DEF Observe

-----------------------------------------------------------------------------
(* The decisions.                                                          *)

\* What the invariant says a caller has seen.
Saw(t) ==
  /\ pc[t] \in {"check_approved", "mint"} => seen[t].unelevated
  /\ pc[t] = "mint" => seen[t].unapproved
  /\ pc[t] = "allow" => seen[t].grounds
  /\ pc[t] = "confirm" => seen[t].unelevated /\ seen[t].unapproved

LEMMA SawIsAll ==
  (\A t \in Callers : Saw(t)) <=> GoesOnUnelevated /\ AllowedOnGrounds /\ AskedOnlyIfLapsed
BY DEF Saw, GoesOnUnelevated, AllowedOnGrounds, AskedOnlyIfLapsed
\* Inside DInv, a caller in its own words.
LEMMA OfCaller ==
  ASSUME DInv, NEW t \in Callers
  PROVE  /\ Local(t) /\ Saw(t)
         /\ t \in Threads /\ frame[t] \in Frames /\ seen[t] \in Seen
         /\ InAuthorize(t) => /\ Grounds(t)    => seen[t].grounds
                              /\ Unelevated    => seen[t].unelevated
                              /\ Unapproved(t) => seen[t].unapproved
BY LocalIsAll, SawIsAll, FrameTypes DEF DInv, IInv, SeenIsComplete, Threads

\* The mode is read: what allows the action was recorded at the latest when the
\* thread came to read it, and that there is no elevation is recorded now.
LEMMA ModeDecided ==
  ASSUME DInv, IInv', Observe, NEW t \in Callers, DecideByMode(t)
  PROVE  Saw(t)'
<1>0. t \in Threads /\ frame[t] \in Frames /\ clock \in Nat /\ mode \in Modes
  BY OfCaller DEF DInv, IInv, TypeOK
<1>1. InAuthorize(t) /\ frame[t].start <= clock
  BY OfCaller DEF DecideByMode, InAuthorize, Local
<1>2. UNCHANGED <<clock, mode, approved>> BY DEF DecideByMode, Maps
<1>3. CASE Return(t, "allow")
  <2>1. pc'[t] = "allow" /\ ~InAuthorize(t)'
    BY <1>0, <1>3 DEF Return, Goto, InAuthorize, NoFrame, DInv, IInv, TypeOK
  <2>2. seen'[t] = seen[t] BY <2>1, Recorded DEF DInv
  <2>3. ~(frame[t].dangerous /\ ~ElevatedActive(mode, frame[t].start))
    <3> SUFFICES ASSUME frame[t].dangerous, ~ElevatedActive(mode, frame[t].start)
                 PROVE  FALSE
      OBVIOUS
    <3>1. pc'[t] # "allow" BY <1>0 DEF DecideByMode, Goto, DInv, IInv, TypeOK
    <3> QED BY <2>1, <3>1
  <2>4. Grounds(t) BY <1>0, <2>3 DEF Grounds, Frames
  <2> QED BY <1>1, <2>1, <2>2, <2>4, OfCaller DEF Saw
<1>4. CASE /\ frame[t].dangerous
           /\ ~ElevatedActive(mode, frame[t].start)
           /\ Goto(t, IF frame[t].token = NoToken THEN "mint" ELSE "check_approved")
           /\ UNCHANGED frame
  <2>1. /\ pc'[t] = IF frame[t].token = NoToken THEN "mint" ELSE "check_approved"
        /\ InAuthorize(t)'
    BY <1>0, <1>1, <1>4 DEF Goto, InAuthorize, DInv, IInv, TypeOK
  <2>2. Unelevated'
    BY <1>0, <1>1, <1>2, <1>4 DEF Unelevated, ElevatedActive, Frames, Modes
  <2>3. frame[t].token = NoToken => Unapproved(t)' BY <1>4 DEF Unapproved
  <2>4. seen'[t].unelevated /\ (frame[t].token = NoToken => seen'[t].unapproved)
    BY <2>1, <2>2, <2>3, Recorded DEF DInv
  <2> QED BY <2>1, <2>4 DEF Saw
<1> QED BY <1>3, <1>4 DEF DecideByMode

\* So it is with the approvals.
LEMMA TokenDecided ==
  ASSUME DInv, IInv', Observe, NEW t \in Callers, DecideByToken(t)
  PROVE  Saw(t)'
<1>0. /\ t \in Threads /\ frame[t] \in Frames /\ clock \in Nat
      /\ frame[t].token \in Tokens /\ approved[frame[t].token] \in Nat
  BY OfCaller DEF DInv, IInv, TypeOK, TokenCalls, DecideByToken
<1>1. InAuthorize(t) /\ frame[t].start <= clock /\ seen[t].unelevated
  BY OfCaller DEF DecideByToken, InAuthorize, Local, Saw
<1>2. UNCHANGED <<clock, mode, approved>> BY DEF DecideByToken, Maps
<1>3. CASE approved[frame[t].token] > frame[t].start /\ Return(t, "allow")
  <2>1. pc'[t] = "allow" /\ ~InAuthorize(t)'
    BY <1>0, <1>3 DEF Return, Goto, InAuthorize, NoFrame, DInv, IInv, TypeOK
  <2>2. seen'[t] = seen[t] BY <2>1, Recorded DEF DInv
  <2>3. Grounds(t) BY <1>0, <1>3, TokenAssumption DEF Grounds
  <2> QED BY <1>1, <2>1, <2>2, <2>3, OfCaller DEF Saw
<1>4. CASE /\ ~(approved[frame[t].token] > frame[t].start)
           /\ Goto(t, "mint")
           /\ UNCHANGED frame
  <2>1. pc'[t] = "mint" /\ InAuthorize(t)'
    BY <1>0, <1>1, <1>4 DEF Goto, InAuthorize, DInv, IInv, TypeOK
  <2>2. Unapproved(t)' BY <1>0, <1>1, <1>2, <1>4 DEF Unapproved, Frames
  <2>3. seen'[t].unelevated /\ seen'[t].unapproved
    BY <1>1, <2>1, <2>2, Recorded DEF DInv
  <2> QED BY <2>1, <2>3 DEF Saw
<1> QED BY <1>3, <1>4 DEF DecideByToken

\* A thread that asks has seen that it must.
LEMMA Asked ==
  ASSUME DInv, Observe, NEW t \in Callers, Mint(t)
  PROVE  Saw(t)'
<1>1. pc'[t] = "confirm" /\ ~InAuthorize(t)'
  BY OfCaller DEF Mint, Return, Goto, InAuthorize, NoFrame, DInv, IInv, TypeOK
<1>2. seen'[t] = seen[t] BY <1>1, Recorded DEF DInv
<1> QED BY <1>1, <1>2, OfCaller DEF Saw, Mint

\* No other step of a caller comes to a decision.
LEMMA OtherSteps ==
  ASSUME DInv, NEW t \in Callers, Begin(t) \/ Continue(t)
  PROVE  \/ DecideByMode(t) \/ DecideByToken(t) \/ Mint(t)
         \/ pc'[t] \notin {"check_approved", "mint", "allow", "confirm"}
<1>0. t \in Threads /\ frame[t] \in Frames BY OfCaller
<1> USE <1>0 DEF DInv, IInv, TypeOK, Enter, Goto, Return, Frames
<1>1. CASE Begin(t)
  BY <1>1 DEF Begin, BeginMode, BeginElevate, BeginApprove, BeginAuthorize, Reset
<1>2. CASE \/ ExpireNow(t) \/ ExpireMode(t) \/ ClearPending(t) \/ ClearApproved(t)
           \/ CurrentMode(t) \/ ReadMode(t) \/ ElevateWrite(t)
           \/ ApproveNow(t) \/ ApproveCheck(t) \/ ApproveInsert(t)
  BY <1>2 DEF ExpireNow, ExpireMode, ClearPending, ClearApproved, CurrentMode, ReadMode,
              ElevateWrite, ApproveNow, ApproveCheck, ApproveInsert
<1> QED BY <1>1, <1>2 DEF Continue

\* What a caller has seen is not forgotten while others move.
LEMMA OthersSaw ==
  ASSUME DInv, Observe, NEW t \in Callers, Stays(t)
  PROVE  Saw(t)'
<1>1. Saw(t) /\ Local(t) BY OfCaller
<1>2. CASE pc[t] \in {"check_approved", "mint"}
  <2>1. InAuthorize(t) /\ InAuthorize(t)'
    BY <1>1, <1>2 DEF Local, Stays, InAuthorize
  <2> QED BY <1>1, <1>2, <2>1, Recorded DEF DInv, Saw, Stays
<1>3. CASE pc[t] \in {"allow", "confirm"}
  <2>1. ~InAuthorize(t)' BY <1>1, <1>3 DEF Local, Stays, InAuthorize, Returned
  <2>2. seen'[t] = seen[t] BY <1>3, <2>1, Recorded DEF DInv, Stays
  <2> QED BY <1>1, <1>3, <2>2 DEF Saw, Stays
<1>4. CASE pc[t] \notin {"check_approved", "mint", "allow", "confirm"}
  BY <1>4 DEF Saw, Stays
<1> QED BY <1>2, <1>3, <1>4

-----------------------------------------------------------------------------
(* The inductive invariant, and the theorems.                              *)

\* It holds at the start.
LEMMA DInitInv == DInit => DInv
<1> SUFFICES ASSUME DInit PROVE DInv
  OBVIOUS
<1>1. IInv BY InitIInv DEF DInit
<1>2. seen \in [Callers -> Seen] BY DEF DInit, Seen, NothingSeen
<1>3. \A t \in Callers : pc[t] = "idle" /\ ~InAuthorize(t)
  BY DEF DInit, Init, Threads, InAuthorize, NoFrame
<1> QED
  BY <1>1, <1>2, <1>3
  DEF DInv, ReturnedIsOut, DecidesInAuthorize, StaysInAuthorize, StartRead,
      SeenIsComplete, GoesOnUnelevated, AllowedOnGrounds, AskedOnlyIfLapsed

\* Every step preserves it.
LEMMA DNextInv ==
  ASSUME DInv, DNext
  PROVE  DInv'
<1>1. IInv' BY NextIInv DEF DInv, DNext
<1>2. seen' \in [Callers -> Seen] BY RecordsTyped DEF DInv, DNext
<1>3. (ReturnedIsOut /\ DecidesInAuthorize /\ StaysInAuthorize /\ StartRead)'
  <2>1. \A t \in Callers : Local(t)'
    BY <1>1, OfCaller, StepLocal DEF DInv, DNext
  <2> QED BY <2>1 DEF Local, ReturnedIsOut, DecidesInAuthorize, StaysInAuthorize, StartRead
<1>4. SeenIsComplete' BY Recorded DEF DInv, DNext, SeenIsComplete
<1>5. (GoesOnUnelevated /\ AllowedOnGrounds /\ AskedOnlyIfLapsed)'
  <2>1. ASSUME NEW t \in Callers
        PROVE  Saw(t)'
    <3>1. Stays(t) \/ Begin(t) \/ Continue(t) BY CallerStep DEF DInv, DNext
    <3>2. CASE Stays(t) BY <3>2, OthersSaw DEF DNext
    <3>3. CASE DecideByMode(t) BY <1>1, <3>3, ModeDecided DEF DNext
    <3>4. CASE DecideByToken(t) BY <1>1, <3>4, TokenDecided DEF DNext
    <3>5. CASE Mint(t) BY <3>5, Asked DEF DNext
    <3>6. CASE pc'[t] \notin {"check_approved", "mint", "allow", "confirm"}
      BY <3>6 DEF Saw
    <3> QED BY <3>1, <3>2, <3>3, <3>4, <3>5, <3>6, OtherSteps
  <2> QED BY <2>1 DEF Saw, GoesOnUnelevated, AllowedOnGrounds, AskedOnlyIfLapsed
<1> QED BY <1>1, <1>2, <1>3, <1>4, <1>5 DEF DInv

\* What a call of authorize has seen is all it decides by, whoever interferes.
THEOREM DecisionsInvariance == DSpec => []DInv
<1>1. DInit => DInv BY DInitInv
<1>2. DInv /\ [DNext]_<<vars, seen>> => DInv'
  <2> SUFFICES ASSUME DInv, UNCHANGED <<vars, seen>> PROVE DInv'
    BY DNextInv
  <2>1. IInv' BY NextIInv DEF DInv
  <2> QED
    BY <2>1 DEF DInv, vars, ReturnedIsOut, DecidesInAuthorize, StaysInAuthorize,
      StartRead, SeenIsComplete, GoesOnUnelevated, AllowedOnGrounds,
      AskedOnlyIfLapsed, InAuthorize, Grounds, Unelevated, Unapproved
<1> QED BY <1>1, <1>2, PTL DEF DSpec

\* A dangerous action is allowed only on grounds that stood at one moment of the
\* call: authorize never pieces them together from several.
THEOREM AllowedJustly == DSpec => []AllowedOnGrounds
<1>1. DInv => AllowedOnGrounds BY DEF DInv
<1> QED BY <1>1, DecisionsInvariance, PTL

\* The user is asked only if an elevation and an approval were missing: one that
\* lasts as long as the call is never overlooked.
THEOREM AskedJustly == DSpec => []AskedOnlyIfLapsed
<1>1. DInv => AskedOnlyIfLapsed BY DEF DInv
<1> QED BY <1>1, DecisionsInvariance, PTL
=============================================================================
