-------------------------- MODULE PermissionService -------------------------
(***************************************************************************)
(* What the permission engine promises its callers, without threads, locks *)
(* or local variables: which changes of the mode and of the two maps there *)
(* can be.  An elevation ends when it has expired, and whoever ends it     *)
(* owes the clearing of both maps, as does a reset; nothing else forgets a confirmation or  *)
(* an approval; and an approval is granted to a confirmation that stands.  *)
(***************************************************************************)
EXTENDS Naturals

CONSTANTS
  Agents,  \* whoever may notice that an elevation has expired
  Tokens   \* confirmation tokens

VARIABLES
  clock,     \* wall clock
  mode,      \* the permission mode
  pending,   \* token -> expiry of the confirmation, 0 when there is none
  approved,  \* token -> expiry of the approval, 0 when there is none
  issued,    \* tokens handed out so far
  owes       \* what each agent still has to clear

vars == <<clock, mode, pending, approved, issued, owes>>

Init ==
  /\ clock = 0
  /\ mode = [tag |-> "Sandbox", until |-> 0]
  /\ pending = [k \in Tokens |-> 0]
  /\ approved = [k \in Tokens |-> 0]
  /\ issued = {}
  /\ owes = [a \in Agents |-> "nothing"]

Elevate ==
  /\ mode'.tag = "Elevated"
  /\ UNCHANGED <<clock, pending, approved, issued, owes>>

Expire(a) ==
  /\ mode.tag = "Elevated"
  /\ mode.until <= clock
  /\ mode' = [tag |-> "Sandbox", until |-> 0]
  /\ owes[a] = "nothing"
  /\ owes' = [owes EXCEPT ![a] = "both"]
  /\ UNCHANGED <<clock, pending, approved, issued>>

Reset(a) ==
  /\ mode' = [tag |-> "Sandbox", until |-> 0]
  /\ owes[a] = "nothing"
  /\ owes' = [owes EXCEPT ![a] = "both"]
  /\ UNCHANGED <<clock, pending, approved, issued>>

ForgetPending(a) ==
  /\ owes[a] = "both"
  /\ pending' = [k \in Tokens |-> 0]
  /\ owes' = [owes EXCEPT ![a] = "approved"]
  /\ UNCHANGED <<clock, mode, approved, issued>>

ForgetApproved(a) ==
  /\ owes[a] = "approved"
  /\ approved' = [k \in Tokens |-> 0]
  /\ owes' = [owes EXCEPT ![a] = "nothing"]
  /\ UNCHANGED <<clock, mode, pending, issued>>

Ask(k) ==
  /\ k \notin issued
  /\ issued' = issued \union {k}
  /\ pending'[k] > 0
  /\ pending' = [pending EXCEPT ![k] = pending'[k]]
  /\ UNCHANGED <<clock, mode, approved, owes>>

Grant(k) ==
  /\ pending[k] > 0
  /\ approved' = [approved EXCEPT ![k] = pending[k]]
  /\ UNCHANGED <<clock, mode, pending, issued, owes>>

Tick ==
  /\ clock' = clock + 1
  /\ UNCHANGED <<mode, pending, approved, issued, owes>>

Next ==
  \/ Tick
  \/ Elevate
  \/ \E a \in Agents :
       Expire(a) \/ Reset(a) \/ ForgetPending(a) \/ ForgetApproved(a)
  \/ \E k \in Tokens : Ask(k) \/ Grant(k)

Spec == Init /\ [][Next]_vars
=============================================================================
