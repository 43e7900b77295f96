------------------------ MODULE PermissionDecisions -------------------------
(***************************************************************************)
(* What authorize answers, against what was the case while it ran.  The    *)
(* call reads the clock, the mode and the approvals at three moments, none *)
(* of them under one lock; `seen` records, for the call a caller is in or  *)
(* has just left, what held at some moment of it.                          *)
(***************************************************************************)
EXTENDS PermissionEngine

VARIABLE seen  \* caller -> what was the case at some moment of its call

NothingSeen == [grounds |-> FALSE, unelevated |-> FALSE, unapproved |-> FALSE]

\* An elevation or an approval that outlives the start of the call.
Grounds(t) ==
  \/ ~frame[t].dangerous
  \/ ElevatedActive(mode, frame[t].start)
  \/ frame[t].token # NoToken /\ approved[frame[t].token] > frame[t].start

\* Neither is in force at this moment.
Unelevated == ~ElevatedActive(mode, clock)
Unapproved(t) == frame[t].token = NoToken \/ ~(approved[frame[t].token] > clock)

InAuthorize(t) == frame[t].op = "authorize"

Look(t, past) ==
  [grounds    |-> past.grounds    \/ Grounds(t)',
   unelevated |-> past.unelevated \/ Unelevated',
   unapproved |-> past.unapproved \/ Unapproved(t)']

\* A record starts with the call and is complete when the call returns.
Observe ==
  seen' = [t \in Callers |->
             IF InAuthorize(t)' THEN
               Look(t, IF InAuthorize(t) THEN seen[t] ELSE NothingSeen)
             ELSE IF pc'[t] \in {"allow", "confirm"} THEN seen[t]
             ELSE NothingSeen]

DInit == Init /\ seen = [t \in Callers |-> NothingSeen]
DNext == Next /\ Observe
DSpec == DInit /\ [][DNext]_<<vars, seen>>

-----------------------------------------------------------------------------

\* A dangerous action is allowed only if at some moment of the call there was
\* an elevation, or an approval of the token it carries, still valid when the
\* call began; the call does not mix one moment's mode with another's token.
AllowedOnGrounds ==
  \A t \in Callers : pc[t] = "allow" => seen[t].grounds

\* The user is asked again only if at some moment of the call no elevation was
\* in force, and at some moment the token was not approved: an elevation or an
\* approval that lasts as long as the call is never overlooked.
AskedOnlyIfLapsed ==
  \A t \in Callers :
    pc[t] = "confirm" => seen[t].unelevated /\ seen[t].unapproved
=============================================================================
