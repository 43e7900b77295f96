-------------------------- MODULE OperatorSessions --------------------------
(***************************************************************************)
(* Sessions of the operator, their plans, the proposals a run makes and    *)
(* the decisions on them (clawork-operator, the operator_*_inner functions *)
(* of lib.rs).  All is kept in a database, one statement at a time: no     *)
(* request holds a transaction or a lock, so requests interleave between   *)
(* their statements, and one that is cut short leaves what it did.         *)
(***************************************************************************)
EXTENDS Integers, Sequences, FiniteSets, FiniteSetsExt

CONSTANTS
  Sessions,    \* ids of the sessions that may be created
  Unknown,     \* an id no session has
  Clients,     \* each has one request under way at most
  PlanSizes,   \* numbers of steps a plan may have
  MaxRequests, \* bound: requests that write
  MaxCuts      \* bound: requests cut short

ASSUME SessionsAssumption ==
  /\ Unknown \notin Sessions
  /\ PlanSizes \subseteq Nat \ {0}
  /\ MaxRequests \in Nat
  /\ MaxCuts \in Nat

VARIABLES
  session,   \* id -> state of the session, "none" if there is no such row
  steps,     \* id -> steps stored for it: <<plan, number>>
  proposals, \* proposals, the oldest first
  decisions, \* rows of operator_approvals, the oldest first
  request,   \* client -> its request
  requests,  \* requests so far
  cuts,      \* requests cut short so far
  newest     \* history: id -> plan of the last request to delete the steps of
             \* another, if that request was not cut short

sessionsData == <<session, steps, proposals, decisions>>
sessionsVars == <<sessionsData, request, requests, cuts, newest>>

-----------------------------------------------------------------------------

Ids         == Sessions \union {Unknown}
States      == {"draft", "planned", "running", "waiting_approval", "completed"}
Decisions   == {"approved", "rejected"}
NoPlan      == [plan |-> 0, size |-> 0]
NoStep      == <<0, 0>>

\* Every step of a plan.
StepsOf(p) == {<<p.plan, n>> : n \in 1 .. p.size}

\* about: the session or the proposal the request is about; done: steps stored;
\* step: the one to propose; alone: no other request about the same crossed it.
NoRequest == [pc |-> "idle", op |-> "none", about |-> Unknown, plan |-> NoPlan,
              done |-> 0, step |-> NoStep, decision |-> "approved", alone |-> TRUE]

Under(c, op, about) == request[c].op = op /\ request[c].about = about

\* A request begins: whoever is at work on the same is no longer alone.
Start(c, begun) ==
  LET Crossing == {d \in Clients : d # c /\ request[d].about = begun.about
                                         /\ request[d].pc # "idle"}
  IN request' = [d \in Clients |->
       IF d = c THEN [begun EXCEPT !.alone = (Crossing = {})]
       ELSE IF d \in Crossing THEN [request[d] EXCEPT !.alone = FALSE]
       ELSE request[d]]

End(c) == request' = [request EXCEPT ![c] = NoRequest]

Begins(c) ==
  /\ request[c].pc = "idle"
  /\ requests < MaxRequests
  /\ requests' = requests + 1

\* set_session_state: whatever the state was; a session that is not there is
\* left alone.
SetState(s, state) ==
  session' = IF session[s] = "none" THEN session ELSE [session EXCEPT ![s] = state]

-----------------------------------------------------------------------------
(* Requests.                                                               *)

CreateSession(c, s) ==
  /\ Begins(c)
  /\ s \in Sessions
  /\ session[s] = "none"
  /\ session' = [session EXCEPT ![s] = "draft"]
  /\ UNCHANGED <<steps, proposals, decisions, request, cuts, newest>>

\* Mutant: the steps of the plan before stay.
DeleteStepsKept(c, s, size) ==
  /\ Begins(c)
  /\ LET plan == [plan |-> requests', size |-> size]
     IN /\ Start(c, [NoRequest EXCEPT !.pc = "insert", !.op = "plan",
                                      !.about = s, !.plan = plan])
        /\ newest' = [newest EXCEPT ![s] = plan]
  /\ UNCHANGED <<sessionsData, cuts>>

\* operator_plan_session_inner, replace_plan_steps: the steps there are go,
\* and nobody looks whether there is such a session.
DeleteSteps(c, s, size) ==
  /\ Begins(c)
  /\ steps' = [steps EXCEPT ![s] = {}]
  /\ LET plan == [plan |-> requests', size |-> size]
     IN /\ Start(c, [NoRequest EXCEPT !.pc = "insert", !.op = "plan",
                                      !.about = s, !.plan = plan])
        /\ newest' = [newest EXCEPT ![s] = plan]
  /\ UNCHANGED <<session, proposals, decisions, cuts>>

\* Mutant: a step is stored in place of what there is.
InsertStepReplaces(c) ==
  LET r == request[c]
  IN /\ r.pc = "insert"
     /\ steps' = [steps EXCEPT ![r.about] =
          (IF r.done = 0 THEN {} ELSE @) \union {<<r.plan.plan, r.done + 1>>}]
     /\ request' = [request EXCEPT
          ![c].done = @ + 1,
          ![c].pc = IF r.done + 1 = r.plan.size THEN "planned" ELSE "insert"]
     /\ UNCHANGED <<session, proposals, decisions, requests, cuts, newest>>

InsertStep(c) ==
  LET r == request[c]
  IN /\ r.pc = "insert"
     /\ steps' = [steps EXCEPT ![r.about] = @ \union {<<r.plan.plan, r.done + 1>>}]
     /\ request' = [request EXCEPT
          ![c].done = @ + 1,
          ![c].pc = IF r.done + 1 = r.plan.size THEN "planned" ELSE "insert"]
     /\ UNCHANGED <<session, proposals, decisions, requests, cuts, newest>>

SetPlanned(c) ==
  /\ request[c].pc = "planned"
  /\ SetState(request[c].about, "planned")
  /\ End(c)
  /\ UNCHANGED <<steps, proposals, decisions, requests, cuts, newest>>

\* operator_run_session_inner, whatever the state of the session.
SetRunning(c, s) ==
  /\ Begins(c)
  /\ SetState(s, "running")
  /\ IF session[s] = "none"
     THEN UNCHANGED request
     ELSE Start(c, [NoRequest EXCEPT !.pc = "list", !.op = "run", !.about = s])
  /\ UNCHANGED <<steps, proposals, decisions, cuts, newest>>

\* list_steps, of which only the first matters.  Steps of one plan have one
\* time and are in the order they were stored; of two plans either may be first.
ListSteps(c) ==
  LET stored == steps[request[c].about]
  IN /\ request[c].pc = "list"
     /\ IF stored = {}
        THEN request' = [request EXCEPT ![c].pc = "completed"]
        ELSE \E first \in stored :
               /\ \A other \in stored : other[1] = first[1] => first[2] <= other[2]
               /\ request' = [request EXCEPT ![c].pc = "propose", ![c].step = first]
     /\ UNCHANGED <<sessionsData, requests, cuts, newest>>

ProposeAction(c) ==
  /\ request[c].pc = "propose"
  /\ proposals' = Append(proposals, [session |-> request[c].about,
                                     step |-> request[c].step,
                                     state |-> "pending_approval"])
  /\ request' = [request EXCEPT ![c].pc = "waiting_approval"]
  /\ UNCHANGED <<session, steps, decisions, requests, cuts, newest>>

\* Mutant: the session waits before there is something to wait for.
SetOutcomeEarly(c) ==
  /\ request[c].pc \in {"propose", "waiting_approval", "completed"}
  /\ SetState(request[c].about,
              IF request[c].pc = "propose" THEN "waiting_approval" ELSE request[c].pc)
  /\ IF request[c].pc = "propose" THEN UNCHANGED request ELSE End(c)
  /\ UNCHANGED <<steps, proposals, decisions, requests, cuts, newest>>

SetOutcome(c) ==
  /\ request[c].pc \in {"waiting_approval", "completed"}
  /\ SetState(request[c].about, request[c].pc)
  /\ End(c)
  /\ UNCHANGED <<steps, proposals, decisions, requests, cuts, newest>>

\* set_action_state, whatever was decided before.
Decide(c, i, decision) ==
  /\ Begins(c)
  /\ proposals' = [proposals EXCEPT ![i].state = decision]
  /\ Start(c, [NoRequest EXCEPT !.pc = "log", !.op = "decide", !.about = i,
                                !.decision = decision])
  /\ UNCHANGED <<session, steps, decisions, cuts, newest>>

LogDecision(c) ==
  /\ request[c].pc = "log"
  /\ decisions' = Append(decisions, <<request[c].about, request[c].decision>>)
  /\ End(c)
  /\ UNCHANGED <<session, steps, proposals, requests, cuts, newest>>

\* A statement fails, the client hangs up or the application stops.
Cut(c) ==
  LET r == request[c]
  IN /\ r.pc # "idle"
     /\ cuts < MaxCuts
     /\ cuts' = cuts + 1
     /\ newest' = IF r.op = "plan" /\ newest[r.about] = r.plan
                  THEN [newest EXCEPT ![r.about] = NoPlan]
                  ELSE newest
     /\ End(c)
     /\ UNCHANGED <<sessionsData, requests>>

-----------------------------------------------------------------------------

SessionsInit ==
  /\ session = [s \in Ids |-> "none"]
  /\ steps = [s \in Ids |-> {}]
  /\ proposals = <<>>
  /\ decisions = <<>>
  /\ request = [c \in Clients |-> NoRequest]
  /\ requests = 0
  /\ cuts = 0
  /\ newest = [s \in Ids |-> NoPlan]

SessionsNext ==
  \E c \in Clients :
    \/ \E s \in Ids :
         \/ CreateSession(c, s)
         \/ \E size \in PlanSizes : DeleteSteps(c, s, size)
         \/ SetRunning(c, s)
    \/ \E i \in 1 .. Len(proposals), d \in Decisions : Decide(c, i, d)
    \/ InsertStep(c) \/ SetPlanned(c)
    \/ ListSteps(c) \/ ProposeAction(c) \/ SetOutcome(c)
    \/ LogDecision(c)
    \/ Cut(c)

SessionsSpec == SessionsInit /\ [][SessionsNext]_sessionsVars

-----------------------------------------------------------------------------
(* Properties.                                                             *)

\* Every variable has its type.
SessionsTypeOK ==
  /\ session \in [Ids -> States \union {"none"}]
  /\ session[Unknown] = "none"
  /\ \A s \in Ids : steps[s] \subseteq (1 .. requests) \X (1 .. Max(PlanSizes))
  /\ \A i \in 1 .. Len(proposals) :
       /\ proposals[i].session \in Sessions
       /\ proposals[i].state \in Decisions \union {"pending_approval"}
  /\ \A k \in 1 .. Len(decisions) :
       decisions[k] \in (1 .. Len(proposals)) \X Decisions
  /\ \A c \in Clients :
       /\ request[c].pc \in {"idle", "insert", "planned", "list", "propose",
                             "waiting_approval", "completed", "log"}
       /\ request[c].alone \in BOOLEAN

\* A session waits for an approval only if something was proposed for it,
\* wherever a run is cut short and whatever it crosses.
WaitingHasProposal ==
  \A s \in Sessions : session[s] = "waiting_approval" =>
    \E i \in 1 .. Len(proposals) : proposals[i].session = s

\* Of plans that cross, the steps get mixed; but all steps of the one that
\* deleted last are there once it has ended.
NewestPlanIsWhole ==
  \A s \in Ids :
    (\A c \in Clients : Under(c, "plan", s) => request[c].plan # newest[s])
    => StepsOf(newest[s]) \subseteq steps[s]

\* What a request has to show for itself when its last statement is done.
Planned(r) ==
  /\ steps'[r.about] = StepsOf(r.plan)
  /\ session'[r.about] \in {"planned", "none"}

Ran(r) ==
  \/ /\ session'[r.about] = "completed"
     /\ steps'[r.about] = {}
  \/ /\ session'[r.about] = "waiting_approval"
     /\ \E i \in 1 .. Len(proposals') :
          /\ proposals'[i].session = r.about
          /\ proposals'[i].step = r.step
     /\ r.step \in steps'[r.about]

Decided(r) ==
  /\ proposals'[r.about].state = r.decision
  /\ \E k \in 1 .. Len(decisions') :
       /\ decisions'[k] = <<r.about, r.decision>>
       /\ \A later \in k + 1 .. Len(decisions') : decisions'[later][1] # r.about

\* A request that no other crosses does what it is for, whatever state requests
\* that crossed each other or were cut short had left: a plan leaves its steps
\* and no others, a run leaves the session to wait for a step of that plan or,
\* if it has none, completed, and a decision is both the state of the proposal
\* and the last one logged.
AloneIsDone ==
  [][\A c \in Clients :
       LET r == request[c]
       IN r.pc # "idle" /\ request'[c].pc = "idle" /\ cuts' = cuts /\ r.alone
          => CASE r.op = "plan"   -> Planned(r)
               [] r.op = "run"    -> Ran(r)
               [] r.op = "decide" -> Decided(r)]_sessionsVars
=============================================================================
