----------------------- MODULE OperatorSessionsProofs -----------------------
(***************************************************************************)
(* Theorems about sessions, plans, proposals and decisions, for any ids,   *)
(* any clients, any sizes of plans and any bounds.                         *)
(*                                                                         *)
(* The properties speak of the end of a request, so the invariant says of  *)
(* every request under way what it has done so far (PlanWork, RunWork,     *)
(* DecideWork): some of it whatever crosses it, the rest as long as it is  *)
(* alone, which means that no other about the same is under way            *)
(* (AloneIsAlone).                                                         *)
(***************************************************************************)
EXTENDS OperatorSessions, TLAPS

PlanRecords == [plan : Nat, size : Nat]
Steps == Nat \X Nat

Proposals == [session : Ids, step : Steps, state : Decisions \union {"pending_approval"}]

Requests == [pc : {"idle", "insert", "planned", "list", "propose",
                   "waiting_approval", "completed", "log"},
             op : {"none", "plan", "run", "decide"},
             about : Ids \union Nat,
             plan : PlanRecords,
             done : Nat,
             step : Steps,
             decision : Decisions,
             alone : BOOLEAN]

SessionsTypes ==
  /\ session \in [Ids -> States \union {"none"}]
  /\ steps \in [Ids -> SUBSET Steps]
  /\ proposals \in Seq(Proposals)
  /\ decisions \in Seq(Nat \X Decisions)
  /\ request \in [Clients -> Requests]
  /\ requests \in Nat
  /\ cuts \in Nat
  /\ newest \in [Ids -> PlanRecords]

\* The first k steps of a plan.
StepsUpTo(p, k) == {<<p.plan, n>> : n \in 1 .. k}

\* A plan's steps are stored one after another; they stay until a newer plan
\* deletes them, and a plan that is alone finds no others.
PlanWork(r) ==
  /\ r.pc \in {"insert", "planned"}
  /\ r.about \in Ids
  /\ 1 <= r.plan.plan /\ r.plan.plan <= requests
  /\ r.pc = "insert" => r.done < r.plan.size
  /\ r.pc = "planned" => r.done = r.plan.size
  /\ newest[r.about] = r.plan => StepsUpTo(r.plan, r.done) \subseteq steps[r.about]
  /\ r.alone => steps[r.about] = StepsUpTo(r.plan, r.done)

\* A run is of a session that is there; what it found is there if it is alone,
\* and what it proposed is proposed.
RunWork(r) ==
  /\ r.pc \in {"list", "propose", "waiting_approval", "completed"}
  /\ r.about \in Ids
  /\ session[r.about] # "none"
  /\ r.pc \in {"propose", "waiting_approval"} /\ r.alone => r.step \in steps[r.about]
  /\ r.pc = "completed" /\ r.alone => steps[r.about] = {}
  /\ r.pc = "waiting_approval" =>
       \E i \in 1 .. Len(proposals) :
         proposals[i].session = r.about /\ proposals[i].step = r.step

\* What was decided stands, if the decision is alone.
DecideWork(r) ==
  /\ r.pc = "log"
  /\ r.about \in 1 .. Len(proposals)
  /\ r.alone => proposals[r.about].state = r.decision

Work ==
  \A c \in Clients :
    /\ request[c].op = "none" => request[c].pc = "idle"
    /\ request[c].op = "plan" => PlanWork(request[c])
    /\ request[c].op = "run" => RunWork(request[c])
    /\ request[c].op = "decide" => DecideWork(request[c])

\* While a request is alone, no other about the same is under way.
AloneIsAlone ==
  \A c, d \in Clients :
    c # d /\ request[c].pc # "idle" /\ request[c].alone =>
      request[d].pc = "idle" \/ request[d].about # request[c].about

SessionsInv ==
  /\ SessionsTypes
  /\ Work
  /\ AloneIsAlone
  /\ WaitingHasProposal
  /\ NewestPlanIsWhole

-----------------------------------------------------------------------------
(* The other requests.                                                     *)

\* What a step of c leaves of the others: they go on, alone or no longer.
OthersGoOn(c) ==
  \A d \in Clients \ {c} :
    \/ request'[d] = request[d]
    \/ request'[d] = [request[d] EXCEPT !.alone = FALSE]

\* Sessions and proposals stay; a proposal keeps what it is about.
DataStays ==
  /\ \A s \in Ids : session[s] # "none" => session'[s] # "none"
  /\ requests' \in Nat /\ requests <= requests'
  /\ Len(proposals) <= Len(proposals')
  /\ \A i \in 1 .. Len(proposals) : /\ proposals'[i].session = proposals[i].session
                                    /\ proposals'[i].step = proposals[i].step

\* The work of d is not disturbed.
Undisturbed(d) ==
  /\ request[d].op = "plan" /\ newest'[request[d].about] = request[d].plan =>
         /\ newest[request[d].about] = request[d].plan
         /\ steps[request[d].about] \subseteq steps'[request[d].about]
  /\ request[d].op \in {"plan", "run"} /\ request'[d].alone =>
       steps'[request[d].about] = steps[request[d].about]
  /\ request[d].op = "decide" /\ request'[d].alone =>
       proposals'[request[d].about].state = proposals[request[d].about].state

LEMMA OthersFields ==
  ASSUME SessionsTypes, NEW c \in Clients, OthersGoOn(c), NEW d \in Clients \ {c}
  PROVE  /\ request[d] \in Requests
         /\ request'[d] \in Requests
         /\ request'[d].pc = request[d].pc
         /\ request'[d].op = request[d].op
         /\ request'[d].about = request[d].about
         /\ request'[d].plan = request[d].plan
         /\ request'[d].done = request[d].done
         /\ request'[d].step = request[d].step
         /\ request'[d].decision = request[d].decision
         /\ request'[d].alone => request[d].alone
<1>1. request[d] \in Requests BY DEF SessionsTypes
<1>2. CASE request'[d] = request[d] BY <1>1, <1>2
<1>3. CASE request'[d] = [request[d] EXCEPT !.alone = FALSE]
  BY <1>1, <1>3 DEF Requests
<1> QED BY <1>2, <1>3 DEF OthersGoOn

\* Work of which each part is what it was is still done.
LEMMA OtherWork ==
  ASSUME SessionsInv, NEW c \in Clients, OthersGoOn(c), DataStays,
         NEW d \in Clients \ {c}, Undisturbed(d)
  PROVE  /\ request'[d].op = "none" => request'[d].pc = "idle"
         /\ request'[d].op = "plan" => PlanWork(request[d])'
         /\ request'[d].op = "run" => RunWork(request[d])'
         /\ request'[d].op = "decide" => DecideWork(request[d])'
<1>1. SessionsTypes /\ Work BY DEF SessionsInv
<1>2. /\ request'[d].pc = request[d].pc
      /\ request'[d].op = request[d].op
      /\ request'[d].about = request[d].about
      /\ request'[d].plan = request[d].plan
      /\ request'[d].done = request[d].done
      /\ request'[d].step = request[d].step
      /\ request'[d].decision = request[d].decision
      /\ request'[d].alone => request[d].alone
  BY <1>1, OthersFields
<1>3. ASSUME request[d].op = "plan" PROVE PlanWork(request[d])'
  <2>1. PlanWork(request[d]) BY <1>1, <1>3 DEF Work
  <2>2. /\ request[d].plan.plan \in Nat /\ requests \in Nat
        /\ requests' \in Nat /\ requests <= requests'
    BY <1>1, <1>2 DEF SessionsTypes, DataStays, Requests, PlanRecords
  <2>3. StepsUpTo(request'[d].plan, request'[d].done)
          = StepsUpTo(request[d].plan, request[d].done)
    BY <1>2
  <2>4. 1 <= request'[d].plan.plan /\ request'[d].plan.plan <= requests'
    BY <1>2, <2>1, <2>2 DEF PlanWork
  <2>5. newest'[request[d].about] = request[d].plan =>
          StepsUpTo(request[d].plan, request[d].done) \subseteq steps'[request[d].about]
    BY <1>3, <2>1 DEF PlanWork, Undisturbed
  <2>6. request'[d].alone =>
          steps'[request[d].about] = StepsUpTo(request[d].plan, request[d].done)
    BY <1>2, <1>3, <2>1 DEF PlanWork, Undisturbed
  <2> QED BY <1>2, <2>1, <2>3, <2>4, <2>5, <2>6 DEF PlanWork
<1>4. ASSUME request[d].op = "run" PROVE RunWork(request[d])'
  <2>1. RunWork(request[d]) BY <1>1, <1>4 DEF Work
  <2>2. Len(proposals) \in Nat BY <1>1 DEF SessionsTypes
  <2> QED BY <1>2, <1>4, <2>1, <2>2 DEF RunWork, Undisturbed, DataStays
<1>5. ASSUME request[d].op = "decide" PROVE DecideWork(request[d])'
  <2>1. DecideWork(request[d]) BY <1>1, <1>5 DEF Work
  <2>2. Len(proposals) \in Nat BY <1>1 DEF SessionsTypes
  <2> QED BY <1>2, <1>5, <2>1, <2>2 DEF DecideWork, Undisturbed, DataStays
<1>6. request[d].op = "none" => request[d].pc = "idle" BY <1>1 DEF Work
<1> QED BY <1>2, <1>3, <1>4, <1>5, <1>6

\* So all work is done, if that of c is and the others' is not disturbed.
LEMMA AllWork ==
  ASSUME SessionsInv, NEW c \in Clients, OthersGoOn(c), DataStays,
         \A d \in Clients \ {c} : Undisturbed(d),
         request'[c].op = "none" => request'[c].pc = "idle",
         request'[c].op = "plan" => PlanWork(request[c])',
         request'[c].op = "run" => RunWork(request[c])',
         request'[c].op = "decide" => DecideWork(request[c])'
  PROVE  Work'
<1> SUFFICES ASSUME NEW d \in Clients
             PROVE  /\ request'[d].op = "none" => request'[d].pc = "idle"
                    /\ request'[d].op = "plan" => PlanWork(request[d])'
                    /\ request'[d].op = "run" => RunWork(request[d])'
                    /\ request'[d].op = "decide" => DecideWork(request[d])'
  BY DEF Work
<1>1. CASE d = c BY <1>1
<1>2. CASE d # c BY <1>2, OtherWork
<1> QED BY <1>1, <1>2

\* Where no statement touches plans or the states of proposals nobody is
\* disturbed.
LEMMA NobodyDisturbed ==
  ASSUME UNCHANGED <<steps, newest>>, NEW d \in Clients,
         \A i \in 1 .. Len(proposals) : proposals'[i].state = proposals[i].state,
         request[d].op = "decide" => request[d].about \in 1 .. Len(proposals)
  PROVE  Undisturbed(d)
BY DEF Undisturbed

-----------------------------------------------------------------------------
(* The request that takes the step.                                        *)

LEMMA NoRequestType == NoRequest \in Requests
BY DEF NoRequest, Requests, PlanRecords, Steps, NoPlan, NoStep, Decisions, Ids

\* A request that begins.
LEMMA StartKeeps ==
  ASSUME SessionsTypes, AloneIsAlone, NEW c \in Clients, NEW begun \in Requests,
         begun.pc # "idle", request[c].pc = "idle", Start(c, begun)
  PROVE  /\ request' \in [Clients -> Requests]
         /\ OthersGoOn(c)
         /\ AloneIsAlone'
         /\ \A d \in Clients \ {c} :
              request'[d].alone /\ request[d].pc # "idle" => request[d].about # begun.about
         /\ request'[c].pc = begun.pc
         /\ request'[c].op = begun.op
         /\ request'[c].about = begun.about
         /\ request'[c].plan = begun.plan
         /\ request'[c].done = begun.done
         /\ request'[c].step = begun.step
         /\ request'[c].decision = begun.decision
<1> DEFINE Crossing == {d \in Clients : d # c /\ request[d].about = begun.about
                                              /\ request[d].pc # "idle"}
           mine == [begun EXCEPT !.alone = (Crossing = {})]
<1>1. request' = [d \in Clients |->
        IF d = c THEN mine
        ELSE IF d \in Crossing THEN [request[d] EXCEPT !.alone = FALSE]
        ELSE request[d]]
  BY DEF Start
<1>2. /\ mine \in Requests /\ mine.pc = begun.pc /\ mine.op = begun.op
      /\ mine.about = begun.about /\ mine.plan = begun.plan /\ mine.done = begun.done
      /\ mine.step = begun.step /\ mine.decision = begun.decision
      /\ mine.alone = (Crossing = {})
  BY DEF Requests
<1>3. request'[c] = mine BY <1>1
<1>4. \A d \in Clients \ {c} :
        /\ d \in Crossing => request'[d] = [request[d] EXCEPT !.alone = FALSE]
        /\ d \notin Crossing => request'[d] = request[d]
  BY <1>1
<1> HIDE DEF mine
<1>5. OthersGoOn(c) BY <1>4 DEF OthersGoOn
<1>6. \A d \in Clients \ {c} :
        /\ request'[d] \in Requests
        /\ request'[d].pc = request[d].pc
        /\ request'[d].about = request[d].about
        /\ request'[d].alone => request[d].alone
  BY <1>5, OthersFields
<1>7. \A d \in Clients \ {c} : request'[d].alone => d \notin Crossing
  <2> SUFFICES ASSUME NEW d \in Clients \ {c}, d \in Crossing
               PROVE  ~request'[d].alone
    OBVIOUS
  <2>1. request'[d] = [request[d] EXCEPT !.alone = FALSE] BY <1>4
  <2>2. request[d] \in Requests BY DEF SessionsTypes
  <2> QED BY <2>1, <2>2 DEF Requests
<1>8. request' \in [Clients -> Requests] BY <1>1, <1>2, <1>3, <1>6
<1>9. AloneIsAlone'
  <2> SUFFICES ASSUME NEW d \in Clients, NEW e \in Clients, d # e,
                      request'[d].pc # "idle", request'[d].alone,
                      request'[e].pc # "idle", request'[e].about = request'[d].about
               PROVE  FALSE
    BY DEF AloneIsAlone
  <2>1. CASE d = c
    <3>1. mine.alone BY <1>3, <2>1
    <3>2. Crossing = {} BY <1>2, <3>1
    <3>3. e \in Crossing BY <1>2, <1>3, <1>6, <2>1
    <3> QED BY <3>2, <3>3
  <2>2. CASE e = c BY <1>2, <1>3, <1>6, <1>7, <2>2
  <2>3. CASE d # c /\ e # c BY <1>6, <2>3 DEF AloneIsAlone
  <2> QED BY <2>1, <2>2, <2>3
<1> QED BY <1>2, <1>3, <1>5, <1>7, <1>8, <1>9

\* A request that goes on, or ends.
LEMMA AdvanceKeeps ==
  ASSUME SessionsTypes, AloneIsAlone, NEW c \in Clients, NEW new \in Requests,
         request' = [request EXCEPT ![c] = new],
         \/ new.pc = "idle"
         \/ /\ request[c].pc # "idle"
            /\ new.about = request[c].about
            /\ new.alone = request[c].alone
  PROVE  /\ request' \in [Clients -> Requests]
         /\ OthersGoOn(c)
         /\ AloneIsAlone'
         /\ request'[c] = new
         /\ \A d \in Clients \ {c} : request'[d] = request[d]
<1>1. /\ request' \in [Clients -> Requests]
      /\ request'[c] = new
      /\ \A d \in Clients \ {c} : request'[d] = request[d]
  BY DEF SessionsTypes
<1>2. AloneIsAlone' BY <1>1 DEF AloneIsAlone
<1> QED BY <1>1, <1>2 DEF OthersGoOn

LEMMA EndKeeps ==
  ASSUME SessionsTypes, AloneIsAlone, NEW c \in Clients, End(c)
  PROVE  /\ request' \in [Clients -> Requests]
         /\ OthersGoOn(c)
         /\ AloneIsAlone'
         /\ request'[c] = NoRequest
         /\ \A d \in Clients \ {c} : request'[d] = request[d]
<1>1. NoRequest.pc = "idle" BY DEF NoRequest
<1> QED BY <1>1, NoRequestType, AdvanceKeeps DEF End

\* A request under way of each kind, with its work, and of which kind it is.
LEMMA RequestKinds ==
  ASSUME SessionsInv, NEW c \in Clients
  PROVE  /\ request[c] \in Requests
         /\ request[c].op = "none" => request[c].pc = "idle"
         /\ request[c].op = "plan" => PlanWork(request[c])
         /\ request[c].op = "run" => RunWork(request[c])
         /\ request[c].op = "decide" => DecideWork(request[c])
         /\ request[c].pc = "idle" => request[c].op = "none"
         /\ request[c].pc \in {"insert", "planned"} => request[c].op = "plan"
         /\ request[c].pc \in {"list", "propose", "waiting_approval", "completed"}
              => request[c].op = "run"
         /\ request[c].pc = "log" => request[c].op = "decide"
<1>1. SessionsTypes /\ Work BY DEF SessionsInv
<1>2. /\ request[c] \in Requests
      /\ request[c].op = "none" => request[c].pc = "idle"
      /\ request[c].op = "plan" => PlanWork(request[c])
      /\ request[c].op = "run" => RunWork(request[c])
      /\ request[c].op = "decide" => DecideWork(request[c])
  BY <1>1 DEF SessionsTypes, Work
<1>3. request[c].op \in {"none", "plan", "run", "decide"} BY <1>2 DEF Requests
<1> QED BY <1>2, <1>3 DEF PlanWork, RunWork, DecideWork

\* Everyone who works on the newest plan of a session goes on with it, and no
\* step is lost.
LEMMA NewestKept ==
  ASSUME SessionsInv, NEW s \in Ids, newest'[s] = newest[s], steps[s] \subseteq steps'[s],
         \A d \in Clients :
           Under(d, "plan", s) /\ request[d].plan = newest[s] =>
             /\ request'[d].op = "plan" /\ request'[d].about = s
             /\ request'[d].plan = newest[s],
         \A d \in Clients : Under(d, "plan", s)' => request'[d].plan # newest'[s]
  PROVE  StepsOf(newest'[s]) \subseteq steps'[s]
<1>1. \A d \in Clients : Under(d, "plan", s) => request[d].plan # newest[s]
  BY DEF Under
<1>2. StepsOf(newest[s]) \subseteq steps[s]
  BY <1>1 DEF SessionsInv, NewestPlanIsWhole
<1> QED BY <1>2

LEMMA SessionsInitInv == SessionsInit => SessionsInv
<1> SUFFICES ASSUME SessionsInit PROVE SessionsInv OBVIOUS
<1>1. NoPlan \in PlanRecords /\ StepsOf(NoPlan) = {}
  BY DEF NoPlan, PlanRecords, StepsOf
<1>2. SessionsTypes
  BY <1>1, NoRequestType DEF SessionsInit, SessionsTypes, Steps
<1>3. Work /\ AloneIsAlone
  BY DEF SessionsInit, NoRequest, Work, AloneIsAlone
<1>4. WaitingHasProposal BY DEF SessionsInit, WaitingHasProposal, Ids
<1>5. NewestPlanIsWhole
  BY <1>1 DEF SessionsInit, NewestPlanIsWhole
<1> QED BY <1>2, <1>3, <1>4, <1>5 DEF SessionsInv

LEMMA CreateSessionInv ==
  ASSUME SessionsInv, NEW c \in Clients, NEW s \in Ids, CreateSession(c, s)
  PROVE  SessionsInv'
<1>1. /\ UNCHANGED <<steps, proposals, decisions, request, cuts, newest>>
      /\ requests' = requests + 1
      /\ session' = [session EXCEPT ![s] = "draft"]
  BY DEF CreateSession, Begins
<1>2. SessionsTypes /\ Work /\ AloneIsAlone /\ WaitingHasProposal /\ NewestPlanIsWhole
  BY DEF SessionsInv
<1>3. SessionsTypes' BY <1>1, <1>2 DEF SessionsTypes, States
<1>4. Work'
  <2>1. OthersGoOn(c) BY <1>1 DEF OthersGoOn
  <2>2. DataStays BY <1>1, <1>2 DEF DataStays, SessionsTypes
  <2>3. \A d \in Clients : request[d].op = "decide" => request[d].about \in 1 .. Len(proposals)
    BY RequestKinds DEF DecideWork
  <2>4. \A d \in Clients : Undisturbed(d) BY <1>1, <2>3, NobodyDisturbed
  <2>5. request[c].pc = "idle" /\ request[c].op = "none"
    BY RequestKinds DEF CreateSession, Begins
  <2> QED BY <1>1, <2>1, <2>2, <2>4, <2>5, AllWork
<1>5. AloneIsAlone' BY <1>1, <1>2 DEF AloneIsAlone
<1>6. WaitingHasProposal'
  BY <1>1, <1>2 DEF WaitingHasProposal, SessionsTypes, Ids
<1>7. NewestPlanIsWhole' BY <1>1, <1>2 DEF NewestPlanIsWhole, Under
<1> QED BY <1>3, <1>4, <1>5, <1>6, <1>7 DEF SessionsInv

LEMMA DeleteStepsInv ==
  ASSUME SessionsInv, NEW c \in Clients, NEW s \in Ids, NEW size \in PlanSizes,
         DeleteSteps(c, s, size)
  PROVE  SessionsInv'
<1> DEFINE plan == [plan |-> requests + 1, size |-> size]
           begun == [NoRequest EXCEPT !.pc = "insert", !.op = "plan",
                                      !.about = s, !.plan = plan]
<1>1. /\ request[c].pc = "idle"
      /\ requests' = requests + 1
      /\ steps' = [steps EXCEPT ![s] = {}]
      /\ Start(c, begun)
      /\ newest' = [newest EXCEPT ![s] = plan]
      /\ UNCHANGED <<session, proposals, decisions, cuts>>
  BY DEF DeleteSteps, Begins
<1>2. SessionsTypes /\ Work /\ AloneIsAlone /\ WaitingHasProposal /\ NewestPlanIsWhole
  BY DEF SessionsInv
<1>3. requests \in Nat /\ size \in Nat /\ size >= 1
  BY <1>2, SessionsAssumption DEF SessionsTypes
<1>4. plan \in PlanRecords /\ plan.plan = requests + 1 /\ plan.size = size
  BY <1>3 DEF PlanRecords
<1> HIDE DEF plan
<1>5. /\ begun \in Requests /\ begun.pc = "insert" /\ begun.op = "plan"
      /\ begun.about = s /\ begun.plan = plan /\ begun.done = 0
  BY <1>4, NoRequestType DEF NoRequest, Requests
<1> HIDE DEF begun
<1>6. /\ request' \in [Clients -> Requests]
      /\ OthersGoOn(c)
      /\ AloneIsAlone'
      /\ \A d \in Clients \ {c} :
           request'[d].alone /\ request[d].pc # "idle" => request[d].about # s
      /\ request'[c].pc = "insert" /\ request'[c].op = "plan" /\ request'[c].about = s
      /\ request'[c].plan = plan /\ request'[c].done = 0
  BY <1>1, <1>2, <1>5, StartKeeps
<1>7. SessionsTypes'
  BY <1>1, <1>2, <1>3, <1>4, <1>6 DEF SessionsTypes
<1>8. Work'
  <2>1. DataStays BY <1>1, <1>2 DEF DataStays, SessionsTypes
  <2>2. ASSUME NEW d \in Clients \ {c} PROVE Undisturbed(d)
    <3>1. CASE request[d].op = "plan"
      <4>1. request[d].about \in Ids /\ request[d].plan.plan <= requests
            /\ request[d].pc # "idle" /\ request[d].plan.plan \in Nat
        BY <3>1, RequestKinds DEF PlanWork, Requests, PlanRecords
      <4>2. request[d].plan # plan BY <1>3, <1>4, <4>1
      <4> QED BY <1>1, <1>2, <1>6, <3>1, <4>1, <4>2 DEF Undisturbed, SessionsTypes
    <3>2. CASE request[d].op = "run"
      <4>1. request[d].about \in Ids /\ request[d].pc # "idle"
        BY <3>2, RequestKinds DEF RunWork
      <4> QED BY <1>1, <1>2, <1>6, <3>2, <4>1 DEF Undisturbed, SessionsTypes
    <3>3. CASE request[d].op \notin {"plan", "run"}
      BY <1>1, <3>3 DEF Undisturbed
    <3> QED BY <3>1, <3>2, <3>3
  <2>3. PlanWork(request[c])'
    <3>1. StepsUpTo(request'[c].plan, request'[c].done) = {} BY <1>6 DEF StepsUpTo
    <3>2. steps'[s] = {} BY <1>1, <1>2 DEF SessionsTypes
    <3>3. /\ 1 <= request'[c].plan.plan /\ request'[c].plan.plan <= requests'
          /\ request'[c].done < request'[c].plan.size
      BY <1>1, <1>3, <1>4, <1>6
    <3>4. StepsUpTo(request'[c].plan, request'[c].done) = steps'[request'[c].about]
      BY <1>6, <3>1, <3>2
    <3> QED BY <1>6, <3>3, <3>4 DEF PlanWork
  <2> QED BY <1>6, <2>1, <2>2, <2>3, AllWork
<1>9. WaitingHasProposal' BY <1>1, <1>2 DEF WaitingHasProposal
<1>10. NewestPlanIsWhole'
  <2> SUFFICES ASSUME NEW t \in Ids,
                      \A d \in Clients : Under(d, "plan", t)' => request'[d].plan # newest'[t]
               PROVE  StepsOf(newest'[t]) \subseteq steps'[t]
    BY DEF NewestPlanIsWhole
  <2>1. t # s
    <3>1. newest'[s] = plan BY <1>1, <1>2 DEF SessionsTypes
    <3> QED BY <1>6, <3>1 DEF Under
  <2>2. newest'[t] = newest[t] /\ steps'[t] = steps[t]
    BY <1>1, <1>2, <2>1 DEF SessionsTypes
  <2>3. request[c].op = "none" BY <1>1, RequestKinds
  <2>4. \A d \in Clients :
          Under(d, "plan", t) /\ request[d].plan = newest[t] =>
            /\ request'[d].op = "plan" /\ request'[d].about = t
            /\ request'[d].plan = newest[t]
    BY <1>2, <1>6, <2>3, OthersFields DEF Under
  <2> QED BY <2>2, <2>4, NewestKept
<1> QED BY <1>6, <1>7, <1>8, <1>9, <1>10 DEF SessionsInv

LEMMA InsertStepInv ==
  ASSUME SessionsInv, NEW c \in Clients, InsertStep(c)
  PROVE  SessionsInv'
<1> DEFINE r == request[c]
           s == request[c].about
           next == IF request[c].done + 1 = request[c].plan.size
                   THEN "planned" ELSE "insert"
           done == request[c].done + 1
           new == [r EXCEPT !.done = done, !.pc = next]
<1>1. /\ request[c].pc = "insert"
      /\ steps' = [steps EXCEPT ![s] = steps[s] \union {<<r.plan.plan, r.done + 1>>}]
      /\ UNCHANGED <<session, proposals, decisions, requests, cuts, newest>>
  BY DEF InsertStep
<1>2. SessionsTypes /\ Work /\ AloneIsAlone /\ WaitingHasProposal /\ NewestPlanIsWhole
  BY DEF SessionsInv
<1>3. r \in Requests /\ r.op = "plan" /\ PlanWork(r) /\ s \in Ids
      /\ r.done \in Nat /\ r.done < r.plan.size /\ r.plan.size \in Nat
      /\ r.plan.plan \in Nat
  BY <1>1, RequestKinds DEF PlanWork, Requests, PlanRecords
<1>4. request' = [request EXCEPT ![c] = new]
  BY <1>2 DEF InsertStep, SessionsTypes
<1>5. /\ new \in Requests
      /\ new.pc = (IF r.done + 1 = r.plan.size THEN "planned" ELSE "insert")
      /\ new.done = r.done + 1
      /\ new.op = "plan" /\ new.about = s /\ new.plan = r.plan /\ new.alone = r.alone
  <2>1. next \in {"planned", "insert"} OBVIOUS
  <2>2. new \in Requests /\ new.pc = next /\ new.done = r.done + 1 /\ new.op = r.op
        /\ new.about = s /\ new.plan = r.plan /\ new.alone = r.alone
    <3>1. done \in Nat /\ r \in Requests /\ r.about = s BY <1>3
    <3> HIDE DEF next, done, r, s
    <3>2. new \in Requests BY <2>1, <3>1 DEF Requests
    <3>3. /\ new.pc = next /\ new.done = done /\ new.op = r.op
          /\ new.about = r.about /\ new.plan = r.plan /\ new.alone = r.alone
      BY <3>1 DEF Requests
    <3> QED BY <3>1, <3>2, <3>3 DEF done, r
  <2> QED BY <1>3, <2>2
<1> HIDE DEF new, next, done, r, s
<1>6. /\ request' \in [Clients -> Requests]
      /\ OthersGoOn(c)
      /\ AloneIsAlone'
      /\ request'[c] = new
      /\ \A d \in Clients \ {c} : request'[d] = request[d]
  BY <1>1, <1>2, <1>4, <1>5, AdvanceKeeps DEF r, s
<1>7. <<r.plan.plan, r.done + 1>> \in Steps BY <1>3 DEF Steps
<1>8. /\ steps' \in [Ids -> SUBSET Steps]
      /\ steps'[s] = steps[s] \union {<<r.plan.plan, r.done + 1>>}
      /\ \A t \in Ids \ {s} : steps'[t] = steps[t]
  BY <1>1, <1>2, <1>3, <1>7 DEF SessionsTypes
<1>9. SessionsTypes' BY <1>1, <1>2, <1>6, <1>8 DEF SessionsTypes
<1>10. StepsUpTo(r.plan, r.done + 1)
         = StepsUpTo(r.plan, r.done) \union {<<r.plan.plan, r.done + 1>>}
  <2>1. 1 .. r.done + 1 = (1 .. r.done) \union {r.done + 1} BY <1>3
  <2> QED BY <2>1 DEF StepsUpTo
<1>11. Work'
  <2>1. DataStays BY <1>1, <1>2 DEF DataStays, SessionsTypes
  <2>2. ASSUME NEW d \in Clients \ {c} PROVE Undisturbed(d)
    <3>1. CASE request[d].op \in {"plan", "run"}
      <4>1. request[d].about \in Ids /\ request[d].pc # "idle"
        BY <3>1, RequestKinds DEF PlanWork, RunWork
      <4>2. request[d].alone => request[d].about # s
        BY <1>1, <1>2, <4>1 DEF AloneIsAlone, s
      <4> QED BY <1>1, <1>6, <1>8, <3>1, <4>1, <4>2 DEF Undisturbed
    <3>2. CASE request[d].op \notin {"plan", "run"}
      BY <1>1, <3>2 DEF Undisturbed
    <3> QED BY <3>1, <3>2
  <2>3. PlanWork(request[c])'
    <3>1. new.pc = "insert" => new.done < new.plan.size BY <1>3, <1>5
    <3>2. new.pc = "planned" => new.done = new.plan.size BY <1>3, <1>5
    <3>3. newest[s] = r.plan => StepsUpTo(new.plan, new.done) \subseteq steps'[s]
      BY <1>3, <1>5, <1>8, <1>10 DEF PlanWork, r, s
    <3>4. new.alone => steps'[s] = StepsUpTo(new.plan, new.done)
      BY <1>3, <1>5, <1>8, <1>10 DEF PlanWork, r, s
    <3>5. new.pc \in {"insert", "planned"} BY <1>5
    <3>6. 1 <= new.plan.plan /\ new.plan.plan <= requests
      BY <1>3, <1>5 DEF PlanWork
    <3> QED
      BY <1>1, <1>3, <1>5, <1>6, <3>1, <3>2, <3>3, <3>4, <3>5, <3>6 DEF PlanWork
  <2> QED BY <1>5, <1>6, <2>1, <2>2, <2>3, AllWork
<1>12. WaitingHasProposal' BY <1>1, <1>2 DEF WaitingHasProposal
<1>13. NewestPlanIsWhole'
  <2> SUFFICES ASSUME NEW t \in Ids,
                      \A d \in Clients : Under(d, "plan", t)' => request'[d].plan # newest'[t]
               PROVE  StepsOf(newest'[t]) \subseteq steps'[t]
    BY DEF NewestPlanIsWhole
  <2>1. newest'[t] = newest[t] /\ steps[t] \subseteq steps'[t] BY <1>1, <1>8
  <2>2. \A d \in Clients :
          Under(d, "plan", t) /\ request[d].plan = newest[t] =>
            /\ request'[d].op = "plan" /\ request'[d].about = t
            /\ request'[d].plan = newest[t]
    BY <1>5, <1>6 DEF Under, r, s
  <2> QED BY <2>1, <2>2, NewestKept
<1> QED BY <1>6, <1>9, <1>11, <1>12, <1>13 DEF SessionsInv

\* A request that ends does no more work, and if it was a plan the newest one
\* is whole.
LEMMA EndWork ==
  ASSUME SessionsInv, NEW c \in Clients, End(c), DataStays,
         UNCHANGED <<steps, newest>>,
         request[c].op = "plan" => request[c].pc = "planned",
         \A i \in 1 .. Len(proposals) : proposals'[i].state = proposals[i].state
  PROVE  /\ Work'
         /\ NewestPlanIsWhole'
<1>1. /\ OthersGoOn(c)
      /\ request'[c] = NoRequest
      /\ \A d \in Clients \ {c} : request'[d] = request[d]
  BY EndKeeps DEF SessionsInv
<1>2. NoRequest.op = "none" /\ NoRequest.pc = "idle" BY DEF NoRequest
<1>3. \A d \in Clients : request[d].op = "decide" => request[d].about \in 1 .. Len(proposals)
  BY RequestKinds DEF DecideWork
<1>4. Work' BY <1>1, <1>2, <1>3, NobodyDisturbed, AllWork
<1>5. NewestPlanIsWhole'
  <2> SUFFICES ASSUME NEW s \in Ids,
                      \A d \in Clients : Under(d, "plan", s)' => request'[d].plan # newest[s]
               PROVE  StepsOf(newest[s]) \subseteq steps[s]
    BY DEF NewestPlanIsWhole
  <2>1. CASE Under(c, "plan", s) /\ request[c].plan = newest[s]
    <3>1. PlanWork(request[c]) /\ request[c].pc = "planned"
      BY <2>1, RequestKinds DEF Under
    <3>2. StepsUpTo(newest[s], newest[s].size) \subseteq steps[s]
      BY <2>1, <3>1 DEF PlanWork, Under
    <3> QED BY <3>2 DEF StepsUpTo, StepsOf
  <2>2. CASE ~(Under(c, "plan", s) /\ request[c].plan = newest[s])
    <3>1. \A d \in Clients : Under(d, "plan", s) => request[d].plan # newest[s]
      BY <1>1, <2>2 DEF Under
    <3> QED BY <3>1 DEF SessionsInv, NewestPlanIsWhole
  <2> QED BY <2>1, <2>2
<1> QED BY <1>4, <1>5

\* A state that is set.
LEMMA SetStateKeeps ==
  ASSUME SessionsTypes, NEW s \in Ids, NEW state \in States, SetState(s, state)
  PROVE  /\ session' \in [Ids -> States \union {"none"}]
         /\ \A t \in Ids : session[t] # "none" => session'[t] # "none"
         /\ \A t \in Ids : session'[t] # session[t] => t = s /\ session'[t] = state
         /\ session'[s] = (IF session[s] = "none" THEN "none" ELSE state)
BY DEF SessionsTypes, SetState, States

LEMMA SetPlannedInv ==
  ASSUME SessionsInv, NEW c \in Clients, SetPlanned(c)
  PROVE  SessionsInv'
<1>1. /\ request[c].pc = "planned"
      /\ SetState(request[c].about, "planned")
      /\ End(c)
      /\ UNCHANGED <<steps, proposals, decisions, requests, cuts, newest>>
  BY DEF SetPlanned
<1>2. SessionsTypes /\ AloneIsAlone /\ WaitingHasProposal BY DEF SessionsInv
<1>3. request[c].op = "plan" /\ request[c].about \in Ids
  BY <1>1, RequestKinds DEF PlanWork
<1>4. "planned" \in States BY DEF States
<1>5. /\ session' \in [Ids -> States \union {"none"}]
      /\ \A t \in Ids : session[t] # "none" => session'[t] # "none"
      /\ \A t \in Ids : session'[t] # session[t] => session'[t] = "planned"
  BY <1>1, <1>2, <1>3, <1>4, SetStateKeeps
<1>6. request' \in [Clients -> Requests] /\ AloneIsAlone' BY <1>1, <1>2, EndKeeps
<1>7. SessionsTypes' BY <1>1, <1>2, <1>5, <1>6 DEF SessionsTypes
<1>8. DataStays BY <1>1, <1>2, <1>5 DEF DataStays, SessionsTypes
<1>9. Work' /\ NewestPlanIsWhole' BY <1>1, <1>8, EndWork
<1>10. WaitingHasProposal'
  BY <1>1, <1>2, <1>5 DEF WaitingHasProposal, Ids
<1> QED BY <1>6, <1>7, <1>9, <1>10 DEF SessionsInv

LEMMA SetRunningInv ==
  ASSUME SessionsInv, NEW c \in Clients, NEW s \in Ids, SetRunning(c, s)
  PROVE  SessionsInv'
<1> DEFINE begun == [NoRequest EXCEPT !.pc = "list", !.op = "run", !.about = s]
<1>1. /\ request[c].pc = "idle"
      /\ requests' = requests + 1
      /\ SetState(s, "running")
      /\ session[s] = "none" => UNCHANGED request
      /\ session[s] # "none" => Start(c, begun)
      /\ UNCHANGED <<steps, proposals, decisions, cuts, newest>>
  BY DEF SetRunning, Begins
<1>2. SessionsTypes /\ AloneIsAlone /\ WaitingHasProposal /\ NewestPlanIsWhole
  BY DEF SessionsInv
<1>3. "running" \in States BY DEF States
<1>4. /\ session' \in [Ids -> States \union {"none"}]
      /\ \A t \in Ids : session[t] # "none" => session'[t] # "none"
      /\ \A t \in Ids : session'[t] # session[t] => session'[t] = "running"
  BY <1>1, <1>2, <1>3, SetStateKeeps
<1>5. /\ begun \in Requests /\ begun.pc = "list" /\ begun.op = "run" /\ begun.about = s
  BY NoRequestType DEF NoRequest, Requests
<1> HIDE DEF begun
<1>6. request[c].op = "none" BY <1>1, RequestKinds
<1>7. /\ request' \in [Clients -> Requests]
      /\ OthersGoOn(c)
      /\ AloneIsAlone'
      /\ \/ request'[c].op = "none" /\ request'[c].pc = "idle"
         \/ /\ request'[c].op = "run" /\ request'[c].pc = "list"
            /\ request'[c].about = s /\ session[s] # "none"
  <2>1. CASE session[s] = "none"
    BY <1>1, <1>2, <1>6, <2>1 DEF OthersGoOn, SessionsTypes, AloneIsAlone
  <2>2. CASE session[s] # "none"
    BY <1>1, <1>2, <1>5, <2>2, StartKeeps
  <2> QED BY <2>1, <2>2
<1>8. SessionsTypes' BY <1>1, <1>2, <1>4, <1>7 DEF SessionsTypes
<1>9. Work'
  <2>1. DataStays BY <1>1, <1>2, <1>4 DEF DataStays, SessionsTypes
  <2>2. \A d \in Clients : request[d].op = "decide" => request[d].about \in 1 .. Len(proposals)
    BY RequestKinds DEF DecideWork
  <2>3. \A d \in Clients : Undisturbed(d) BY <1>1, <2>2, NobodyDisturbed
  <2>4. request'[c].op = "run" => RunWork(request[c])'
    BY <1>4, <1>7 DEF RunWork
  <2> QED BY <1>7, <2>1, <2>3, <2>4, AllWork
<1>10. WaitingHasProposal'
  BY <1>1, <1>2, <1>4 DEF WaitingHasProposal, Ids
<1>11. NewestPlanIsWhole'
  <2> SUFFICES ASSUME NEW t \in Ids,
                      \A d \in Clients : Under(d, "plan", t)' => request'[d].plan # newest'[t]
               PROVE  StepsOf(newest'[t]) \subseteq steps'[t]
    BY DEF NewestPlanIsWhole
  <2>1. \A d \in Clients :
          Under(d, "plan", t) /\ request[d].plan = newest[t] =>
            /\ request'[d].op = "plan" /\ request'[d].about = t
            /\ request'[d].plan = newest[t]
    BY <1>2, <1>6, <1>7, OthersFields DEF Under
  <2> QED BY <1>1, <2>1, NewestKept
<1> QED BY <1>7, <1>8, <1>9, <1>10, <1>11 DEF SessionsInv

\* A run that goes on with the data as it is, or with one more proposal.
LEMMA RunGoesOn ==
  ASSUME SessionsInv, NEW c \in Clients, NEW new \in Requests,
         request' = [request EXCEPT ![c] = new],
         request[c].op = "run", new.op = "run",
         new.about = request[c].about, new.alone = request[c].alone,
         UNCHANGED <<session, steps, decisions, requests, cuts, newest>>,
         DataStays, proposals' \in Seq(Proposals),
         \A i \in 1 .. Len(proposals) : proposals'[i].state = proposals[i].state,
         RunWork(request[c])'
  PROVE  SessionsInv'
<1>1. SessionsTypes /\ AloneIsAlone /\ WaitingHasProposal /\ NewestPlanIsWhole
  BY DEF SessionsInv
<1>2. request[c].pc # "idle" BY RequestKinds
<1>3. /\ request' \in [Clients -> Requests]
      /\ OthersGoOn(c)
      /\ AloneIsAlone'
      /\ request'[c] = new
      /\ \A d \in Clients \ {c} : request'[d] = request[d]
  BY <1>1, <1>2, AdvanceKeeps
<1>4. SessionsTypes' BY <1>1, <1>3 DEF SessionsTypes
<1>5. Work'
  <2>1. \A d \in Clients : request[d].op = "decide" => request[d].about \in 1 .. Len(proposals)
    BY RequestKinds DEF DecideWork
  <2>2. \A d \in Clients : Undisturbed(d) BY <2>1, NobodyDisturbed
  <2> QED BY <1>3, <2>2, AllWork
<1>6. WaitingHasProposal'
  <2>1. Len(proposals) \in Nat /\ Len(proposals') \in Nat
    BY <1>1 DEF SessionsTypes
  <2> QED BY <1>1, <2>1 DEF WaitingHasProposal, DataStays
<1>7. NewestPlanIsWhole'
  BY <1>1, <1>3 DEF NewestPlanIsWhole, Under
<1> QED BY <1>3, <1>4, <1>5, <1>6, <1>7 DEF SessionsInv

LEMMA ListStepsInv ==
  ASSUME SessionsInv, NEW c \in Clients, ListSteps(c)
  PROVE  SessionsInv'
<1> DEFINE r == request[c]
<1>1. r.pc = "list" /\ UNCHANGED <<sessionsData, requests, cuts, newest>>
  BY DEF ListSteps
<1>2. r.op = "run" /\ RunWork(r) /\ r \in Requests BY <1>1, RequestKinds
<1>3. SessionsTypes BY DEF SessionsInv
<1>4. DataStays BY <1>1, <1>3 DEF DataStays, SessionsTypes, sessionsData
<1>5. CASE steps[r.about] = {}
  <2> DEFINE new == [r EXCEPT !.pc = "completed"]
  <2>1. request' = [request EXCEPT ![c] = new] BY <1>5 DEF ListSteps
  <2>2. /\ new \in Requests /\ new.pc = "completed" /\ new.op = "run"
        /\ new.about = r.about /\ new.alone = r.alone
    BY <1>2 DEF Requests
  <2> HIDE DEF new
  <2>3. request'[c] = new BY <1>3, <2>1 DEF SessionsTypes
  <2>4. RunWork(request[c])'
    BY <1>1, <1>2, <1>5, <2>2, <2>3 DEF RunWork, sessionsData
  <2> QED BY <1>1, <1>2, <1>3, <1>4, <2>1, <2>2, <2>4, RunGoesOn
          DEF sessionsData, SessionsTypes
<1>6. CASE steps[r.about] # {}
  <2>1. PICK first \in steps[r.about] :
          request' = [request EXCEPT ![c].pc = "propose", ![c].step = first]
    BY <1>6 DEF ListSteps
  <2> DEFINE new == [r EXCEPT !.pc = "propose", !.step = first]
  <2>2. request' = [request EXCEPT ![c] = new] BY <1>3, <2>1 DEF SessionsTypes
  <2>3. first \in Steps BY <1>2, <1>3 DEF RunWork, SessionsTypes
  <2>4. /\ new \in Requests /\ new.pc = "propose" /\ new.op = "run" /\ new.step = first
        /\ new.about = r.about /\ new.alone = r.alone
    BY <1>2, <2>3 DEF Requests
  <2> HIDE DEF new
  <2>5. request'[c] = new BY <1>3, <2>2 DEF SessionsTypes
  <2>6. RunWork(request[c])'
    BY <1>1, <1>2, <2>1, <2>4, <2>5 DEF RunWork, sessionsData
  <2> QED BY <1>1, <1>2, <1>3, <1>4, <2>2, <2>4, <2>6, RunGoesOn
          DEF sessionsData, SessionsTypes
<1> QED BY <1>5, <1>6

LEMMA ProposeActionInv ==
  ASSUME SessionsInv, NEW c \in Clients, ProposeAction(c)
  PROVE  SessionsInv'
<1> DEFINE r == request[c]
           new == [r EXCEPT !.pc = "waiting_approval"]
           proposal == [session |-> r.about, step |-> r.step, state |-> "pending_approval"]
<1>1. /\ r.pc = "propose"
      /\ proposals' = Append(proposals, proposal)
      /\ request' = [request EXCEPT ![c] = new]
      /\ UNCHANGED <<session, steps, decisions, requests, cuts, newest>>
  BY DEF ProposeAction
<1>2. r.op = "run" /\ RunWork(r) /\ r \in Requests BY <1>1, RequestKinds
<1>3. SessionsTypes BY DEF SessionsInv
<1>4. /\ new \in Requests /\ new.pc = "waiting_approval" /\ new.op = "run"
      /\ new.about = r.about /\ new.alone = r.alone /\ new.step = r.step
  BY <1>2 DEF Requests
<1>5. /\ proposal \in Proposals
      /\ proposal.session = r.about /\ proposal.step = r.step
  BY <1>2 DEF Proposals, Requests, RunWork
<1> HIDE DEF new, proposal
<1>6. /\ proposals \in Seq(Proposals)
      /\ proposals' \in Seq(Proposals)
      /\ Len(proposals) \in Nat
      /\ Len(proposals') = Len(proposals) + 1
      /\ \A i \in 1 .. Len(proposals) : proposals'[i] = proposals[i]
      /\ proposals'[Len(proposals) + 1] = proposal
  BY <1>1, <1>3, <1>5 DEF SessionsTypes
<1>7. DataStays BY <1>1, <1>3, <1>6 DEF DataStays, SessionsTypes
<1>8. request'[c] = new BY <1>1, <1>3 DEF SessionsTypes
<1>9. \E i \in 1 .. Len(proposals') :
        proposals'[i].session = new.about /\ proposals'[i].step = new.step
  BY <1>4, <1>5, <1>6
<1>10. RunWork(request[c])'
  BY <1>1, <1>2, <1>4, <1>8, <1>9 DEF RunWork
<1> QED BY <1>1, <1>2, <1>4, <1>6, <1>7, <1>10, RunGoesOn

LEMMA SetOutcomeInv ==
  ASSUME SessionsInv, NEW c \in Clients, SetOutcome(c)
  PROVE  SessionsInv'
<1> DEFINE r == request[c]
<1>1. /\ r.pc \in {"waiting_approval", "completed"}
      /\ SetState(r.about, r.pc)
      /\ End(c)
      /\ UNCHANGED <<steps, proposals, decisions, requests, cuts, newest>>
  BY DEF SetOutcome
<1>2. SessionsTypes /\ AloneIsAlone /\ WaitingHasProposal BY DEF SessionsInv
<1>3. r.op = "run" /\ RunWork(r) /\ r.about \in Ids
  BY <1>1, RequestKinds DEF RunWork
<1>4. r.pc \in States BY <1>1 DEF States
<1>5. /\ session' \in [Ids -> States \union {"none"}]
      /\ \A t \in Ids : session[t] # "none" => session'[t] # "none"
      /\ \A t \in Ids : session'[t] # session[t] => t = r.about /\ session'[t] = r.pc
  BY <1>1, <1>2, <1>3, <1>4, SetStateKeeps
<1>6. request' \in [Clients -> Requests] /\ AloneIsAlone' BY <1>1, <1>2, EndKeeps
<1>7. SessionsTypes' BY <1>1, <1>2, <1>5, <1>6 DEF SessionsTypes
<1>8. DataStays BY <1>1, <1>2, <1>5 DEF DataStays, SessionsTypes
<1>9. Work' /\ NewestPlanIsWhole' BY <1>1, <1>3, <1>8, EndWork
<1>10. WaitingHasProposal'
  <2> SUFFICES ASSUME NEW t \in Sessions, session'[t] = "waiting_approval"
               PROVE  \E i \in 1 .. Len(proposals) : proposals[i].session = t
    BY <1>1 DEF WaitingHasProposal
  <2>1. CASE session'[t] = session[t] BY <1>2, <2>1 DEF WaitingHasProposal
  <2>2. CASE session'[t] # session[t]
    <3>1. t = r.about /\ r.pc = "waiting_approval" BY <1>5, <2>2 DEF Ids
    <3> QED BY <1>3, <3>1 DEF RunWork
  <2> QED BY <2>1, <2>2
<1> QED BY <1>6, <1>7, <1>9, <1>10 DEF SessionsInv

LEMMA DecideInv ==
  ASSUME SessionsInv, NEW c \in Clients, NEW i \in 1 .. Len(proposals),
         NEW decision \in Decisions, Decide(c, i, decision)
  PROVE  SessionsInv'
<1> DEFINE begun == [NoRequest EXCEPT !.pc = "log", !.op = "decide", !.about = i,
                                      !.decision = decision]
           decided == [proposals[i] EXCEPT !.state = decision]
<1>1. /\ request[c].pc = "idle"
      /\ requests' = requests + 1
      /\ proposals' = [proposals EXCEPT ![i] = decided]
      /\ Start(c, begun)
      /\ UNCHANGED <<session, steps, decisions, cuts, newest>>
  BY DEF Decide, Begins
<1>2. SessionsTypes /\ AloneIsAlone /\ WaitingHasProposal /\ NewestPlanIsWhole
  BY DEF SessionsInv
<1>3. Len(proposals) \in Nat /\ proposals[i] \in Proposals /\ i \in Nat
  BY <1>2 DEF SessionsTypes
<1>4. /\ decided \in Proposals /\ decided.state = decision
      /\ decided.session = proposals[i].session /\ decided.step = proposals[i].step
  BY <1>3 DEF Proposals
<1>5. /\ begun \in Requests /\ begun.pc = "log" /\ begun.op = "decide"
      /\ begun.about = i /\ begun.decision = decision
  BY <1>3, NoRequestType DEF NoRequest, Requests
<1> HIDE DEF begun, decided
<1>6. /\ request' \in [Clients -> Requests]
      /\ OthersGoOn(c)
      /\ AloneIsAlone'
      /\ \A d \in Clients \ {c} :
           request'[d].alone /\ request[d].pc # "idle" => request[d].about # i
      /\ request'[c].pc = "log" /\ request'[c].op = "decide" /\ request'[c].about = i
      /\ request'[c].decision = decision
  BY <1>1, <1>2, <1>5, StartKeeps
<1>7. /\ proposals' \in Seq(Proposals)
      /\ Len(proposals') = Len(proposals)
      /\ proposals'[i] = decided
      /\ \A k \in 1 .. Len(proposals) : k # i => proposals'[k] = proposals[k]
  BY <1>1, <1>2, <1>4 DEF SessionsTypes
<1>8. SessionsTypes' BY <1>1, <1>2, <1>6, <1>7 DEF SessionsTypes
<1>9. DataStays
  BY <1>1, <1>2, <1>3, <1>4, <1>7 DEF DataStays, SessionsTypes
<1>10. Work'
  <2>1. ASSUME NEW d \in Clients \ {c} PROVE Undisturbed(d)
    <3>1. CASE request[d].op = "decide"
      <4>1. request[d].about \in 1 .. Len(proposals) /\ request[d].pc # "idle"
        BY <3>1, RequestKinds DEF DecideWork
      <4> QED BY <1>6, <1>7, <3>1, <4>1 DEF Undisturbed
    <3>2. CASE request[d].op # "decide" BY <1>1, <3>2 DEF Undisturbed
    <3> QED BY <3>1, <3>2
  <2>2. DecideWork(request[c])' BY <1>4, <1>6, <1>7 DEF DecideWork
  <2> QED BY <1>6, <1>9, <2>1, <2>2, AllWork
<1>11. WaitingHasProposal'
  BY <1>1, <1>2, <1>7, <1>9 DEF WaitingHasProposal, DataStays
<1>12. NewestPlanIsWhole'
  <2> SUFFICES ASSUME NEW t \in Ids,
                      \A d \in Clients : Under(d, "plan", t)' => request'[d].plan # newest'[t]
               PROVE  StepsOf(newest'[t]) \subseteq steps'[t]
    BY DEF NewestPlanIsWhole
  <2>1. request[c].op = "none" BY <1>1, RequestKinds
  <2>2. \A d \in Clients :
          Under(d, "plan", t) /\ request[d].plan = newest[t] =>
            /\ request'[d].op = "plan" /\ request'[d].about = t
            /\ request'[d].plan = newest[t]
    BY <1>2, <1>6, <2>1, OthersFields DEF Under
  <2> QED BY <1>1, <2>2, NewestKept
<1> QED BY <1>6, <1>8, <1>10, <1>11, <1>12 DEF SessionsInv

LEMMA LogDecisionInv ==
  ASSUME SessionsInv, NEW c \in Clients, LogDecision(c)
  PROVE  SessionsInv'
<1>1. /\ request[c].pc = "log"
      /\ decisions' = Append(decisions, <<request[c].about, request[c].decision>>)
      /\ End(c)
      /\ UNCHANGED <<session, steps, proposals, requests, cuts, newest>>
  BY DEF LogDecision
<1>2. SessionsTypes /\ AloneIsAlone /\ WaitingHasProposal BY DEF SessionsInv
<1>3. /\ request[c].op = "decide" /\ request[c].about \in Nat
      /\ request[c].decision \in Decisions
  BY <1>1, RequestKinds DEF DecideWork, Requests
<1>4. decisions' \in Seq(Nat \X Decisions) BY <1>1, <1>2, <1>3 DEF SessionsTypes
<1>5. request' \in [Clients -> Requests] /\ AloneIsAlone' BY <1>1, <1>2, EndKeeps
<1>6. SessionsTypes' BY <1>1, <1>2, <1>4, <1>5 DEF SessionsTypes
<1>7. DataStays BY <1>1, <1>2 DEF DataStays, SessionsTypes
<1>8. Work' /\ NewestPlanIsWhole' BY <1>1, <1>3, <1>7, EndWork
<1>9. WaitingHasProposal' BY <1>1, <1>2 DEF WaitingHasProposal
<1> QED BY <1>5, <1>6, <1>8, <1>9 DEF SessionsInv

LEMMA CutInv ==
  ASSUME SessionsInv, NEW c \in Clients, Cut(c)
  PROVE  SessionsInv'
<1> DEFINE r == request[c]
<1>1. /\ r.pc # "idle"
      /\ cuts' = cuts + 1
      /\ newest' = IF r.op = "plan" /\ newest[r.about] = r.plan
                   THEN [newest EXCEPT ![r.about] = NoPlan]
                   ELSE newest
      /\ End(c)
      /\ UNCHANGED <<session, steps, proposals, decisions, requests>>
  BY DEF Cut, sessionsData
<1>2. SessionsTypes /\ AloneIsAlone /\ WaitingHasProposal /\ NewestPlanIsWhole
  BY DEF SessionsInv
<1>3. /\ request' \in [Clients -> Requests]
      /\ OthersGoOn(c)
      /\ AloneIsAlone'
      /\ request'[c] = NoRequest
      /\ \A d \in Clients \ {c} : request'[d] = request[d]
  BY <1>1, <1>2, EndKeeps
<1>4. NoPlan \in PlanRecords /\ NoPlan.plan = 0 /\ StepsOf(NoPlan) = {}
  BY DEF NoPlan, PlanRecords, StepsOf
<1>5. /\ newest' \in [Ids -> PlanRecords]
      /\ \A s \in Ids :
           \/ newest'[s] = newest[s] /\ ~(Under(c, "plan", s) /\ newest[s] = r.plan)
           \/ newest'[s] = NoPlan
  BY <1>1, <1>2, <1>4 DEF SessionsTypes, Under
<1>6. SessionsTypes' BY <1>1, <1>2, <1>3, <1>5 DEF SessionsTypes
<1>7. DataStays BY <1>1, <1>2 DEF DataStays, SessionsTypes
<1>8. Work'
  <2>1. ASSUME NEW d \in Clients \ {c} PROVE Undisturbed(d)
    <3>1. CASE request[d].op = "plan"
      <4>1. request[d].about \in Ids /\ request[d].plan # NoPlan
        BY <1>4, <3>1, RequestKinds DEF PlanWork
      <4> QED BY <1>1, <1>5, <3>1, <4>1 DEF Undisturbed
    <3>2. CASE request[d].op # "plan" BY <1>1, <3>2 DEF Undisturbed
    <3> QED BY <3>1, <3>2
  <2>2. NoRequest.op = "none" /\ NoRequest.pc = "idle" BY DEF NoRequest
  <2> QED BY <1>3, <1>7, <2>1, <2>2, AllWork
<1>9. WaitingHasProposal' BY <1>1, <1>2 DEF WaitingHasProposal
<1>10. NewestPlanIsWhole'
  <2> SUFFICES ASSUME NEW s \in Ids,
                      \A d \in Clients : Under(d, "plan", s)' => request'[d].plan # newest'[s]
               PROVE  StepsOf(newest'[s]) \subseteq steps[s]
    BY <1>1 DEF NewestPlanIsWhole
  <2>1. CASE newest'[s] = NoPlan BY <1>4, <2>1
  <2>2. CASE newest'[s] = newest[s] /\ ~(Under(c, "plan", s) /\ newest[s] = r.plan)
    <3>1. \A d \in Clients : Under(d, "plan", s) => request[d].plan # newest[s]
      BY <1>3, <2>2 DEF Under
    <3> QED BY <1>2, <2>2, <3>1 DEF NewestPlanIsWhole
  <2> QED BY <1>5, <2>1, <2>2
<1> QED BY <1>3, <1>6, <1>8, <1>9, <1>10 DEF SessionsInv

\* Every step keeps it.
LEMMA SessionsStepInv ==
  ASSUME SessionsInv, [SessionsNext]_sessionsVars
  PROVE  SessionsInv'
<1>1. ASSUME NEW c \in Clients, NEW s \in Ids, CreateSession(c, s) \/ SetRunning(c, s)
      PROVE  SessionsInv'
  BY <1>1, CreateSessionInv, SetRunningInv
<1>2. ASSUME NEW c \in Clients, NEW s \in Ids, NEW size \in PlanSizes,
             DeleteSteps(c, s, size)
      PROVE  SessionsInv'
  BY <1>2, DeleteStepsInv
<1>3. ASSUME NEW c \in Clients, NEW i \in 1 .. Len(proposals), NEW d \in Decisions,
             Decide(c, i, d)
      PROVE  SessionsInv'
  BY <1>3, DecideInv
<1>4. ASSUME NEW c \in Clients, InsertStep(c) \/ SetPlanned(c)
      PROVE  SessionsInv'
  BY <1>4, InsertStepInv, SetPlannedInv
<1>5. ASSUME NEW c \in Clients, ListSteps(c) \/ ProposeAction(c) \/ SetOutcome(c)
      PROVE  SessionsInv'
  BY <1>5, ListStepsInv, ProposeActionInv, SetOutcomeInv
<1>6. ASSUME NEW c \in Clients, LogDecision(c) \/ Cut(c)
      PROVE  SessionsInv'
  BY <1>6, LogDecisionInv, CutInv
<1>7. CASE UNCHANGED sessionsVars
  <2>1. SessionsTypes' BY <1>7 DEF sessionsVars, sessionsData, SessionsInv, SessionsTypes
  <2>2. Work'
    BY <1>7
    DEF sessionsVars, sessionsData, SessionsInv, Work, PlanWork, RunWork, DecideWork, Under
  <2>3. AloneIsAlone' BY <1>7 DEF sessionsVars, sessionsData, SessionsInv, AloneIsAlone
  <2>4. WaitingHasProposal' /\ NewestPlanIsWhole'
    BY <1>7
    DEF sessionsVars, sessionsData, SessionsInv, WaitingHasProposal, NewestPlanIsWhole, Under
  <2> QED BY <2>1, <2>2, <2>3, <2>4 DEF SessionsInv
<1> QED BY <1>1, <1>2, <1>3, <1>4, <1>5, <1>6, <1>7 DEF SessionsNext

-----------------------------------------------------------------------------
(* The end of a request.                                                   *)

\* What a request that is not cut short, and that no other crosses, leaves.
AloneIsDoneFor(c) ==
  LET r == request[c]
  IN r.pc # "idle" /\ request'[c].pc = "idle" /\ cuts' = cuts /\ r.alone
     => CASE r.op = "plan"   -> Planned(r)
          [] r.op = "run"    -> Ran(r)
          [] r.op = "decide" -> Decided(r)

\* Who begins a request ends no other.
LEMMA StartEndsNone ==
  ASSUME SessionsInv, NEW d \in Clients, request[d].pc = "idle", NEW begun, Start(d, begun),
         NEW c \in Clients, request[c].pc # "idle"
  PROVE  request'[c].pc # "idle"
<1>1. c # d OBVIOUS
<1>2. request'[c] = request[c] \/ request'[c] = [request[c] EXCEPT !.alone = FALSE]
  BY <1>1 DEF Start
<1>3. request[c] \in Requests BY DEF SessionsInv, SessionsTypes
<1> QED BY <1>2, <1>3 DEF Requests

\* Only the last statement of a request, or its being cut short, ends it.
LEMMA EndsByItself ==
  ASSUME SessionsInv, [SessionsNext]_sessionsVars, NEW c \in Clients,
         request[c].pc # "idle", request'[c].pc = "idle", cuts' = cuts
  PROVE  SetPlanned(c) \/ SetOutcome(c) \/ LogDecision(c)
<1>1. /\ request \in [Clients -> Requests] /\ cuts \in Nat
      /\ \A d \in Clients : request[d] \in Requests
  BY DEF SessionsInv, SessionsTypes
<1>2. ASSUME NEW d \in Clients, NEW s \in Ids, CreateSession(d, s) PROVE FALSE
  BY <1>2 DEF CreateSession
<1>3. ASSUME NEW d \in Clients, NEW s \in Ids, NEW size \in PlanSizes, DeleteSteps(d, s, size)
      PROVE  FALSE
  BY <1>3, StartEndsNone DEF DeleteSteps, Begins
<1>4. ASSUME NEW d \in Clients, NEW s \in Ids, SetRunning(d, s) PROVE FALSE
  BY <1>4, StartEndsNone DEF SetRunning, Begins
<1>5. ASSUME NEW d \in Clients, NEW i \in 1 .. Len(proposals), NEW decision \in Decisions,
             Decide(d, i, decision)
      PROVE  FALSE
  BY <1>5, StartEndsNone DEF Decide, Begins
<1>6. ASSUME NEW d \in Clients, InsertStep(d) PROVE FALSE
  <2>1. CASE d = c
    <3>1. request'[c].pc = "planned" \/ request'[c].pc = "insert"
      BY <1>1, <1>6, <2>1 DEF InsertStep, Requests
    <3> QED BY <3>1
  <2>2. CASE d # c BY <1>1, <1>6, <2>2 DEF InsertStep
  <2> QED BY <2>1, <2>2
<1>7. ASSUME NEW d \in Clients, ListSteps(d) PROVE FALSE
  <2>1. CASE d = c
    <3>1. request'[c].pc = "completed" \/ request'[c].pc = "propose"
      BY <1>1, <1>7, <2>1 DEF ListSteps, Requests
    <3> QED BY <3>1
  <2>2. CASE d # c BY <1>1, <1>7, <2>2 DEF ListSteps
  <2> QED BY <2>1, <2>2
<1>8. ASSUME NEW d \in Clients, ProposeAction(d) PROVE FALSE
  <2>1. CASE d = c
    <3>1. request'[c].pc = "waiting_approval"
      BY <1>1, <1>8, <2>1 DEF ProposeAction, Requests
    <3> QED BY <3>1
  <2>2. CASE d # c BY <1>1, <1>8, <2>2 DEF ProposeAction
  <2> QED BY <2>1, <2>2
<1>9. ASSUME NEW d \in Clients, SetPlanned(d) \/ SetOutcome(d) \/ LogDecision(d)
      PROVE  d = c
  BY <1>1, <1>9 DEF SetPlanned, SetOutcome, LogDecision, End
<1>10. ASSUME NEW d \in Clients, Cut(d) PROVE FALSE
  BY <1>1, <1>10 DEF Cut
<1>11. ~UNCHANGED sessionsVars BY DEF sessionsVars
<1> QED
  BY <1>2, <1>3, <1>4, <1>5, <1>6, <1>7, <1>8, <1>9, <1>10, <1>11 DEF SessionsNext

LEMMA PlannedAlone ==
  ASSUME SessionsInv, NEW c \in Clients, SetPlanned(c), request[c].alone
  PROVE  request[c].op = "plan" /\ Planned(request[c])
<1>1. /\ request[c].pc = "planned" /\ SetState(request[c].about, "planned")
      /\ steps' = steps
  BY DEF SetPlanned
<1>2. request[c].op = "plan" /\ PlanWork(request[c]) BY <1>1, RequestKinds
<1>3. steps[request[c].about] = StepsOf(request[c].plan)
  BY <1>1, <1>2 DEF PlanWork, StepsUpTo, StepsOf
<1>4. session'[request[c].about] \in {"planned", "none"}
  BY <1>1, <1>2, SetStateKeeps DEF PlanWork, States, SessionsInv
<1> QED BY <1>1, <1>2, <1>3, <1>4 DEF Planned

LEMMA RanAlone ==
  ASSUME SessionsInv, NEW c \in Clients, SetOutcome(c), request[c].alone
  PROVE  request[c].op = "run" /\ Ran(request[c])
<1>1. /\ request[c].pc \in {"waiting_approval", "completed"}
      /\ SetState(request[c].about, request[c].pc)
      /\ steps' = steps /\ proposals' = proposals
  BY DEF SetOutcome
<1>2. request[c].op = "run" /\ RunWork(request[c]) BY <1>1, RequestKinds
<1>3. session'[request[c].about] = request[c].pc
  BY <1>1, <1>2, SetStateKeeps DEF RunWork, States, SessionsInv
<1> QED BY <1>1, <1>2, <1>3 DEF RunWork, Ran

LEMMA DecidedAlone ==
  ASSUME SessionsInv, NEW c \in Clients, LogDecision(c), request[c].alone
  PROVE  request[c].op = "decide" /\ Decided(request[c])
<1> DEFINE entry == <<request[c].about, request[c].decision>>
<1>1. /\ request[c].pc = "log"
      /\ decisions' = Append(decisions, entry)
      /\ proposals' = proposals
  BY DEF LogDecision
<1>2. /\ request[c].op = "decide" /\ DecideWork(request[c])
      /\ request[c] \in Requests
  BY <1>1, RequestKinds
<1>3. /\ decisions \in Seq(Nat \X Decisions) /\ Len(decisions) \in Nat
      /\ Len(decisions') = Len(decisions) + 1
      /\ decisions'[Len(decisions) + 1] = entry
  BY <1>1 DEF SessionsInv, SessionsTypes
<1>4. \E k \in 1 .. Len(decisions') :
        /\ decisions'[k] = entry
        /\ \A later \in k + 1 .. Len(decisions') : decisions'[later][1] # request[c].about
  <2>1. Len(decisions') \in 1 .. Len(decisions') BY <1>3
  <2>2. (Len(decisions') + 1) .. Len(decisions') = {} BY <1>3
  <2> QED BY <1>3, <2>1, <2>2
<1>5. proposals'[request[c].about].state = request[c].decision
  BY <1>1, <1>2 DEF DecideWork
<1> QED BY <1>2, <1>4, <1>5 DEF Decided

LEMMA AloneIsDoneStep ==
  ASSUME SessionsInv, [SessionsNext]_sessionsVars, NEW c \in Clients
  PROVE  AloneIsDoneFor(c)
<1> SUFFICES ASSUME request[c].pc # "idle", request'[c].pc = "idle", cuts' = cuts,
                    request[c].alone
             PROVE  CASE request[c].op = "plan"   -> Planned(request[c])
                      [] request[c].op = "run"    -> Ran(request[c])
                      [] request[c].op = "decide" -> Decided(request[c])
  BY DEF AloneIsDoneFor
<1>1. CASE SetPlanned(c) BY <1>1, PlannedAlone
<1>2. CASE SetOutcome(c) BY <1>2, RanAlone
<1>3. CASE LogDecision(c) BY <1>3, DecidedAlone
<1> QED BY <1>1, <1>2, <1>3, EndsByItself

-----------------------------------------------------------------------------
(* The theorems.                                                           *)

LEMMA SessionsKeepInv == SessionsSpec => []SessionsInv
BY SessionsInitInv, SessionsStepInv, PTL DEF SessionsSpec

\* A session that waits for an approval has something to be approved, wherever
\* runs are cut short and whatever they cross.
THEOREM WaitsForProposal == SessionsSpec => []WaitingHasProposal
<1>1. SessionsInv => WaitingHasProposal BY DEF SessionsInv
<1> QED BY <1>1, SessionsKeepInv, PTL

\* Of plans that cross, the one that deleted last is there whole in the end.
THEOREM NewestPlanStands == SessionsSpec => []NewestPlanIsWhole
<1>1. SessionsInv => NewestPlanIsWhole BY DEF SessionsInv
<1> QED BY <1>1, SessionsKeepInv, PTL

\* A request that no other crosses does what it is for, whatever requests that
\* crossed each other or were cut short had left.
THEOREM AloneDoesAll == SessionsSpec => AloneIsDone
<1>1. SessionsInv /\ [SessionsNext]_sessionsVars
        => [\A c \in Clients :
              LET r == request[c]
              IN r.pc # "idle" /\ request'[c].pc = "idle" /\ cuts' = cuts /\ r.alone
                 => CASE r.op = "plan"   -> Planned(r)
                      [] r.op = "run"    -> Ran(r)
                      [] r.op = "decide" -> Decided(r)]_sessionsVars
  BY AloneIsDoneStep DEF AloneIsDoneFor
<1> QED BY <1>1, SessionsKeepInv, PTL DEF SessionsSpec, AloneIsDone
=============================================================================
