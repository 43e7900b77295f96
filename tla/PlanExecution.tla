---------------------------- MODULE PlanExecution ---------------------------
(***************************************************************************)
(* The command line client asks the application to carry out an            *)
(* instruction (clawork-cli, nl_execute_inner).  The application makes a   *)
(* plan and takes its steps in order, all with the token of the request;   *)
(* a step that needs a confirmation ends the request, and the client       *)
(* confirms the token it is given and asks for the whole plan once more.   *)
(* The gate each step goes through is ActionGate; here it is one decision. *)
(***************************************************************************)
EXTENDS Integers, Sequences

CONSTANTS
  Plans,      \* plans: sequences of kinds of steps
  MaxElevated \* bound: elevations by the user

\* What a step is to the gate.  "free": it does not go through it.  "gated": it
\* does.  "masked": it does, but a refusal comes back as some other error.
StepKinds == {"free", "gated", "masked"}

ASSUME PlanAssumption ==
  /\ \A p \in Plans : p \in Seq(StepKinds)
  /\ MaxElevated \in Nat

VARIABLES
  plan,      \* the plan of the instruction
  goOn,      \* continue_on_error
  client,    \* the client: how far, which attempt, the token it shows
  step,      \* the step the application is at
  elevated,  \* the mode
  elevateds, \* elevations so far
  token,     \* token -> what became of it
  taken,     \* history: step -> how often it was taken, over all attempts
  inAttempt, \* history: steps taken in this attempt
  shown,     \* history: tokens shown to the application
  lapsed     \* history: an elevation or an approval ended meanwhile

planVars == <<plan, goOn, client, step, elevated, elevateds, token,
              taken, inAttempt, shown, lapsed>>

NoApproval == 0
Approvals  == {1, 2}    \* at most one is asked for in each of the two attempts

Settled == {"succeeded", "failed"}

-----------------------------------------------------------------------------
(* The client.                                                             *)

\* Mutant: the second attempt forgets the token.
AskWithout ==
  /\ client.pc = "ask"
  /\ client' = [client EXCEPT !.pc = "steps", !.token = NoApproval]
  /\ step' = 1
  /\ inAttempt' = {}
  /\ UNCHANGED <<plan, goOn, elevated, elevateds, token, taken, shown, lapsed>>

\* with_approval_retry: the request, in either attempt.
Ask ==
  /\ client.pc = "ask"
  /\ client' = [client EXCEPT !.pc = "steps"]
  /\ step' = 1
  /\ inAttempt' = {}
  /\ shown' = shown \union {client.token}
  /\ UNCHANGED <<plan, goOn, elevated, elevateds, token, taken, lapsed>>

\* approve: false if the token has run out meanwhile, and then the error of the
\* request is what the client shows.
Confirm ==
  /\ client.pc = "confirm"
  /\ LET k == client.asked
     IN IF token[k] = "pending"
        THEN /\ token' = [token EXCEPT ![k] = "approved"]
             /\ client' = [client EXCEPT
                  !.pc = IF client.attempt = 2 THEN "failed" ELSE "ask",
                  !.attempt = 2, !.token = k]
        ELSE client' = [client EXCEPT !.pc = "failed"] /\ UNCHANGED token
  /\ UNCHANGED <<plan, goOn, step, elevated, elevateds, taken, inAttempt, shown, lapsed>>

\* The connection breaks; the request goes no further.
Disconnect ==
  /\ client.pc \in {"steps", "confirm"}
  /\ client' = [client EXCEPT !.pc = "failed"]
  /\ UNCHANGED <<plan, goOn, step, elevated, elevateds, token, taken, inAttempt, shown, lapsed>>

-----------------------------------------------------------------------------
(* The application.                                                        *)

AtStep == client.pc = "steps" /\ step <= Len(plan)

Granted ==
  \/ plan[step] = "free"
  \/ elevated
  \/ client.token # NoApproval /\ token[client.token] = "approved"

\* The step is done, and so, after the last, is the request.
Advance(pc) == step' = step + 1 /\ client' = [client EXCEPT !.pc = pc]

After == IF step = Len(plan) THEN "succeeded" ELSE "steps"

\* Mutant: the step is taken, and then the gate is asked.
TakeStepFirst ==
  /\ AtStep
  /\ taken' = [taken EXCEPT ![step] = @ + 1]
  /\ inAttempt' = inAttempt \union {step}
  /\ IF Granted THEN Advance(After) ELSE UNCHANGED <<step, client>>
  /\ Granted \/ step \notin inAttempt
  /\ UNCHANGED <<plan, goOn, elevated, elevateds, token, shown, lapsed>>

TakeStep ==
  /\ AtStep
  /\ Granted
  /\ taken' = [taken EXCEPT ![step] = @ + 1]
  /\ inAttempt' = inAttempt \union {step}
  /\ Advance(After)
  /\ UNCHANGED <<plan, goOn, elevated, elevateds, token, shown, lapsed>>

\* The gate asks for a confirmation: it ends the request unless the plan goes on
\* over errors, and the client is told the token unless the step masks it.
AskStep ==
  /\ AtStep
  /\ ~Granted
  /\ plan[step] = "gated"
  /\ ~goOn
  /\ LET k == client.attempt
     IN /\ token' = [token EXCEPT ![k] = "pending"]
        /\ client' = [client EXCEPT !.pc = "confirm", !.asked = k]
  /\ UNCHANGED <<plan, goOn, step, elevated, elevateds, taken, inAttempt, shown, lapsed>>

\* Mutant: a step that fails does not end the request.
FailStepAlways ==
  /\ AtStep
  /\ Advance(After)
  /\ UNCHANGED <<plan, goOn, elevated, elevateds, token, taken, inAttempt, shown, lapsed>>

\* The step fails: refused out of sight of the client, or for another reason.
FailStep ==
  /\ AtStep
  /\ \/ goOn /\ Advance(After)
     \/ /\ ~goOn
        /\ Granted \/ plan[step] = "masked"
        /\ client' = [client EXCEPT !.pc = "failed"]
        /\ UNCHANGED step
  /\ UNCHANGED <<plan, goOn, elevated, elevateds, token, taken, inAttempt, shown, lapsed>>

-----------------------------------------------------------------------------
(* The user, and time.                                                     *)

Elevation ==
  /\ ~elevated
  /\ elevateds < MaxElevated
  /\ elevateds' = elevateds + 1
  /\ elevated' = TRUE
  /\ UNCHANGED <<plan, goOn, client, step, token, taken, inAttempt, shown, lapsed>>

ElevationEnds ==
  /\ elevated
  /\ elevated' = FALSE
  /\ lapsed' = TRUE
  /\ UNCHANGED <<plan, goOn, client, step, elevateds, token, taken, inAttempt, shown>>

TokenLapses(k) ==
  /\ token[k] \in {"pending", "approved"}
  /\ token' = [token EXCEPT ![k] = "lapsed"]
  /\ lapsed' = TRUE
  /\ UNCHANGED <<plan, goOn, client, step, elevated, elevateds, taken, inAttempt, shown>>

-----------------------------------------------------------------------------

\* The application has derived the plan.  A dry run, which answers success without
\* a step, is left out.
PlanInit ==
  /\ plan \in Plans
  /\ goOn \in BOOLEAN
  /\ client = [pc |-> "ask", attempt |-> 1, token |-> NoApproval, asked |-> NoApproval]
  /\ step = 1
  /\ elevated \in BOOLEAN
  /\ elevateds = 0
  /\ token = [k \in Approvals |-> "none"]
  /\ taken = [i \in 1 .. Len(plan) |-> 0]
  /\ inAttempt = {}
  /\ shown = {}
  /\ lapsed = FALSE

PlanNext ==
  \/ Ask \/ Confirm \/ Disconnect
  \/ TakeStep \/ AskStep \/ FailStep
  \/ Elevation \/ ElevationEnds
  \/ \E k \in Approvals : TokenLapses(k)

PlanSpec == PlanInit /\ [][PlanNext]_planVars

-----------------------------------------------------------------------------
(* Properties.                                                             *)

\* Every variable has its type.
PlanTypeOK ==
  /\ client.pc \in Settled \union {"ask", "steps", "confirm"}
  /\ client.attempt \in {1, 2}
  /\ {client.token, client.asked} \subseteq Approvals \union {NoApproval}
  /\ step \in 1 .. Len(plan) + 1
  /\ \A k \in Approvals : token[k] \in {"none", "pending", "approved", "lapsed"}

\* A step the gate watches is taken once for a command at most, although the
\* whole plan is asked for twice, unless an elevation or an approval ended while
\* the command was under way.
GatedOnce ==
  ~lapsed => \A i \in 1 .. Len(plan) : plan[i] # "free" => taken[i] <= 1

\* A command that succeeds has taken every step of the plan in its last attempt,
\* unless it was to go on over errors.
SuccessIsWholePlan ==
  client.pc = "succeeded" /\ ~goOn => inAttempt = 1 .. Len(plan)

\* The client confirms no token that it does not then show: it leaves no
\* approval behind that nothing was asked for with, unless the one before ran
\* out under way.
NoIdleApproval ==
  ~lapsed /\ client.pc \in Settled =>
    \A k \in Approvals : token[k] = "approved" => k \in shown
=============================================================================
