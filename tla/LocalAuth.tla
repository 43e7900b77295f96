------------------------------- MODULE LocalAuth -----------------------------
(***************************************************************************)
(* The tokens of the local HTTP API: a registry in memory, one token in    *)
(* the file data/cli.token, and the calls that issue, revoke and rotate    *)
(* tokens.  Each call is authorized first, and then works in steps: the    *)
(* lock of the registry is taken for one step at a time, and the file has  *)
(* no lock.                                                                *)
(***************************************************************************)
EXTENDS Integers, FiniteSets

CONSTANTS
  Callers,    \* calls of the API that may be under way at once
  Tokens,     \* API tokens (UUIDs: minted once, never again)
  NoToken,    \* no token; as the file: absent or empty
  TTLs,       \* lifetimes asked for, valid or not
  DefaultTTL, \* the lifetime of an issued token when none is asked for
  MaxTime,    \* bound: the clock stops here
  MaxCrashes  \* bound: the application is restarted so many times

Absent  == -1  \* not in the registry
Forever == 0   \* in the registry, with no expiry
NoTTL   == -1  \* a request that names no lifetime

ASSUME AuthAssumption ==
  /\ NoToken \notin Tokens
  /\ TTLs \subseteq Int \ {NoTTL}
  /\ DefaultTTL \in Nat \ {0}
  /\ MaxTime \in Nat
  /\ MaxCrashes \in Nat

VARIABLES
  clock,     \* Utc::now()
  registry,  \* local_api_tokens: token -> Absent, Forever or its expiry
  file,      \* data/cli.token
  minted,    \* tokens ever made
  known,     \* tokens a client has seen, in an answer or in the file
  call,      \* the call each caller is in
  crashes,   \* how often the application was restarted
  lease,     \* history: the expiry a token was made with, Absent once revoked
  issued,    \* history: tokens made to be lent, not by a rotation
  rotated,   \* history: tokens of rotations that succeeded
  outlawed,  \* history: tokens that were around before such a rotation began
  crossed    \* history: two rotations were under way at once

history == <<lease, issued, rotated, outlawed, crossed>>
vars == <<clock, registry, file, minted, known, call, crashes, history>>

-----------------------------------------------------------------------------

\* parse_token_ttl_seconds
ValidTTL(ttl) == ttl = NoTTL \/ ttl > 0
Expiry(ttl)   == IF ttl = NoTTL THEN Forever ELSE clock + ttl

Lasts(until) == until = Forever \/ until > clock

\* The token opens the API now.
Honoured(k) == registry[k] # Absent /\ Lasts(registry[k])

\* own: the token the call makes; before: the tokens there were when it began.
\* What a call answers is left out: a client only learns the tokens of it.
NoCall == [pc |-> "idle", op |-> "none", ttl |-> NoTTL, target |-> NoToken,
           own |-> NoToken, before |-> {}]

Return(c) == call' = [call EXCEPT ![c] = NoCall]

\* Tokens whose making is over.
Settled == minted \ {call[c].own : c \in Callers}

\* Bound: no call that mints a token unless a token is left for it.
TokensLeft ==
  Cardinality({c \in Callers : call[c].pc = "insert"}) < Cardinality(Tokens \ minted)

-----------------------------------------------------------------------------
(* Calls.                                                                  *)

\* require_auth: an expired token is dropped by whoever presents it.
Authorize(c, k, begin) ==
  /\ call[c].pc = "idle"
  /\ k \in known
  /\ IF Honoured(k)
     THEN call' = [call EXCEPT ![c] = begin] /\ UNCHANGED registry
     ELSE Return(c) /\ registry' = [registry EXCEPT ![k] = Absent]
  /\ crossed' = (crossed \/ Cardinality({d \in Callers : call'[d].op = "rotate"}) > 1)
  /\ UNCHANGED <<clock, file, minted, known, crashes, lease, issued, rotated, outlawed>>

Call(c, k, op, ttl, target) ==
  Authorize(c, k,
    IF ValidTTL(ttl)
    THEN [pc |-> IF op = "revoke" THEN "revoke" ELSE "insert",
          op |-> op, ttl |-> ttl, target |-> target, own |-> NoToken,
          before |-> IF op = "rotate" THEN Settled ELSE {}]
    ELSE NoCall)

\* Any other endpoint: what it does is not about tokens.
Use(c, k) == Authorize(c, k, NoCall)

Issue(c, k, ttl) ==
  /\ TokensLeft
  /\ Call(c, k, "issue", IF ttl = NoTTL THEN DefaultTTL ELSE ttl, NoToken)

Rotate(c, k, ttl) == TokensLeft /\ Call(c, k, "rotate", ttl, NoToken)

Revoke(c, k, target) == Call(c, k, "revoke", NoTTL, target)

\* Mutant: an issued token is saved as well.
InsertAlwaysPersist(c) ==
  /\ call[c].pc = "insert"
  /\ \E k \in Tokens \ minted :
       /\ minted' = minted \union {k}
       /\ registry' = [registry EXCEPT ![k] = Expiry(call[c].ttl)]
       /\ lease' = [lease EXCEPT ![k] = Expiry(call[c].ttl)]
       /\ call' = [call EXCEPT ![c].pc = "write", ![c].own = k]
       /\ issued' = IF call[c].op = "issue" THEN issued \union {k} ELSE issued
  /\ UNCHANGED <<clock, file, known, crashes, rotated, outlawed, crossed>>

\* issue_local_api_token: an issued token is answered at once, that of a
\* rotation is to be saved.
Insert(c) ==
  /\ call[c].pc = "insert"
  /\ \E k \in Tokens \ minted :
       /\ minted' = minted \union {k}
       /\ registry' = [registry EXCEPT ![k] = Expiry(call[c].ttl)]
       /\ lease' = [lease EXCEPT ![k] = Expiry(call[c].ttl)]
       /\ \/ /\ call[c].op = "issue"
             /\ Return(c)
             /\ known' = known \union {k}
             /\ issued' = issued \union {k}
          \/ /\ call[c].op = "rotate"
             /\ call' = [call EXCEPT ![c].pc = "write", ![c].own = k]
             /\ UNCHANGED <<known, issued>>
  /\ UNCHANGED <<clock, file, crashes, rotated, outlawed, crossed>>

\* Mutant: a rotation goes on although its token could not be saved.
WriteErrorIgnored(c) ==
  /\ call[c].pc = "write"
  /\ file' \in {file, NoToken, call[c].own}
  /\ call' = [call EXCEPT ![c].pc = "retain"]
  /\ known' = known \union ({file'} \ {NoToken})
  /\ UNCHANGED <<clock, registry, minted, crashes, history>>

\* persist_cli_token: a write that fails leaves the old token, none, or (when
\* only the file's mode could not be set) the new one; the registry keeps the
\* new token although no client is told of it.
Write(c) ==
  /\ call[c].pc = "write"
  /\ \/ /\ file' = call[c].own
        /\ call' = [call EXCEPT ![c].pc = "retain"]
     \/ /\ file' \in {file, NoToken, call[c].own}
        /\ Return(c)
  /\ known' = known \union ({file'} \ {NoToken})
  /\ UNCHANGED <<clock, registry, minted, crashes, history>>

\* The other half of a rotation: every other token goes, whatever the registry
\* holds by now.
Retain(c) ==
  /\ call[c].pc = "retain"
  /\ registry' = [k \in Tokens |-> IF k = call[c].own THEN registry[k] ELSE Absent]
  /\ known' = known \union {call[c].own}
  /\ rotated' = rotated \union {call[c].own}
  /\ outlawed' = outlawed \union call[c].before
  /\ Return(c)
  /\ UNCHANGED <<clock, file, minted, crashes, lease, issued, crossed>>

RevokeToken(c) ==
  /\ call[c].pc = "revoke"
  /\ registry' = [registry EXCEPT ![call[c].target] = Absent]
  /\ lease' = [lease EXCEPT ![call[c].target] = Absent]
  /\ Return(c)
  /\ UNCHANGED <<clock, file, minted, known, crashes, issued, rotated, outlawed, crossed>>

-----------------------------------------------------------------------------
(* Time and restarts.                                                      *)

Tick ==
  /\ clock < MaxTime
  /\ clock' = clock + 1
  /\ UNCHANGED <<registry, file, minted, known, call, crashes, history>>

\* ensure_cli_token, and the registry it starts with: the token of the file,
\* or a new one, without an expiry.  (A start that fails is tried again.)
Start(k) ==
  /\ IF file # NoToken
     THEN k = file /\ UNCHANGED <<file, minted, known>>
     ELSE /\ k \notin minted
          /\ file' = k
          /\ minted' = minted \union {k}
          /\ known' = known \union {k}
  /\ registry' = [j \in Tokens |-> IF j = k THEN Forever ELSE Absent]

Restart ==
  /\ crashes < MaxCrashes
  /\ crashes' = crashes + 1
  /\ \E k \in Tokens : Start(k)
  /\ call' = [c \in Callers |-> NoCall]
  /\ UNCHANGED <<clock, history>>

-----------------------------------------------------------------------------

\* The first start, with no file.
Init ==
  /\ clock = 0
  /\ \E k \in Tokens :
       /\ file = k
       /\ minted = {k}
       /\ known = {k}
       /\ registry = [j \in Tokens |-> IF j = k THEN Forever ELSE Absent]
  /\ call = [c \in Callers |-> NoCall]
  /\ crashes = 0
  /\ lease = [k \in Tokens |-> Forever]
  /\ issued = {}
  /\ rotated = {}
  /\ outlawed = {}
  /\ crossed = FALSE

Next ==
  \/ \E c \in Callers, k \in Tokens :
       \/ Use(c, k)
       \/ \E ttl \in TTLs \union {NoTTL} : Issue(c, k, ttl) \/ Rotate(c, k, ttl)
       \/ \E target \in known : Revoke(c, k, target)
  \/ \E c \in Callers : Insert(c) \/ Write(c) \/ Retain(c) \/ RevokeToken(c)
  \/ Tick
  \/ Restart

Spec == Init /\ [][Next]_vars

-----------------------------------------------------------------------------
(* Properties.                                                             *)

\* Every variable has its type.
TypeOK ==
  /\ clock \in Nat
  /\ registry \in [Tokens -> Nat \union {Absent}]
  /\ file \in Tokens \union {NoToken}
  /\ minted \subseteq Tokens
  /\ known \subseteq minted
  /\ call \in [Callers ->
       [pc : {"idle", "insert", "write", "retain", "revoke"},
        op : {"none", "issue", "rotate", "revoke"},
        ttl : TTLs \union {NoTTL, DefaultTTL},
        target : Tokens \union {NoToken}, own : Tokens \union {NoToken},
        before : SUBSET Tokens]]

\* A token that was around when a rotation began never opens the API again once
\* that rotation has succeeded: not by another rotation that was under way, not
\* after one that failed half-way, and not after a restart.
RotatedOut == \A k \in outlawed : ~Honoured(k)

\* A token issued for a time is not honoured after that time, nor once it has
\* been revoked, not even by a process that has been restarted since.
LeaseKept == \A k \in issued : Honoured(k) => Lasts(lease[k])

\* When no rotation is under way, and the file holds the token of one that
\* succeeded, that token opens the API unless it was revoked or its time is
\* over: a client that reads the file gets in.
FileTokenServes ==
  /\ \A c \in Callers : call[c].op # "rotate"
  /\ file \in rotated
  /\ Lasts(lease[file])
  => Honoured(file)

\* As long as rotations come one after the other it does, over the other calls
\* that cross them, writes that fail and restarts.
FileTokenServesInTurn == ~crossed => FileTokenServes
=============================================================================
