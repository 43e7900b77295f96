--------------------------- MODULE LocalAuthProofs --------------------------
(***************************************************************************)
(* Theorems about the tokens of the local API, for any callers, tokens and *)
(* lifetimes.                                                              *)
(*                                                                         *)
(* What a rotation outlaws was fixed when it began; that none of it comes  *)
(* back depends on which token the file may hold, at any moment, although  *)
(* several rotations may be at any of their steps.                         *)
(***************************************************************************)
EXTENDS LocalAuth, FiniteSetTheorems, TLAPS

Expiries == Nat \union {Absent}

CallTypes ==
  [pc : {"idle", "insert", "write", "retain", "revoke"},
   op : {"none", "issue", "rotate", "revoke"},
   ttl : TTLs \union {NoTTL, DefaultTTL},
   target : Tokens \union {NoToken}, own : Tokens \union {NoToken},
   before : SUBSET Tokens]

AuthTypes ==
  /\ clock \in Nat
  /\ registry \in [Tokens -> Expiries]
  /\ lease \in [Tokens -> Expiries]
  /\ file \in minted \union {NoToken}
  /\ minted \subseteq Tokens
  /\ known \subseteq minted
  /\ call \in [Callers -> CallTypes]
  /\ issued \subseteq minted
  /\ rotated \subseteq minted
  /\ outlawed \subseteq minted
  /\ crossed \in BOOLEAN

-----------------------------------------------------------------------------

\* A call has a token of its own from the time it has minted it.
Shaped(x) ==
  /\ x.pc \notin {"write", "retain"} => x.own = NoToken
  /\ x.pc \in {"write", "retain"} => x.own \in minted /\ x.op = "rotate"
  /\ x.pc = "insert" => ValidTTL(x.ttl)
  /\ x.pc = "revoke" => x.target \in Tokens
  /\ x.before \subseteq minted

\* It is nobody else's, and no rotation has outlawed it or will.
OwnPrivate ==
  \A c \in Callers :
    /\ call[c].own \notin outlawed \union issued \union rotated
    /\ \A d \in Callers : /\ call[c].own \notin call[d].before
                          /\ call[c].own = call[d].own /\ c # d => call[c].own = NoToken

\* The file holds no token that is outlawed, or will be by a rotation that has
\* written its own, and none that was only lent.
FileClean ==
  /\ file \notin outlawed \union issued
  /\ \A c \in Callers : call[c].pc = "retain" => file \notin call[c].before

\* An outlawed token is not in the registry, a lent one only with its lease.
RegistryClean ==
  /\ \A k \in outlawed : registry[k] = Absent
  /\ \A k \in issued : registry[k] \in {Absent, lease[k]}

\* The token is in the registry, for as long as its lease at least.
InForce(k) == Lasts(lease[k]) => registry[k] \in {lease[k], Forever}

Rotating == {c \in Callers : call[c].op = "rotate"}

\* As long as no two rotations have crossed, the one that has written the file
\* finds its token there, and that token is in force.
InTurn ==
  /\ \A c, d \in Rotating : c = d
  /\ \A c \in Callers : call[c].pc = "retain" => file = call[c].own
  /\ \A c \in Callers : call[c].pc \in {"write", "retain"} => InForce(call[c].own)
  /\ file \in rotated => InForce(file)

AuthInv ==
  /\ AuthTypes
  /\ \A c \in Callers : Shaped(call[c])
  /\ OwnPrivate
  /\ FileClean
  /\ RegistryClean
  /\ IsFiniteSet(Rotating)
  /\ ~crossed => InTurn

-----------------------------------------------------------------------------
(* Types, and what a step of one call leaves as it is.                     *)

LEMMA AtMostOne ==
  ASSUME NEW S, IsFiniteSet(S), ~(Cardinality(S) > 1)
  PROVE  \A a, b \in S : a = b
<1> SUFFICES ASSUME NEW a \in S, NEW b \in S, a # b PROVE FALSE OBVIOUS
<1>1. IsFiniteSet({a}) /\ Cardinality({a}) = 1 BY FS_Singleton
<1>2. Cardinality({a} \union {b}) = 2
  <2>1. b \notin {a} OBVIOUS
  <2>2. Cardinality({a} \union {b}) = Cardinality({a}) + 1 BY <1>1, <2>1, FS_AddElement
  <2> QED BY <1>1, <2>2
<1>3. Cardinality({a} \union {b}) <= Cardinality(S) BY FS_Subset
<1>4. Cardinality(S) \in Nat BY FS_CardinalityType
<1> QED BY <1>2, <1>3, <1>4

LEMMA Types ==
  ASSUME AuthInv
  PROVE  /\ \A k \in Tokens : registry[k] \in Expiries /\ lease[k] \in Expiries
         /\ \A c \in Callers : call[c] \in CallTypes /\ Shaped(call[c])
         /\ clock \in Nat
         /\ NoToken \notin minted
BY AuthAssumption DEF AuthInv, AuthTypes

LEMMA NoCallTyped == NoCall \in CallTypes /\ Shaped(NoCall)
BY DEF NoCall, CallTypes, Shaped

LEMMA OneCall ==
  ASSUME AuthInv, NEW c \in Callers, NEW x \in CallTypes,
         call' = [call EXCEPT ![c] = x]
  PROVE  /\ call' \in [Callers -> CallTypes]
         /\ call'[c] = x
         /\ \A d \in Callers \ {c} : call'[d] = call[d]
         /\ IsFiniteSet(Rotating')
<1>1. call \in [Callers -> CallTypes] BY DEF AuthInv, AuthTypes
<1>2. /\ call' \in [Callers -> CallTypes] /\ call'[c] = x
      /\ \A d \in Callers \ {c} : call'[d] = call[d]
  BY <1>1
<1>3. Rotating' \subseteq Rotating \union {c} BY <1>2 DEF Rotating
<1>4. IsFiniteSet(Rotating \union {c}) BY FS_AddElement DEF AuthInv
<1> QED BY <1>2, <1>3, <1>4, FS_Subset

\* A token that its lease or its registration keeps goes only when it is over.
LEMMA InForceKept ==
  ASSUME AuthInv, NEW k \in Tokens, InForce(k),
         registry'[k] = registry[k] \/ (~Honoured(k) /\ registry'[k] = Absent),
         UNCHANGED <<clock, lease>>
  PROVE  InForce(k)'
BY Types DEF InForce, Honoured, Lasts, Forever, Absent, Expiries

-----------------------------------------------------------------------------
(* Each step keeps AuthInv.                                                *)

\* The beginning of a call, or a call that is over at once.
Fresh(x) ==
  /\ x.pc \in {"idle", "insert", "revoke"}
  /\ x.own = NoToken
  /\ x.pc = "insert" => ValidTTL(x.ttl)
  /\ x.pc = "revoke" => x.target \in Tokens
  /\ x.before \subseteq Settled

LEMMA AuthorizeInv ==
  ASSUME AuthInv, NEW c \in Callers, NEW k \in Tokens, NEW x \in CallTypes, Fresh(x),
         Authorize(c, k, x)
  PROVE  AuthInv'
<1> DEFINE y == call'[c]
<1>1. /\ UNCHANGED <<clock, file, minted, known, crashes, lease, issued, rotated, outlawed>>
      /\ crossed' = (crossed \/ Cardinality(Rotating') > 1)
      /\ call[c].pc = "idle" /\ k \in known
  BY DEF Authorize, Rotating
<1>2. /\ y \in CallTypes /\ Fresh(y) /\ call' = [call EXCEPT ![c] = y]
      /\ \/ registry' = registry
         \/ ~Honoured(k) /\ registry' = [registry EXCEPT ![k] = Absent]
  <2>1. call \in [Callers -> CallTypes] BY DEF AuthInv, AuthTypes
  <2>2. Fresh(NoCall) BY DEF NoCall, Fresh
  <2>3. CASE Honoured(k) BY <2>1, <2>3 DEF Authorize
  <2>4. CASE ~Honoured(k) BY <2>1, <2>2, <2>4, NoCallTyped DEF Authorize, Return
  <2> QED BY <2>3, <2>4
<1>3. /\ call' \in [Callers -> CallTypes]
      /\ \A d \in Callers \ {c} : call'[d] = call[d]
      /\ IsFiniteSet(Rotating')
  BY <1>2, OneCall
<1> HIDE DEF y
<1>4. y = call'[c] BY DEF y
<1>5. /\ registry' \in [Tokens -> Expiries]
      /\ \A j \in Tokens : \/ registry'[j] = registry[j]
                           \/ ~Honoured(j) /\ registry'[j] = Absent
  BY <1>2 DEF AuthInv, AuthTypes, Expiries
<1>6. AuthTypes' BY <1>1, <1>3, <1>5 DEF AuthInv, AuthTypes
<1>7. \A d \in Callers : Shaped(call[d])'
  <2> SUFFICES ASSUME NEW d \in Callers PROVE Shaped(call[d])' OBVIOUS
  <2>1. CASE d = c BY <1>1, <1>2, <1>4, <2>1 DEF Shaped, Fresh, Settled
  <2>2. CASE d # c BY <1>1, <1>3, <2>2, Types DEF Shaped
  <2> QED BY <2>1, <2>2
<1>8. OwnPrivate'
  <2>1. y.own = NoToken /\ NoToken \notin minted BY <1>2, Types DEF Fresh
  <2>2. \A d \in Callers : call[d].own \notin y.before BY <1>2 DEF Fresh, Settled
  <2>3. \A d \in Callers : call[d].before \subseteq minted BY Types DEF Shaped
  <2>4. y.before \subseteq minted BY <1>2 DEF Fresh, Settled
  <2>5. outlawed \union issued \union rotated \subseteq minted BY DEF AuthInv, AuthTypes
  <2> SUFFICES ASSUME NEW d \in Callers
               PROVE  /\ call'[d].own \notin outlawed \union issued \union rotated
                      /\ \A e \in Callers :
                           /\ call'[d].own \notin call'[e].before
                           /\ call'[d].own = call'[e].own /\ d # e => call'[d].own = NoToken
    BY <1>1 DEF OwnPrivate
  <2> QED BY <1>3, <1>4, <2>1, <2>2, <2>3, <2>4, <2>5 DEF AuthInv, OwnPrivate
<1>9. FileClean' BY <1>1, <1>2, <1>3, <1>4 DEF AuthInv, FileClean, Fresh
<1>10. RegistryClean'
  <2>1. outlawed \subseteq Tokens /\ issued \subseteq Tokens BY DEF AuthInv, AuthTypes
  <2> QED BY <1>1, <1>5, <2>1 DEF AuthInv, RegistryClean
<1>11. ~crossed' => InTurn'
  <2> SUFFICES ASSUME ~crossed' PROVE InTurn' OBVIOUS
  <2>1. ~crossed /\ ~(Cardinality(Rotating') > 1) BY <1>1
  <2>2. InTurn BY <2>1 DEF AuthInv
  <2>3. \A d, e \in Rotating' : d = e BY <1>3, <2>1, AtMostOne
  <2>4. \A d \in Callers : call'[d].pc \in {"write", "retain"} => call'[d] = call[d]
    BY <1>2, <1>3, <1>4 DEF Fresh
  <2>5. \A d \in Callers : call[d].pc \in {"write", "retain"} => call[d].own \in Tokens
    BY Types DEF Shaped, AuthInv, AuthTypes
  <2>6. file \in rotated => file \in Tokens BY DEF AuthInv, AuthTypes
  <2>7. \A j \in Tokens : InForce(j) => InForce(j)' BY <1>1, <1>5, InForceKept
  <2> QED BY <1>1, <2>2, <2>3, <2>4, <2>5, <2>6, <2>7 DEF InTurn
<1> QED BY <1>3, <1>6, <1>7, <1>8, <1>9, <1>10, <1>11 DEF AuthInv

\* The calls that clients make.
LEMMA CallInv ==
  ASSUME AuthInv, NEW c \in Callers, NEW k \in Tokens,
         \/ Use(c, k)
         \/ \E ttl \in TTLs \union {NoTTL} : Issue(c, k, ttl) \/ Rotate(c, k, ttl)
         \/ \E target \in known : Revoke(c, k, target)
  PROVE  AuthInv'
<1>1. NoCall \in CallTypes /\ Fresh(NoCall) BY NoCallTyped DEF NoCall, Fresh
<1>2. ASSUME NEW op \in {"issue", "rotate", "revoke"},
             NEW ttl \in TTLs \union {NoTTL, DefaultTTL},
             NEW target \in Tokens \union {NoToken}, op = "revoke" => target \in Tokens,
             Call(c, k, op, ttl, target)
      PROVE  AuthInv'
  <2> DEFINE pc == IF op = "revoke" THEN "revoke" ELSE "insert"
             before == IF op = "rotate" THEN Settled ELSE {}
             x == [pc |-> pc, op |-> op, ttl |-> ttl, target |-> target, own |-> NoToken,
                   before |-> before]
  <2>1. /\ pc \in {"insert", "revoke"} /\ (pc = "revoke" => target \in Tokens)
        /\ before \subseteq Settled /\ before \subseteq Tokens
    BY <1>2 DEF Settled, AuthInv, AuthTypes
  <2>2. Authorize(c, k, IF ValidTTL(ttl) THEN x ELSE NoCall) BY <1>2 DEF Call
  <2> HIDE DEF pc, before
  <2>3. x \in CallTypes BY <1>2, <2>1 DEF CallTypes
  <2>4. ValidTTL(ttl) => Fresh(x) BY <2>1 DEF Fresh
  <2> HIDE DEF x
  <2>5. CASE ValidTTL(ttl) BY <2>2, <2>3, <2>4, <2>5, AuthorizeInv
  <2>6. CASE ~ValidTTL(ttl) BY <1>1, <2>2, <2>6, AuthorizeInv
  <2> QED BY <2>5, <2>6
<1>3. CASE Use(c, k) BY <1>1, <1>3, AuthorizeInv DEF Use
<1>4. ASSUME NEW ttl \in TTLs \union {NoTTL}, Issue(c, k, ttl) PROVE AuthInv'
  BY <1>2, <1>4 DEF Issue
<1>5. ASSUME NEW ttl \in TTLs \union {NoTTL}, Rotate(c, k, ttl) PROVE AuthInv'
  BY <1>2, <1>5 DEF Rotate
<1>6. ASSUME NEW target \in known, Revoke(c, k, target) PROVE AuthInv'
  <2>1. target \in Tokens BY DEF AuthInv, AuthTypes
  <2> QED BY <1>2, <1>6, <2>1 DEF Revoke
<1> QED BY <1>3, <1>4, <1>5, <1>6

LEMMA InsertInv ==
  ASSUME AuthInv, NEW c \in Callers, Insert(c)
  PROVE  AuthInv'
<1> PICK k \in Tokens \ minted :
      /\ minted' = minted \union {k}
      /\ registry' = [registry EXCEPT ![k] = Expiry(call[c].ttl)]
      /\ lease' = [lease EXCEPT ![k] = Expiry(call[c].ttl)]
      /\ \/ Return(c) /\ known' = known \union {k} /\ issued' = issued \union {k}
         \/ /\ call[c].op = "rotate"
            /\ call' = [call EXCEPT ![c].pc = "write", ![c].own = k]
            /\ UNCHANGED <<known, issued>>
  BY DEF Insert
<1> DEFINE y == call'[c]
<1>1. /\ UNCHANGED <<clock, file, crashes, rotated, outlawed, crossed>>
      /\ call[c].pc = "insert"
  BY DEF Insert
<1>2. /\ call[c] \in CallTypes /\ Shaped(call[c]) /\ k \in Tokens /\ k \notin minted
      /\ call \in [Callers -> CallTypes] /\ k # NoToken
  BY Types, AuthAssumption DEF AuthInv, AuthTypes
<1>3. /\ y \in CallTypes /\ call' = [call EXCEPT ![c] = y]
      /\ y.before = call[c].before \/ y.before = {}
      /\ \/ /\ y.pc = "idle" /\ y.own = NoToken /\ y.op = "none"
            /\ known' = known \union {k} /\ issued' = issued \union {k}
         \/ /\ y.pc = "write" /\ y.own = k /\ y.op = "rotate" /\ call[c].op = "rotate"
            /\ UNCHANGED <<known, issued>>
  <2>1. CASE Return(c) /\ known' = known \union {k} /\ issued' = issued \union {k}
    BY <1>2, <2>1, NoCallTyped DEF Return, NoCall
  <2>2. CASE /\ call[c].op = "rotate"
             /\ call' = [call EXCEPT ![c].pc = "write", ![c].own = k]
             /\ UNCHANGED <<known, issued>>
    <3> DEFINE x == [call[c] EXCEPT !.pc = "write", !.own = k]
    <3>1. /\ x \in CallTypes /\ x.pc = "write" /\ x.own = k /\ x.op = call[c].op
          /\ x.before = call[c].before
      BY <1>2 DEF CallTypes
    <3>2. call' = [call EXCEPT ![c] = x] BY <1>2, <2>2
    <3> HIDE DEF x
    <3> QED BY <1>2, <2>2, <3>1, <3>2
  <2> QED BY <2>1, <2>2
<1>4. /\ call' \in [Callers -> CallTypes]
      /\ \A d \in Callers \ {c} : call'[d] = call[d]
      /\ IsFiniteSet(Rotating')
  BY <1>3, OneCall
<1> HIDE DEF y
<1>5. y = call'[c] BY DEF y
<1>6. Expiry(call[c].ttl) \in Nat
  BY <1>1, <1>2, AuthAssumption, Types
  DEF Shaped, Expiry, ValidTTL, CallTypes, NoTTL, Forever
<1>7. /\ registry' \in [Tokens -> Expiries] /\ lease' \in [Tokens -> Expiries]
      /\ registry'[k] = lease'[k]
      /\ \A j \in Tokens \ {k} : registry'[j] = registry[j] /\ lease'[j] = lease[j]
  BY <1>6 DEF AuthInv, AuthTypes, Expiries
<1>8. AuthTypes' BY <1>1, <1>2, <1>3, <1>4, <1>7 DEF AuthInv, AuthTypes
<1>9. \A d \in Callers : Shaped(call[d])'
  <2> SUFFICES ASSUME NEW d \in Callers PROVE Shaped(call[d])' OBVIOUS
  <2>1. call[d].before \subseteq minted' BY Types DEF Shaped
  <2>2. CASE d = c BY <1>3, <1>5, <2>1, <2>2 DEF Shaped
  <2>3. CASE d # c BY <1>4, <2>1, <2>3, Types DEF Shaped
  <2> QED BY <2>2, <2>3
<1>10. \A d \in Callers : /\ call[d].own # k
                         /\ call'[d].before \subseteq minted
  <2> SUFFICES ASSUME NEW d \in Callers
               PROVE  call[d].own # k /\ call'[d].before \subseteq minted
    OBVIOUS
  <2>1. Shaped(call[d]) /\ Shaped(call[c]) BY Types
  <2>2. call[d].own # k BY <1>2, <2>1 DEF Shaped
  <2>3. CASE d = c BY <1>3, <1>5, <2>1, <2>2, <2>3 DEF Shaped
  <2>4. CASE d # c BY <1>4, <2>1, <2>2, <2>4 DEF Shaped
  <2> QED BY <2>3, <2>4
<1>11. OwnPrivate'
  <2> SUFFICES ASSUME NEW d \in Callers
               PROVE  /\ call'[d].own \notin outlawed' \union issued' \union rotated'
                      /\ \A e \in Callers :
                           /\ call'[d].own \notin call'[e].before
                           /\ call'[d].own = call'[e].own /\ d # e => call'[d].own = NoToken
    BY DEF OwnPrivate
  <2>1. /\ outlawed \union issued \union rotated \subseteq minted /\ NoToken \notin minted
        /\ outlawed' = outlawed /\ rotated' = rotated
        /\ issued' = issued \/ (issued' = issued \union {k} /\ y.own = NoToken)
    BY <1>1, <1>3, Types DEF AuthInv, AuthTypes
  <2>2. \A e \in Callers : call'[e].own = call[e].own \/ (e = c /\ call'[e].own \in {k, NoToken})
    BY <1>3, <1>4, <1>5
  <2>3. call'[d].own \notin outlawed' \union issued' \union rotated'
    BY <1>2, <1>5, <1>10, <2>1, <2>2 DEF AuthInv, OwnPrivate
  <2>4. \A e \in Callers : call'[e].before \subseteq call[e].before
    BY <1>3, <1>4, <1>5
  <2>5. \A e \in Callers : call'[d].own \notin call'[e].before
    BY <1>2, <1>10, <2>1, <2>2, <2>4 DEF AuthInv, OwnPrivate
  <2>6. \A e \in Callers : call'[d].own = call'[e].own /\ d # e => call'[d].own = NoToken
    BY <1>10, <2>2 DEF AuthInv, OwnPrivate
  <2> QED BY <2>3, <2>5, <2>6
<1>12. FileClean'
  <2>1. file # k BY <1>2 DEF AuthInv, AuthTypes
  <2>2. \A d \in Callers : call'[d].pc = "retain" => call'[d] = call[d]
    BY <1>3, <1>4, <1>5
  <2> QED BY <1>1, <1>3, <2>1, <2>2 DEF AuthInv, FileClean
<1>13. RegistryClean'
  <2>1. /\ outlawed \subseteq minted /\ issued \subseteq minted /\ minted \subseteq Tokens
        /\ issued' \subseteq issued \union {k} /\ outlawed' = outlawed
    BY <1>1, <1>3 DEF AuthInv, AuthTypes
  <2>2. \A j \in outlawed' : registry'[j] = Absent
    BY <1>2, <1>7, <2>1 DEF AuthInv, RegistryClean
  <2>3. \A j \in issued' : registry'[j] \in {Absent, lease'[j]}
    BY <1>2, <1>7, <2>1 DEF AuthInv, RegistryClean
  <2> QED BY <2>2, <2>3 DEF RegistryClean
<1>14. ~crossed' => InTurn'
  <2> SUFFICES ASSUME ~crossed' PROVE InTurn' OBVIOUS
  <2>1. InTurn BY <1>1 DEF AuthInv
  <2>2. Rotating' \subseteq Rotating BY <1>3, <1>4, <1>5 DEF Rotating
  <2>3. \A j \in minted : InForce(j) => InForce(j)'
    BY <1>1, <1>2, <1>7 DEF InForce, Lasts, AuthInv, AuthTypes
  <2>4. InForce(k)' BY <1>7 DEF InForce
  <2>5. \A d \in Callers : call'[d].pc \in {"write", "retain"} =>
          \/ call'[d] = call[d] /\ call[d].own \in minted
          \/ call'[d].pc = "write" /\ call'[d].own = k
    BY <1>3, <1>4, <1>5, Types DEF Shaped
  <2>6. file \in rotated => file \in minted BY DEF AuthInv, AuthTypes
  <2>7. \A d, e \in Rotating' : d = e BY <2>1, <2>2 DEF InTurn
  <2>8. \A d \in Callers : call'[d].pc = "retain" => file' = call'[d].own
    BY <1>1, <2>1, <2>5 DEF InTurn
  <2>9. \A d \in Callers : call'[d].pc \in {"write", "retain"} => InForce(call[d].own)'
    <3> SUFFICES ASSUME NEW d \in Callers, call'[d].pc \in {"write", "retain"}
                 PROVE  InForce(call[d].own)'
      OBVIOUS
    <3>1. CASE call'[d] = call[d] /\ call[d].own \in minted
      <4>1. InForce(call[d].own) BY <2>1, <3>1 DEF InTurn
      <4>2. registry'[call[d].own] = registry[call[d].own]
            /\ lease'[call[d].own] = lease[call[d].own]
        BY <1>2, <1>7, <3>1 DEF AuthInv, AuthTypes
      <4> QED BY <1>1, <3>1, <4>1, <4>2 DEF InForce, Lasts
    <3>2. CASE call'[d].own = k BY <1>7, <3>2 DEF InForce
    <3> QED BY <2>5, <3>1, <3>2
  <2>10. file' \in rotated' => InForce(file)'
    BY <1>1, <1>2, <1>7, <2>1, <2>6 DEF InTurn, InForce, Lasts, AuthInv, AuthTypes
  <2> QED BY <2>7, <2>8, <2>9, <2>10 DEF InTurn
<1> QED BY <1>4, <1>8, <1>9, <1>11, <1>12, <1>13, <1>14 DEF AuthInv

LEMMA WriteInv ==
  ASSUME AuthInv, NEW c \in Callers, Write(c)
  PROVE  AuthInv'
<1> DEFINE own == call[c].own
           y == call'[c]
<1>1. /\ UNCHANGED <<clock, registry, minted, crashes, lease, issued, rotated, outlawed, crossed>>
      /\ call[c].pc = "write" /\ file' \in {file, NoToken, own}
      /\ known' = known \union ({file'} \ {NoToken})
  BY DEF Write, history
<1>2. /\ call[c] \in CallTypes /\ Shaped(call[c])
      /\ call \in [Callers -> CallTypes] /\ own \in minted /\ call[c].op = "rotate"
  BY <1>1, Types DEF AuthInv, AuthTypes, Shaped
<1>3. /\ y \in CallTypes /\ call' = [call EXCEPT ![c] = y]
      /\ \/ y = NoCall
         \/ /\ y.pc = "retain" /\ y.own = own /\ y.op = "rotate"
            /\ y.before = call[c].before /\ file' = own
  <2>1. CASE Return(c) BY <1>2, <2>1, NoCallTyped DEF Return
  <2>2. CASE file' = own /\ call' = [call EXCEPT ![c].pc = "retain"]
    <3> DEFINE x == [call[c] EXCEPT !.pc = "retain"]
    <3>1. /\ x \in CallTypes /\ x.pc = "retain" /\ x.own = own /\ x.op = call[c].op
          /\ x.before = call[c].before
      BY <1>2 DEF CallTypes
    <3>2. call' = [call EXCEPT ![c] = x] BY <1>2, <2>2
    <3> HIDE DEF x
    <3> QED BY <1>2, <2>2, <3>1, <3>2
  <2> QED BY <2>1, <2>2 DEF Write
<1>4. /\ call' \in [Callers -> CallTypes]
      /\ \A d \in Callers \ {c} : call'[d] = call[d]
      /\ IsFiniteSet(Rotating')
  BY <1>3, OneCall
<1> HIDE DEF y, own
<1>5. y = call'[c] /\ own = call[c].own BY DEF y, own
<1>6. AuthTypes' BY <1>1, <1>2, <1>4 DEF AuthInv, AuthTypes
<1>7. \A d \in Callers : Shaped(call[d])'
  <2> SUFFICES ASSUME NEW d \in Callers PROVE Shaped(call[d])' OBVIOUS
  <2>1. CASE d = c /\ y = NoCall BY <1>5, <2>1 DEF Shaped, NoCall
  <2>2. CASE d = c /\ y # NoCall BY <1>1, <1>2, <1>3, <1>5, <2>2 DEF Shaped
  <2>3. CASE d # c BY <1>1, <1>4, <2>3, Types DEF Shaped
  <2> QED BY <2>1, <2>2, <2>3
<1>8. \A d \in Callers : /\ call'[d].own \in {call[d].own, NoToken}
                        /\ call'[d].before \subseteq call[d].before
  BY <1>3, <1>4, <1>5 DEF NoCall
<1>9. OwnPrivate'
  <2>1. NoToken \notin outlawed \union issued \union rotated BY Types DEF AuthInv, AuthTypes
  <2>2. \A d \in Callers : NoToken \notin call[d].before BY Types DEF Shaped
  <2> QED BY <1>1, <1>8, <2>1, <2>2 DEF AuthInv, OwnPrivate
<1>10. FileClean'
  <2>1. file' \notin outlawed \union issued
    BY <1>1, <1>5, Types DEF AuthInv, AuthTypes, FileClean, OwnPrivate
  <2>2. ASSUME NEW d \in Callers, call'[d].pc = "retain" PROVE file' \notin call'[d].before
    <3>1. own \notin call[d].before /\ NoToken \notin call[d].before
      BY <1>5, Types DEF AuthInv, OwnPrivate, Shaped
    <3>2. CASE d = c BY <1>3, <1>5, <2>2, <3>1, <3>2 DEF NoCall
    <3>3. CASE d # c
      <4>1. call[d].pc = "retain" /\ call'[d] = call[d] BY <1>4, <2>2, <3>3
      <4>2. file \notin call[d].before BY <4>1 DEF AuthInv, FileClean
      <4> QED BY <1>1, <3>1, <4>1, <4>2
    <3> QED BY <3>2, <3>3
  <2> QED BY <1>1, <2>1, <2>2 DEF FileClean
<1>11. RegistryClean' BY <1>1 DEF AuthInv, RegistryClean
<1>12. ~crossed' => InTurn'
  <2> SUFFICES ASSUME ~crossed' PROVE InTurn' OBVIOUS
  <2>1. InTurn BY <1>1 DEF AuthInv
  <2>2. Rotating' \subseteq Rotating /\ c \in Rotating
    BY <1>2, <1>3, <1>4, <1>5 DEF Rotating, NoCall
  <2>3. \A d, e \in Rotating' : d = e BY <2>1, <2>2 DEF InTurn
  <2>4. \A d \in Callers : call'[d].pc \in {"write", "retain"} => d = c /\ y # NoCall
    <3> SUFFICES ASSUME NEW d \in Callers, call'[d].pc \in {"write", "retain"}
                 PROVE  d = c /\ y # NoCall
      OBVIOUS
    <3>1. Shaped(call[d])' BY <1>7
    <3>2. d \in Rotating' BY <3>1 DEF Shaped, Rotating
    <3>3. d = c BY <2>1, <2>2, <3>2 DEF InTurn
    <3> QED BY <1>5, <3>3 DEF NoCall
  <2>5. InForce(own) BY <1>1, <1>5, <2>1 DEF InTurn
  <2>7. file' \in rotated' => file' = file
    BY <1>1, <1>5, Types DEF AuthInv, AuthTypes, OwnPrivate
  <2>8. \A d \in Callers : call'[d].pc = "retain" => file' = call'[d].own
    BY <1>3, <1>5, <2>4
  <2>9. \A d \in Callers : call'[d].pc \in {"write", "retain"} => InForce(call[d].own)'
    <3> SUFFICES ASSUME NEW d \in Callers, call'[d].pc \in {"write", "retain"}
                 PROVE  InForce(call[d].own)'
      OBVIOUS
    <3>1. call'[d].own = call[c].own BY <1>3, <1>5, <2>4
    <3> QED BY <1>1, <1>5, <2>5, <3>1 DEF InForce, Lasts
  <2>10. file' \in rotated' => InForce(file)'
    BY <1>1, <2>1, <2>7 DEF InTurn, InForce, Lasts
  <2> QED BY <2>3, <2>8, <2>9, <2>10 DEF InTurn
<1> QED BY <1>4, <1>6, <1>7, <1>9, <1>10, <1>11, <1>12 DEF AuthInv

LEMMA RetainInv ==
  ASSUME AuthInv, NEW c \in Callers, Retain(c)
  PROVE  AuthInv'
<1> DEFINE own == call[c].own
           before == call[c].before
<1>1. /\ UNCHANGED <<clock, file, minted, crashes, lease, issued, crossed>>
      /\ call[c].pc = "retain" /\ call' = [call EXCEPT ![c] = NoCall]
      /\ registry' = [k \in Tokens |-> IF k = own THEN registry[k] ELSE Absent]
      /\ known' = known \union {own} /\ rotated' = rotated \union {own}
      /\ outlawed' = outlawed \union before
  BY DEF Retain, Return
<1>2. own \in minted /\ before \subseteq minted /\ own # NoToken /\ call[c].op = "rotate"
  BY <1>1, Types DEF Shaped
<1> HIDE DEF own, before
<1>3. own = call[c].own /\ before = call[c].before BY DEF own, before
<1>4. /\ call' \in [Callers -> CallTypes] /\ call'[c] = NoCall
      /\ \A d \in Callers \ {c} : call'[d] = call[d]
      /\ IsFiniteSet(Rotating')
  BY <1>1, NoCallTyped, OneCall
<1>5. /\ registry' \in [Tokens -> Expiries] /\ registry'[own] = registry[own]
      /\ \A k \in Tokens \ {own} : registry'[k] = Absent
      /\ minted \subseteq Tokens
  BY <1>1, <1>2 DEF AuthInv, AuthTypes, Expiries
<1>6. AuthTypes' BY <1>1, <1>2, <1>4, <1>5 DEF AuthInv, AuthTypes
<1>7. \A d \in Callers : Shaped(call[d])'
  <2> SUFFICES ASSUME NEW d \in Callers PROVE Shaped(call[d])' OBVIOUS
  <2>1. CASE d = c BY <1>4, <2>1 DEF Shaped, NoCall
  <2>2. CASE d # c BY <1>1, <1>4, <2>2, Types DEF Shaped
  <2> QED BY <2>1, <2>2
<1>8. OwnPrivate'
  <2> SUFFICES ASSUME NEW d \in Callers
               PROVE  /\ call'[d].own \notin outlawed' \union issued' \union rotated'
                      /\ \A e \in Callers :
                           /\ call'[d].own \notin call'[e].before
                           /\ call'[d].own = call'[e].own /\ d # e => call'[d].own = NoToken
    BY DEF OwnPrivate
  <2>1. NoToken \notin minted /\ outlawed \union issued \union rotated \subseteq minted
    BY Types DEF AuthInv, AuthTypes
  <2>2. \A e \in Callers : call'[e].before \subseteq minted BY <1>1, <1>7 DEF Shaped
  <2>3. CASE d = c
    <3>1. call'[d].own = NoToken BY <1>4, <2>3 DEF NoCall
    <3> QED BY <1>1, <1>2, <2>1, <2>2, <3>1
  <2>4. CASE d # c
    <3>1. /\ call'[d] = call[d] /\ call[d].own # own /\ call[d].own \notin before
      BY <1>2, <1>3, <1>4, <2>4 DEF AuthInv, OwnPrivate
    <3>2. call[d].own \notin outlawed' \union issued' \union rotated'
      BY <1>1, <3>1 DEF AuthInv, OwnPrivate
    <3>3. \A e \in Callers : call'[e] = call[e] \/ call'[e] = NoCall BY <1>4
    <3> QED BY <3>1, <3>2, <3>3 DEF AuthInv, OwnPrivate, NoCall
  <2> QED BY <2>3, <2>4
<1>9. FileClean'
  <2>1. file \notin before BY <1>1, <1>3 DEF AuthInv, FileClean
  <2>2. \A d \in Callers : call'[d].pc = "retain" => call'[d] = call[d] BY <1>4 DEF NoCall
  <2> QED BY <1>1, <2>1, <2>2 DEF AuthInv, FileClean
<1>10. RegistryClean'
  <2>1. own \notin outlawed /\ own \notin before BY <1>3 DEF AuthInv, OwnPrivate
  <2>2. outlawed' \subseteq Tokens /\ issued \subseteq Tokens
    BY <1>1, <1>2, <1>5 DEF AuthInv, AuthTypes
  <2>3. \A k \in outlawed' : registry'[k] = Absent BY <1>1, <1>5, <2>1, <2>2
  <2>4. \A k \in issued' : registry'[k] \in {Absent, lease'[k]}
    BY <1>1, <1>5, <2>2 DEF AuthInv, RegistryClean
  <2> QED BY <2>3, <2>4 DEF RegistryClean
<1>11. ~crossed' => InTurn'
  <2> SUFFICES ASSUME ~crossed' PROVE InTurn' OBVIOUS
  <2>1. InTurn BY <1>1 DEF AuthInv
  <2>2. Rotating' = {}
    <3>1. c \in Rotating BY <1>2 DEF Rotating
    <3>2. Rotating' \subseteq Rotating \ {c} BY <1>4 DEF Rotating, NoCall
    <3> QED BY <2>1, <3>1, <3>2 DEF InTurn
  <2>3. \A d \in Callers : call'[d].pc \notin {"write", "retain"}
    BY <1>7, <2>2 DEF Shaped, Rotating
  <2>4. file = own /\ InForce(own) BY <1>1, <1>3, <2>1 DEF InTurn
  <2>5. InForce(file)' BY <1>1, <1>5, <2>4 DEF InForce, Lasts
  <2> QED BY <2>2, <2>3, <2>5 DEF InTurn
<1> QED BY <1>4, <1>6, <1>7, <1>8, <1>9, <1>10, <1>11 DEF AuthInv

LEMMA RevokeTokenInv ==
  ASSUME AuthInv, NEW c \in Callers, RevokeToken(c)
  PROVE  AuthInv'
<1> DEFINE target == call[c].target
<1>1. /\ UNCHANGED <<clock, file, minted, known, crashes, issued, rotated, outlawed, crossed>>
      /\ call[c].pc = "revoke" /\ call' = [call EXCEPT ![c] = NoCall]
      /\ registry' = [registry EXCEPT ![target] = Absent]
      /\ lease' = [lease EXCEPT ![target] = Absent]
  BY DEF RevokeToken, Return
<1>2. target \in Tokens BY <1>1, Types DEF Shaped
<1> HIDE DEF target
<1>3. /\ call' \in [Callers -> CallTypes] /\ call'[c] = NoCall
      /\ \A d \in Callers \ {c} : call'[d] = call[d]
      /\ IsFiniteSet(Rotating')
  BY <1>1, NoCallTyped, OneCall
<1>4. /\ registry' \in [Tokens -> Expiries] /\ lease' \in [Tokens -> Expiries]
      /\ registry'[target] = Absent /\ lease'[target] = Absent
      /\ \A k \in Tokens \ {target} : registry'[k] = registry[k] /\ lease'[k] = lease[k]
  BY <1>1, <1>2 DEF AuthInv, AuthTypes, Expiries
<1>5. AuthTypes' BY <1>1, <1>3, <1>4 DEF AuthInv, AuthTypes
<1>6. \A d \in Callers : Shaped(call[d])'
  <2> SUFFICES ASSUME NEW d \in Callers PROVE Shaped(call[d])' OBVIOUS
  <2>1. CASE d = c BY <1>3, <2>1 DEF Shaped, NoCall
  <2>2. CASE d # c BY <1>1, <1>3, <2>2, Types DEF Shaped
  <2> QED BY <2>1, <2>2
<1>7. \A d \in Callers : call'[d] = call[d] \/ call'[d] = NoCall BY <1>3
<1>8. OwnPrivate'
  <2>1. NoToken \notin outlawed \union issued \union rotated BY Types DEF AuthInv, AuthTypes
  <2>2. \A d \in Callers : NoToken \notin call[d].before BY Types DEF Shaped
  <2> QED BY <1>1, <1>7, <2>1, <2>2 DEF AuthInv, OwnPrivate, NoCall
<1>9. FileClean' BY <1>1, <1>7 DEF AuthInv, FileClean, NoCall
<1>10. RegistryClean'
  <2>1. outlawed \subseteq Tokens /\ issued \subseteq Tokens BY DEF AuthInv, AuthTypes
  <2> QED BY <1>1, <1>4, <2>1 DEF AuthInv, RegistryClean
<1>11. ~crossed' => InTurn'
  <2> SUFFICES ASSUME ~crossed' PROVE InTurn' OBVIOUS
  <2>1. InTurn BY <1>1 DEF AuthInv
  <2>2. \A d \in Callers : call'[d].pc \in {"write", "retain"} => call'[d] = call[d]
    BY <1>7 DEF NoCall
  <2>3. \A d \in Callers : call[d].pc \in {"write", "retain"} => call[d].own \in Tokens
    BY Types DEF Shaped, AuthInv, AuthTypes
  <2>4. file \in rotated => file \in Tokens BY DEF AuthInv, AuthTypes
  <2>5. \A k \in Tokens : InForce(k) => InForce(k)'
    BY <1>1, <1>4, Types DEF InForce, Lasts, Absent, Forever
  <2>6. Rotating' \subseteq Rotating BY <1>7 DEF Rotating, NoCall
  <2> QED BY <1>1, <2>1, <2>2, <2>3, <2>4, <2>5, <2>6 DEF InTurn
<1> QED BY <1>3, <1>5, <1>6, <1>8, <1>9, <1>10, <1>11 DEF AuthInv

\* The clock moves on, or nothing changes at all: what lasts has lasted.
LEMMA TickInv ==
  ASSUME AuthInv, clock' \in {clock, clock + 1},
         UNCHANGED <<registry, file, minted, known, call, history>>
  PROVE  AuthInv'
<1>1. UNCHANGED <<lease, issued, rotated, outlawed, crossed>> BY DEF history
<1>2. clock' \in Nat /\ clock' >= clock BY DEF AuthInv, AuthTypes
<1>3. AuthTypes' BY <1>1, <1>2 DEF AuthInv, AuthTypes
<1>4. \A d \in Callers : Shaped(call[d])' BY Types DEF Shaped
<1>5. OwnPrivate' /\ FileClean' /\ RegistryClean'
  BY <1>1 DEF AuthInv, OwnPrivate, FileClean, RegistryClean
<1>6. Rotating' = Rotating BY DEF Rotating
<1>7. \A k \in Tokens : InForce(k) => InForce(k)'
  BY <1>1, <1>2, Types DEF InForce, Lasts, Forever, Expiries, Absent
<1>8. \A d \in Callers : call[d].pc \in {"write", "retain"} => call[d].own \in Tokens
  BY Types DEF Shaped, AuthInv, AuthTypes
<1>9. file \in rotated => file \in Tokens BY DEF AuthInv, AuthTypes
<1>10. ~crossed' => InTurn' BY <1>1, <1>6, <1>7, <1>8, <1>9 DEF AuthInv, InTurn
<1> QED BY <1>3, <1>4, <1>5, <1>6, <1>10 DEF AuthInv

\* A start takes the token of the file, which nobody has outlawed or lent.
LEMMA RestartInv ==
  ASSUME AuthInv, Restart
  PROVE  AuthInv'
<1>1. /\ UNCHANGED <<clock, lease, issued, rotated, outlawed, crossed>>
      /\ call' = [c \in Callers |-> NoCall]
  BY DEF Restart, history
<1> PICK k \in Tokens : Start(k) BY DEF Restart
<1>2. /\ k \notin outlawed \union issued /\ file' = k /\ k \in minted'
      /\ minted \subseteq minted' /\ minted' \subseteq Tokens /\ known' \subseteq minted'
  <2>1. CASE file # NoToken BY <2>1 DEF Start, AuthInv, AuthTypes, FileClean
  <2>2. CASE file = NoToken BY <2>2 DEF Start, AuthInv, AuthTypes
  <2> QED BY <2>1, <2>2
<1>3. /\ registry' \in [Tokens -> Expiries] /\ registry'[k] = Forever
      /\ \A j \in Tokens \ {k} : registry'[j] = Absent
  BY DEF Start, Expiries, Forever
<1>4. /\ call' \in [Callers -> CallTypes] /\ \A c \in Callers : call'[c] = NoCall
  BY <1>1, NoCallTyped
<1>5. AuthTypes' BY <1>1, <1>2, <1>3, <1>4 DEF AuthInv, AuthTypes
<1>6. \A c \in Callers : Shaped(call[c])' BY <1>4 DEF Shaped, NoCall
<1>7. OwnPrivate'
  <2>1. NoToken \notin outlawed \union issued \union rotated BY Types DEF AuthInv, AuthTypes
  <2> QED BY <1>1, <1>4, <2>1 DEF OwnPrivate, NoCall
<1>8. FileClean' BY <1>1, <1>2, <1>4 DEF FileClean, NoCall
<1>9. RegistryClean'
  <2>1. outlawed \subseteq Tokens /\ issued \subseteq Tokens BY DEF AuthInv, AuthTypes
  <2> QED BY <1>1, <1>2, <1>3, <2>1 DEF RegistryClean
<1>10. Rotating' = {} BY <1>4 DEF Rotating, NoCall
<1>11. IsFiniteSet(Rotating') BY <1>10, FS_EmptySet
<1>12. InTurn' BY <1>2, <1>3, <1>4, <1>10 DEF InTurn, InForce, NoCall
<1> QED BY <1>5, <1>6, <1>7, <1>8, <1>9, <1>11, <1>12 DEF AuthInv

-----------------------------------------------------------------------------
(* The invariant, and what it says.                                        *)

LEMMA AuthInvInit == Init => AuthInv
<1> SUFFICES ASSUME Init PROVE AuthInv OBVIOUS
<1> PICK k \in Tokens : /\ file = k /\ minted = {k} /\ known = {k}
                        /\ registry = [j \in Tokens |-> IF j = k THEN Forever ELSE Absent]
  BY DEF Init
<1>1. /\ clock = 0 /\ issued = {} /\ rotated = {} /\ outlawed = {} /\ crossed = FALSE
      /\ lease = [j \in Tokens |-> Forever] /\ call = [c \in Callers |-> NoCall]
  BY DEF Init
<1>2. registry \in [Tokens -> Expiries] /\ lease \in [Tokens -> Expiries]
  BY <1>1 DEF Expiries, Forever
<1>3. call \in [Callers -> CallTypes] /\ \A c \in Callers : call[c] = NoCall
  BY <1>1, NoCallTyped
<1>4. AuthTypes BY <1>1, <1>2, <1>3 DEF AuthTypes
<1>5. \A c \in Callers : Shaped(call[c]) BY <1>3, NoCallTyped
<1>6. OwnPrivate /\ FileClean /\ RegistryClean
  BY <1>1, <1>3 DEF OwnPrivate, FileClean, RegistryClean, NoCall
<1>7. Rotating = {} BY <1>3 DEF Rotating, NoCall
<1>8. IsFiniteSet(Rotating) BY <1>7, FS_EmptySet
<1>9. InTurn BY <1>1, <1>3, <1>7 DEF InTurn, NoCall
<1> QED BY <1>4, <1>5, <1>6, <1>8, <1>9 DEF AuthInv

LEMMA AuthInvNext == AuthInv /\ [Next]_vars => AuthInv'
<1> SUFFICES ASSUME AuthInv, [Next]_vars PROVE AuthInv' OBVIOUS
<1>1. ASSUME NEW c \in Callers, NEW k \in Tokens,
             \/ Use(c, k)
             \/ \E ttl \in TTLs \union {NoTTL} : Issue(c, k, ttl) \/ Rotate(c, k, ttl)
             \/ \E target \in known : Revoke(c, k, target)
      PROVE  AuthInv'
  BY <1>1, CallInv
<1>2. ASSUME NEW c \in Callers, Insert(c) \/ Write(c) \/ Retain(c) \/ RevokeToken(c)
      PROVE  AuthInv'
  BY <1>2, InsertInv, WriteInv, RetainInv, RevokeTokenInv
<1>3. CASE Tick BY <1>3, TickInv DEF Tick
<1>4. CASE Restart BY <1>4, RestartInv
<1>5. CASE UNCHANGED vars BY <1>5, TickInv DEF vars
<1> QED BY <1>1, <1>2, <1>3, <1>4, <1>5 DEF Next

\* The inductive invariant holds in every reachable state.
THEOREM AuthKeepsInv == Spec => []AuthInv
BY AuthInvInit, AuthInvNext, PTL DEF Spec

\* Every variable keeps its type.
THEOREM AuthTyped == Spec => []TypeOK
<1>1. AuthInv => TypeOK BY DEF AuthInv, AuthTypes, CallTypes, Expiries, TypeOK
<1> QED BY <1>1, AuthKeepsInv, PTL

\* A token that a rotation has put out of use never opens the API again, over
\* other rotations, writes that fail and restarts.
THEOREM RotationOutlaws == Spec => []RotatedOut
<1>1. AuthInv => RotatedOut BY DEF AuthInv, RegistryClean, RotatedOut, Honoured
<1> QED BY <1>1, AuthKeepsInv, PTL

\* No token outlives the lease it was issued with, or its revocation.
THEOREM LeaseObeyed == Spec => []LeaseKept
<1>1. AuthInv => LeaseKept BY DEF AuthInv, RegistryClean, LeaseKept, Honoured
<1> QED BY <1>1, AuthKeepsInv, PTL

\* As long as rotations come one after the other, the token in the file of a
\* rotation that succeeded opens the API.
THEOREM FileServes == Spec => []FileTokenServesInTurn
<1>1. AuthInv => FileTokenServesInTurn
  BY Types
  DEF AuthInv, AuthTypes, InTurn, InForce, FileTokenServesInTurn, FileTokenServes,
      Honoured, Lasts, Absent, Forever
<1> QED BY <1>1, AuthKeepsInv, PTL
=============================================================================
