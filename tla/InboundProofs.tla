---------------------------- MODULE InboundProofs ---------------------------
(***************************************************************************)
(* Theorems about the messages that come in, for any threads, lines, keys  *)
(* kept, failures and restarts.                                            *)
(*                                                                         *)
(* No message is skipped because whatever lies behind a cursor, or behind  *)
(* what Telegram was told to forget, is in someone's hand or accepted, and *)
(* so is what a poll has asked to go beyond (Asked).  None is run twice    *)
(* because what was run has its key in the file and in memory (RanIsSaved) *)
(* and what is about to be run had it written before (LoopWork).  The file *)
(* keeps its keys as long as nothing goes wrong (Orderly): then one thread *)
(* writes at a time, its lines end before the next begins, and its snapshot*)
(* is what the memory has.                                                 *)
(***************************************************************************)
EXTENDS Inbound, SequenceTheorems, WellFoundedInduction, TLAPS

Saving == {"append", "newline", "empty", "rewrite", "run"}

Jobs == [pc    : Polling \union Saving \union {"idle"},
         feed  : Feeds,
         asked : Nat,
         batch : Seq(Messages),
         got   : Seq(Messages),
         keys  : Seq(Messages),
         snap  : Seq(Keys)]

InboundTypes ==
  /\ sent \in [Feeds -> Nat] /\ sent["telegram"] + sent["slack"] <= MaxSent
  /\ cursor \in [Feeds -> Nat]
  /\ confirmed \in Nat
  /\ inbox \in Seq(Lines) /\ unwritten \subseteq Lines
  /\ seen \in Seq(Keys) /\ Len(seen) <= MaxSeen
  /\ saved \in Seq(Seq(Keys)) /\ open \in BOOLEAN
  /\ job \in [Threads -> Jobs]
  /\ failures \in 0 .. MaxFailures /\ restarts \in 0 .. MaxRestarts
  /\ accepted \subseteq Messages /\ dropped \subseteq Messages
  /\ ran \in [Messages -> 0 .. 2]
  /\ lost \subseteq Messages /\ evicted \subseteq Keys /\ troubled \in BOOLEAN

\* What a thread has at each of its places.
JobFits(t) ==
  /\ job[t].pc \notin Saving => job[t].keys = <<>> /\ job[t].snap = <<>>
  /\ job[t].pc # "advance" => job[t].batch = <<>>
  /\ job[t].pc = "idle" => job[t].got = <<>>
  /\ job[t].pc \in Saving => job[t].got # <<>>
  /\ job[t].pc = "append" => job[t].keys # <<>>
  /\ job[t].keys # <<>> => job[t].pc \in {"append", "newline"}
  /\ job[t].pc \in {"empty", "rewrite"} => job[t].snap # <<>>
  /\ job[t].pc = "run" => t = Loop /\ job[t].snap = <<>>

FileFits == open => saved # <<>>

\* What lies behind a cursor, or was confirmed to Telegram, is held.
BehindIsHeld ==
  /\ \A f \in Feeds : \A n \in 1 .. cursor[f] : Held(Of(f, n))
  /\ \A n \in 1 .. confirmed : Held(Of("telegram", n))

\* What a poll asked to go beyond is held, and its answer begins behind it.
Asked(t) ==
  /\ job[t].pc = "answer" => \A n \in 1 .. job[t].asked : Held(Of(job[t].feed, n))
  /\ job[t].pc = "advance" =>
       \E gone \in Nat :
         /\ job[t].asked <= gone
         /\ \A n \in 1 .. gone : Held(Of(job[t].feed, n))
         /\ \A i \in 1 .. Len(job[t].batch) : job[t].batch[i] = Of(job[t].feed, gone + i)

LinesAreHeld == \A l \in Lines \ unwritten : Contains(inbox, l) \/ Held(Text(l))

\* Keys are those of accepted messages, or what is left of lines.
KeysOfAccepted ==
  /\ \A x : Contains(seen, x) => x \in accepted \union {Scrap}
  /\ \A x : Contains(saved, <<x>>) => x \in accepted \union {Scrap}
  /\ \A t \in Threads :
       /\ \A x : Contains(job[t].keys, x) => x \in accepted
       /\ \A x : Contains(job[t].snap, x) => x \in accepted \union {Scrap}
       /\ job[t].pc \in Saving => \A x : Contains(job[t].got, x) => x \in accepted

\* Keys on their way to the file, or there, are known, unless they had to make room.
KeysAreKnown ==
  /\ \A m \in Kept : Contains(seen, m) \/ m \in evicted
  /\ \A t \in Threads : \A m \in Messages :
       Contains(job[t].keys, m) \/ Contains(job[t].snap, m)
         => Contains(seen, m) \/ m \in evicted

\* Without trouble one thread at a time writes, the file is its own, and nothing is
\* lost but what had to make room.
Orderly ==
  ~troubled =>
    /\ \A t, u \in Persisting : t = u
    /\ open => \E t \in Threads : job[t].pc = "newline"
    /\ \A t \in Threads : job[t].pc = "rewrite" => saved = <<>>
    /\ \A t \in Threads : job[t].snap # <<>> => job[t].snap = seen
    /\ lost \subseteq evicted

\* A message with a key that was not lost.
Safe(m) == m \in Messages /\ Keyed(m) /\ m \notin lost \union evicted

\* What was run is known, now and after a restart, and is not run again.
RanIsSaved ==
  \A m \in Messages : Safe(m) /\ ran[m] > 0 =>
    /\ ran[m] = 1
    /\ m \in Kept /\ Contains(seen, m)
    /\ job[Loop].pc \in Saving => ~Contains(job[Loop].got, m)

\* What the loop is to run is there once, is known, and its key is in the file or
\* about to be.
LoopWork ==
  job[Loop].pc \in Saving =>
    \A i \in 1 .. Len(job[Loop].got) :
      LET m == job[Loop].got[i]
      IN Safe(m) =>
           /\ \A k \in 1 .. Len(job[Loop].got) : job[Loop].got[k] = m => k = i
           /\ Contains(seen, m)
           /\ Contains(job[Loop].keys, m) \/ m \in Kept

InboundInv ==
  /\ InboundTypes
  /\ \A t \in Threads : JobFits(t)
  /\ BehindIsHeld
  /\ \A t \in Threads : Asked(t)
  /\ LinesAreHeld
  /\ FileFits
  /\ KeysOfAccepted
  /\ KeysAreKnown
  /\ Orderly
  /\ RanIsSaved
  /\ LoopWork

-----------------------------------------------------------------------------
(* Sequences, as sets.                                                     *)

LEMMA InSet ==
  ASSUME NEW S, NEW s \in Seq(S)
  PROVE  \A e : e \in ToSet(s) <=> Contains(s, e)
BY DEF ToSet, Contains

LEMMA InAppended ==
  ASSUME NEW S, NEW s \in Seq(S), NEW e \in S
  PROVE  /\ Append(s, e) \in Seq(S)
         /\ Len(Append(s, e)) = Len(s) + 1 /\ Len(s) \in Nat
         /\ \A i \in 1 .. Len(s) : Append(s, e)[i] = s[i]
         /\ Append(s, e)[Len(s) + 1] = e
         /\ \A x : Contains(Append(s, e), x) <=> Contains(s, x) \/ x = e
<1>1. /\ Append(s, e) \in Seq(S)
      /\ Len(Append(s, e)) = Len(s) + 1
      /\ \A i \in 1 .. Len(s) : Append(s, e)[i] = s[i]
      /\ Append(s, e)[Len(s) + 1] = e
  BY AppendProperties
<1>2. Len(s) \in Nat OBVIOUS
<1> QED BY <1>1, <1>2 DEF Contains

LEMMA InJoined ==
  ASSUME NEW S, NEW s \in Seq(S), NEW r \in Seq(S)
  PROVE  /\ s \o r \in Seq(S)
         /\ \A x : Contains(s \o r, x) <=> Contains(s, x) \/ Contains(r, x)
<1>1. /\ s \o r \in Seq(S) /\ Len(s \o r) = Len(s) + Len(r)
      /\ \A i \in 1 .. Len(s) + Len(r) :
           (s \o r)[i] = IF i <= Len(s) THEN s[i] ELSE r[i - Len(s)]
  BY ConcatProperties
<1>2. Len(s) \in Nat /\ Len(r) \in Nat OBVIOUS
<1>3. ASSUME NEW x, Contains(s \o r, x) PROVE Contains(s, x) \/ Contains(r, x)
  <2>1. PICK i \in 1 .. Len(s) + Len(r) : (s \o r)[i] = x BY <1>1, <1>3 DEF Contains
  <2>2. CASE i <= Len(s) BY <1>1, <1>2, <2>1, <2>2 DEF Contains
  <2>3. CASE ~(i <= Len(s))
    <3>1. i - Len(s) \in 1 .. Len(r) /\ r[i - Len(s)] = x BY <1>1, <1>2, <2>1, <2>3
    <3> QED BY <3>1 DEF Contains
  <2> QED BY <2>2, <2>3
<1>4. ASSUME NEW x, Contains(s, x) PROVE Contains(s \o r, x)
  <2>1. PICK i \in 1 .. Len(s) : s[i] = x BY <1>4 DEF Contains
  <2>2. i \in 1 .. Len(s) + Len(r) /\ i <= Len(s) BY <1>2
  <2> QED BY <1>1, <2>1, <2>2 DEF Contains
<1>5. ASSUME NEW x, Contains(r, x) PROVE Contains(s \o r, x)
  <2>1. PICK i \in 1 .. Len(r) : r[i] = x BY <1>5 DEF Contains
  <2>2. Len(s) + i \in 1 .. Len(s) + Len(r) /\ ~(Len(s) + i <= Len(s))
        /\ Len(s) + i - Len(s) = i
    BY <1>2
  <2>3. (s \o r)[Len(s) + i] = x BY <1>1, <2>1, <2>2
  <2> QED BY <1>1, <2>2, <2>3 DEF Contains
<1> QED BY <1>1, <1>3, <1>4, <1>5

LEMMA InRest ==
  ASSUME NEW S, NEW s \in Seq(S), s # <<>>
  PROVE  /\ Head(s) \in S /\ Tail(s) \in Seq(S) /\ Len(Tail(s)) = Len(s) - 1
         /\ \A i \in 1 .. Len(s) - 1 : Tail(s)[i] = s[i + 1]
         /\ Head(s) = s[1] /\ 1 \in 1 .. Len(s) /\ Len(s) \in Nat
         /\ \A x : Contains(s, x) <=> x = Head(s) \/ Contains(Tail(s), x)
<1>1. /\ Head(s) \in S /\ Tail(s) \in Seq(S) /\ Len(Tail(s)) = Len(s) - 1
      /\ \A i \in 1 .. Len(s) - 1 : Tail(s)[i] = s[i + 1]
      /\ Head(s) = s[1] /\ 1 \in 1 .. Len(s) /\ Len(s) \in Nat
  OBVIOUS
<1>2. ASSUME NEW x, Contains(s, x) PROVE x = Head(s) \/ Contains(Tail(s), x)
  <2>1. PICK i \in 1 .. Len(s) : s[i] = x BY <1>2 DEF Contains
  <2>2. CASE i = 1 BY <1>1, <2>1, <2>2
  <2>3. CASE i # 1
    <3>1. i - 1 \in 1 .. Len(s) - 1 /\ i - 1 + 1 = i BY <1>1, <2>3
    <3>2. Tail(s)[i - 1] = x BY <1>1, <2>1, <3>1
    <3> QED BY <1>1, <3>1, <3>2 DEF Contains
  <2> QED BY <2>2, <2>3
<1>3. ASSUME NEW x, Contains(Tail(s), x) PROVE Contains(s, x)
  <2>1. PICK i \in 1 .. Len(s) - 1 : Tail(s)[i] = x BY <1>1, <1>3 DEF Contains
  <2>2. i + 1 \in 1 .. Len(s) /\ s[i + 1] = x BY <1>1, <2>1
  <2> QED BY <2>2 DEF Contains
<1> QED BY <1>1, <1>2, <1>3 DEF Contains

LEMMA EmptyHasNone ==
  ASSUME NEW S
  PROVE  <<>> \in Seq(S) /\ Len(<<>>) = 0 /\ \A x : ~Contains(<<>>, x)
BY DEF Contains

LEMMA ScrapIsKey == Messages \subseteq Keys /\ Scrap \in Keys /\ Scrap \notin Messages
BY DEF Keys, Scrap, Messages, Of, Text, Feeds

\* What makes room is the oldest; the last key stays.
LEMMA NewestStay ==
  ASSUME NEW S, NEW s \in Seq(S)
  PROVE  /\ Newest(s) \in Seq(S) /\ Len(Newest(s)) <= MaxSeen
         /\ \A x : Contains(Newest(s), x) => Contains(s, x)
         /\ s # <<>> => Contains(Newest(s), s[Len(s)])
<1> DEFINE m == Larger(0, Len(s) - MaxSeen)
<1>0. Len(s) \in Nat /\ MaxSeen \in Nat \ {0} BY InboundAssumption
<1>1. /\ m \in Nat /\ m <= Len(s) /\ Len(s) - m <= MaxSeen
      /\ Len(s) > 0 => m < Len(s)
  BY <1>0 DEF Larger
<1> HIDE DEF m
<1>2. \A i \in m + 1 .. Len(s) : s[i] \in S BY <1>0, <1>1
<1>3. /\ SubSeq(s, m + 1, Len(s)) \in Seq(S)
      /\ Len(SubSeq(s, m + 1, Len(s)))
           = IF m + 1 <= Len(s) THEN Len(s) - (m + 1) + 1 ELSE 0
      /\ \A i \in 1 .. Len(s) - (m + 1) + 1 : SubSeq(s, m + 1, Len(s))[i] = s[m + 1 + i - 1]
  <2>1. m + 1 \in Int /\ Len(s) \in Int BY <1>0, <1>1
  <2> QED BY <1>2, <2>1, SubSeqProperties
<1>4. Newest(s) = SubSeq(s, m + 1, Len(s)) BY DEF Newest, m
<1>5. /\ Newest(s) \in Seq(S) /\ Len(Newest(s)) = Len(s) - m
      /\ \A i \in 1 .. Len(s) - m : Newest(s)[i] = s[m + i]
  BY <1>0, <1>1, <1>3, <1>4
<1>6. ASSUME NEW x, Contains(Newest(s), x) PROVE Contains(s, x)
  <2>1. PICK i \in 1 .. Len(s) - m : Newest(s)[i] = x BY <1>5, <1>6 DEF Contains
  <2>2. m + i \in 1 .. Len(s) /\ s[m + i] = x BY <1>0, <1>1, <1>5, <2>1
  <2> QED BY <2>2 DEF Contains
<1>7. ASSUME s # <<>> PROVE Contains(Newest(s), s[Len(s)])
  <2>1. Len(s) > 0 BY <1>7
  <2>2. Len(s) - m \in 1 .. Len(s) - m /\ m + (Len(s) - m) = Len(s)
    BY <1>0, <1>1, <2>1
  <2>3. Newest(s)[Len(s) - m] = s[Len(s)] BY <1>5, <2>2
  <2> QED BY <1>5, <2>2, <2>3 DEF Contains
<1> QED BY <1>0, <1>1, <1>5, <1>6, <1>7

-----------------------------------------------------------------------------
(* What is accepted of the messages in hand.                               *)

Knowns == [seen : Seq(Keys), fresh : Seq(Messages), new : Seq(Messages),
           out : SUBSET Keys]

\* What is known after the first n messages, from the keys s.
Accounted(k, s, messages, n) ==
  /\ k \in Knowns /\ Len(k.seen) <= MaxSeen
  /\ \A x : Contains(k.seen, x) => Contains(s, x) \/ Contains(k.fresh, x)
  /\ \A x : Contains(s, x) => Contains(k.seen, x) \/ x \in k.out
  /\ \A x : Contains(k.new, x) =>
       Contains(k.fresh, x) /\ (Contains(k.seen, x) \/ x \in k.out)
  /\ k.new = <<>> => k.seen = s
  /\ \A i \in 1 .. n : Contains(k.fresh, messages[i]) \/ Contains(s, messages[i])
  /\ \A i \in 1 .. Len(k.fresh) :
       LET m == k.fresh[i]
       IN Keyed(m) /\ m \notin k.out =>
            /\ Contains(k.seen, m) /\ ~Contains(s, m) /\ Contains(k.new, m)
            /\ \A h \in 1 .. Len(k.fresh) : k.fresh[h] = m => h = i

LEMMA TakeAccounts ==
  ASSUME NEW s \in Seq(Keys), NEW messages \in Seq(Messages),
         NEW n \in Nat, n + 1 \in 1 .. Len(messages),
         NEW k, Accounted(k, s, messages, n)
  PROVE  Accounted(Take(k, messages[n + 1]), s, messages, n + 1)
<1> DEFINE m == messages[n + 1]
           r == Take(k, m)
<1>1. m \in Messages /\ m \in Keys BY ScrapIsKey
<1> HIDE DEF m
<1>2. /\ k \in Knowns /\ Len(k.seen) <= MaxSeen
      /\ k.seen \in Seq(Keys) /\ k.fresh \in Seq(Messages) /\ k.new \in Seq(Messages)
      /\ k.out \subseteq Keys
  BY DEF Accounted, Knowns
<1>3. /\ \A x : Contains(k.seen, x) => Contains(s, x) \/ Contains(k.fresh, x)
      /\ \A x : Contains(s, x) => Contains(k.seen, x) \/ x \in k.out
      /\ \A x : Contains(k.new, x) =>
           Contains(k.fresh, x) /\ (Contains(k.seen, x) \/ x \in k.out)
      /\ k.new = <<>> => k.seen = s
      /\ \A i \in 1 .. n : Contains(k.fresh, messages[i]) \/ Contains(s, messages[i])
  BY DEF Accounted
<1>4. ASSUME NEW i \in 1 .. Len(k.fresh), Keyed(k.fresh[i]), k.fresh[i] \notin k.out
      PROVE  /\ Contains(k.seen, k.fresh[i]) /\ ~Contains(s, k.fresh[i])
             /\ Contains(k.new, k.fresh[i])
             /\ \A h \in 1 .. Len(k.fresh) : k.fresh[h] = k.fresh[i] => h = i
  BY <1>4 DEF Accounted
<1>5. /\ Append(k.fresh, m) \in Seq(Messages) /\ Len(Append(k.fresh, m)) = Len(k.fresh) + 1
      /\ Len(k.fresh) \in Nat
      /\ \A i \in 1 .. Len(k.fresh) : Append(k.fresh, m)[i] = k.fresh[i]
      /\ Append(k.fresh, m)[Len(k.fresh) + 1] = m
      /\ \A x : Contains(Append(k.fresh, m), x) <=> Contains(k.fresh, x) \/ x = m
  BY <1>1, <1>2, InAppended
<1>6. \A i \in 1 .. n + 1 : i \in 1 .. n \/ i = n + 1 OBVIOUS
<1>7. \A i \in 1 .. Len(k.fresh) + 1 : i \in 1 .. Len(k.fresh) \/ i = Len(k.fresh) + 1
  BY <1>5
<1>8. CASE ~Keyed(m)
  <2>1. r = [k EXCEPT !.fresh = Append(@, m)] BY <1>8 DEF Take
  <2>2. /\ r \in Knowns /\ r.seen = k.seen /\ r.new = k.new /\ r.out = k.out
        /\ r.fresh = Append(k.fresh, m)
    BY <1>2, <1>5, <2>1 DEF Knowns
  <2> HIDE DEF r
  <2>3. ASSUME NEW i \in 1 .. Len(r.fresh), Keyed(r.fresh[i]), r.fresh[i] \notin r.out
        PROVE  /\ Contains(r.seen, r.fresh[i]) /\ ~Contains(s, r.fresh[i])
               /\ Contains(r.new, r.fresh[i])
               /\ \A h \in 1 .. Len(r.fresh) : r.fresh[h] = r.fresh[i] => h = i
    <3>1. i \in 1 .. Len(k.fresh) /\ r.fresh[i] = k.fresh[i]
      BY <1>5, <1>7, <1>8, <2>2, <2>3
    <3>2. /\ Contains(k.seen, k.fresh[i]) /\ ~Contains(s, k.fresh[i])
          /\ Contains(k.new, k.fresh[i])
          /\ \A h \in 1 .. Len(k.fresh) : k.fresh[h] = k.fresh[i] => h = i
      BY <1>4, <2>2, <2>3, <3>1
    <3>3. m # k.fresh[i] BY <1>8, <2>3, <3>1
    <3> QED BY <1>5, <1>7, <2>2, <3>1, <3>2, <3>3
  <2>4. \A i \in 1 .. n + 1 : Contains(r.fresh, messages[i]) \/ Contains(s, messages[i])
    BY <1>3, <1>5, <1>6, <2>2 DEF m
  <2>5. Accounted(r, s, messages, n + 1)
    BY <1>2, <1>3, <1>5, <2>2, <2>3, <2>4 DEF Accounted
  <2> QED BY <2>5 DEF r, m
<1>9. CASE Keyed(m) /\ Contains(k.seen, m)
  <2>1. r = k BY <1>9 DEF Take
  <2>2. \A i \in 1 .. n + 1 : Contains(k.fresh, messages[i]) \/ Contains(s, messages[i])
    BY <1>3, <1>6, <1>9 DEF m
  <2>3. Accounted(k, s, messages, n + 1) BY <2>2 DEF Accounted
  <2> QED BY <2>1, <2>3 DEF m
<1>10. CASE Keyed(m) /\ ~Contains(k.seen, m)
  <2> DEFINE all == Append(k.seen, m)
  <2>1. /\ all \in Seq(Keys) /\ all # <<>> /\ all[Len(all)] = m
        /\ \A x : Contains(all, x) <=> Contains(k.seen, x) \/ x = m
    <3>1. /\ Append(k.seen, m) \in Seq(Keys) /\ Len(k.seen) \in Nat
          /\ Len(Append(k.seen, m)) = Len(k.seen) + 1
          /\ Append(k.seen, m)[Len(k.seen) + 1] = m
          /\ \A x : Contains(Append(k.seen, m), x) <=> Contains(k.seen, x) \/ x = m
      BY <1>1, <1>2, InAppended
    <3>2. all = Append(k.seen, m) OBVIOUS
    <3> HIDE DEF all
    <3>3. all # <<>>
      <4>1. Len(all) > 0 BY <3>1, <3>2
      <4> QED BY <4>1
    <3> QED BY <3>1, <3>2, <3>3
  <2>2. r = [seen  |-> Newest(all),
             fresh |-> Append(k.fresh, m),
             new   |-> Append(k.new, m),
             out   |-> k.out \union (ToSet(all) \ ToSet(Newest(all)))]
    BY <1>10 DEF Take
  <2> HIDE DEF all
  <2>3. /\ Newest(all) \in Seq(Keys) /\ Len(Newest(all)) <= MaxSeen
        /\ \A x : Contains(Newest(all), x) => Contains(all, x)
        /\ Contains(Newest(all), m)
    BY <2>1, NewestStay
  <2>4. \A x : x \in ToSet(all) \ ToSet(Newest(all))
                 <=> Contains(all, x) /\ ~Contains(Newest(all), x)
    <3>1. \A x : x \in ToSet(all) <=> Contains(all, x) BY <2>1, InSet
    <3>2. \A x : x \in ToSet(Newest(all)) <=> Contains(Newest(all), x) BY <2>3, InSet
    <3> QED BY <3>1, <3>2
  <2>5. ToSet(all) \subseteq Keys BY <2>1 DEF ToSet
  <2>6. /\ Append(k.new, m) \in Seq(Messages) /\ Append(k.new, m) # <<>>
        /\ \A x : Contains(Append(k.new, m), x) <=> Contains(k.new, x) \/ x = m
    <3>1. /\ Append(k.new, m) \in Seq(Messages) /\ Len(k.new) \in Nat
          /\ Len(Append(k.new, m)) = Len(k.new) + 1
          /\ \A x : Contains(Append(k.new, m), x) <=> Contains(k.new, x) \/ x = m
      BY <1>1, <1>2, InAppended
    <3>2. Len(Append(k.new, m)) > 0 BY <3>1
    <3> QED BY <3>1, <3>2
  <2>7. /\ r.seen = Newest(all) /\ r.fresh = Append(k.fresh, m) /\ r.new = Append(k.new, m)
        /\ r.out = k.out \union (ToSet(all) \ ToSet(Newest(all)))
    BY <2>2
  <2>8. r \in Knowns BY <1>2, <1>5, <2>2, <2>3, <2>5, <2>6 DEF Knowns
  <2> HIDE DEF r
  <2>9. \A x : Contains(k.seen, x) => Contains(r.seen, x) \/ x \in r.out
    BY <2>1, <2>4, <2>7
  <2>10. \A i \in 1 .. n + 1 : Contains(r.fresh, messages[i]) \/ Contains(s, messages[i])
    BY <1>3, <1>5, <1>6, <2>7 DEF m
  <2>11. ASSUME NEW i \in 1 .. Len(r.fresh), Keyed(r.fresh[i]), r.fresh[i] \notin r.out
         PROVE  /\ Contains(r.seen, r.fresh[i]) /\ ~Contains(s, r.fresh[i])
                /\ Contains(r.new, r.fresh[i])
                /\ \A h \in 1 .. Len(r.fresh) : r.fresh[h] = r.fresh[i] => h = i
    <3>0. Len(r.fresh) = Len(k.fresh) + 1 BY <1>5, <2>7
    <3>1. CASE i \in 1 .. Len(k.fresh)
      <4>1. r.fresh[i] = k.fresh[i] /\ k.fresh[i] \notin k.out BY <1>5, <2>7, <2>11, <3>1
      <4>2. /\ Contains(k.seen, k.fresh[i]) /\ ~Contains(s, k.fresh[i])
            /\ Contains(k.new, k.fresh[i])
            /\ \A h \in 1 .. Len(k.fresh) : k.fresh[h] = k.fresh[i] => h = i
        BY <1>4, <2>11, <3>1, <4>1
      <4>3. m # k.fresh[i] BY <1>10, <4>2
      <4>4. \A h \in 1 .. Len(r.fresh) : r.fresh[h] = r.fresh[i] => h = i
        BY <1>5, <1>7, <2>7, <3>0, <4>1, <4>2, <4>3
      <4> QED BY <2>6, <2>7, <2>9, <2>11, <4>1, <4>2, <4>4
    <3>2. CASE i = Len(k.fresh) + 1
      <4>1. r.fresh[i] = m /\ m \notin k.out BY <1>5, <2>7, <2>11, <3>2
      <4>2. ~Contains(s, m) BY <1>3, <1>10, <4>1
      <4>3. \A h \in 1 .. Len(k.fresh) : k.fresh[h] # m
        BY <1>4, <1>10, <4>1
      <4>4. \A h \in 1 .. Len(r.fresh) : r.fresh[h] = r.fresh[i] => h = i
        BY <1>5, <1>7, <2>7, <3>0, <3>2, <4>1, <4>3
      <4> QED BY <2>3, <2>6, <2>7, <4>1, <4>2, <4>4
    <3> QED BY <1>7, <3>0, <3>1, <3>2
  <2>12. /\ \A x : Contains(r.seen, x) => Contains(s, x) \/ Contains(r.fresh, x)
         /\ \A x : Contains(s, x) => Contains(r.seen, x) \/ x \in r.out
         /\ \A x : Contains(r.new, x) =>
              Contains(r.fresh, x) /\ (Contains(r.seen, x) \/ x \in r.out)
         /\ r.new # <<>>
    <3>1. /\ \A x : Contains(r.seen, x) => Contains(s, x) \/ Contains(r.fresh, x)
          /\ \A x : Contains(s, x) => Contains(r.seen, x) \/ x \in r.out
      BY <1>3, <1>5, <2>1, <2>3, <2>7, <2>9
    <3>2. ASSUME NEW x, Contains(r.new, x)
          PROVE  Contains(r.fresh, x) /\ (Contains(r.seen, x) \/ x \in r.out)
      <4>1. CASE x = m BY <1>5, <2>3, <2>7, <4>1
      <4>2. CASE Contains(k.new, x) BY <1>3, <1>5, <2>7, <2>9, <4>2
      <4> QED BY <2>6, <2>7, <3>2, <4>1, <4>2
    <3> QED BY <2>6, <2>7, <3>1, <3>2
  <2>13. Accounted(r, s, messages, n + 1)
    BY <2>3, <2>7, <2>8, <2>10, <2>11, <2>12 DEF Accounted
  <2> QED BY <2>13 DEF r, m
<1> QED BY <1>8, <1>9, <1>10

\* g follows the messages one by one, up to the n-th.
Follows(g, start, messages, n) ==
  g = [i \in 0 .. n |-> IF i = 0 THEN start ELSE Take(g[i - 1], messages[i])]

Below == {ss \in Nat \X Nat : ss[1] < ss[2]}

\* What fails of some number fails of a first one.
LEMMA HasFirst ==
  ASSUME NEW F \in SUBSET Nat, F # {}
  PROVE  \E n \in F : \A h \in F : ~(h < n)
<1>1. IsWellFoundedOn(Below, Nat)
  BY NatLessThanWellFounded DEF OpToRel, Below
<1>2. \E n \in F : \A h \in F : ~(<<h, n>> \in Below)
  BY <1>1, WFMin
<1> QED BY <1>2 DEF Below

\* The definition of Taken has a meaning.
LEMMA FollowsExists ==
  ASSUME NEW start, NEW messages, NEW n \in Nat
  PROVE  \E g : Follows(g, start, messages, n)
<1> DEFINE F == {h \in Nat : ~ \E g : Follows(g, start, messages, h)}
<1>1. SUFFICES F = {} OBVIOUS
<1>2. SUFFICES ASSUME F # {} PROVE FALSE OBVIOUS
<1>3. PICK h \in F : \A l \in F : ~(l < h) BY <1>2, HasFirst
<1>4. h \in Nat /\ ~ \E g : Follows(g, start, messages, h) OBVIOUS
<1>5. \A l \in Nat : l < h => \E g : Follows(g, start, messages, l) BY <1>3
<1> HIDE DEF F
<1>6. CASE h = 0
  <2> DEFINE g == [i \in 0 .. h |-> start]
  <2>1. g = [i \in 0 .. h |-> IF i = 0 THEN start ELSE Take(g[i - 1], messages[i])]
    BY <1>6
  <2> HIDE DEF g
  <2> QED BY <1>4, <2>1 DEF Follows
<1>7. CASE h # 0
  <2>1. h - 1 \in Nat /\ h - 1 < h BY <1>4, <1>7
  <2>2. PICK e : Follows(e, start, messages, h - 1) BY <1>5, <2>1
  <2> DEFINE g == [i \in 0 .. h |-> IF i = h THEN Take(e[h - 1], messages[h]) ELSE e[i]]
  <2>3. \A i \in 0 .. h - 1 :
          e[i] = IF i = 0 THEN start ELSE Take(e[i - 1], messages[i])
    BY <2>2 DEF Follows
  <2>4. \A i \in 0 .. h :
          g[i] = IF i = 0 THEN start ELSE Take(g[i - 1], messages[i])
    <3> SUFFICES ASSUME NEW i \in 0 .. h
                 PROVE  g[i] = IF i = 0 THEN start ELSE Take(g[i - 1], messages[i])
      OBVIOUS
    <3>1. CASE i = h
      <4>1. h - 1 \in 0 .. h /\ h - 1 # h BY <1>4, <2>1
      <4>2. g[h - 1] = e[h - 1] BY <4>1
      <4>3. g[i] = Take(e[h - 1], messages[h]) BY <3>1
      <4> HIDE DEF g
      <4> QED BY <1>7, <3>1, <4>2, <4>3
    <3>2. CASE i # h
      <4>1. i \in 0 .. h - 1 /\ g[i] = e[i] BY <1>4, <3>2
      <4>2. CASE i = 0
        <5> HIDE DEF g
        <5> QED BY <2>3, <4>1, <4>2
      <4>3. CASE i # 0
        <5>1. i - 1 \in 0 .. h /\ i - 1 # h BY <1>4, <3>2, <4>3
        <5>2. g[i - 1] = e[i - 1] BY <5>1
        <5> HIDE DEF g
        <5> QED BY <2>3, <4>1, <4>3, <5>2
      <4> QED BY <4>2, <4>3
    <3> QED BY <3>1, <3>2
  <2>5. g = [i \in 0 .. h |-> g[i]] OBVIOUS
  <2> HIDE DEF g
  <2>6. Follows(g, start, messages, h) BY <2>4, <2>5 DEF Follows
  <2> QED BY <1>4, <2>6
<1> QED BY <1>6, <1>7

LEMMA TakenFollows ==
  ASSUME NEW start, NEW messages, Len(messages) \in Nat
  PROVE  \E g : /\ Follows(g, start, messages, Len(messages))
                /\ Taken(start, messages) = g[Len(messages)]
<1> DEFINE g == CHOOSE known : Follows(known, start, messages, Len(messages))
<1>1. Follows(g, start, messages, Len(messages)) BY FollowsExists
<1>2. Taken(start, messages) = g[Len(messages)] BY DEF Taken, Follows
<1> QED BY <1>1, <1>2

\* So of all the messages in hand is known what is of each.
LEMMA TakenAccounts ==
  ASSUME NEW s \in Seq(Keys), Len(s) <= MaxSeen, NEW messages \in Seq(Messages)
  PROVE  Accounted(Taken([seen |-> s, fresh |-> <<>>, new |-> <<>>, out |-> {}], messages),
                   s, messages, Len(messages))
<1> DEFINE start == [seen |-> s, fresh |-> <<>>, new |-> <<>>, out |-> {}]
           l == Len(messages)
<1>0. l \in Nat OBVIOUS
<1>1. Accounted(start, s, messages, 0)
  <2>1. start \in Knowns BY EmptyHasNone DEF Knowns
  <2> QED BY <2>1, EmptyHasNone DEF Accounted
<1> HIDE DEF start
<1>2. PICK g : Follows(g, start, messages, l) /\ Taken(start, messages) = g[l]
  BY <1>0, TakenFollows
<1> HIDE DEF l
<1>3. \A i \in 0 .. l : g[i] = IF i = 0 THEN start ELSE Take(g[i - 1], messages[i])
  BY <1>2 DEF Follows
<1> DEFINE F == {n \in Nat : n <= l /\ ~Accounted(g[n], s, messages, n)}
<1>4. F = {}
  <2>1. SUFFICES ASSUME F # {} PROVE FALSE OBVIOUS
  <2>2. PICK n \in F : \A h \in F : ~(h < n) BY <2>1, HasFirst
  <2>3. n \in 0 .. l /\ ~Accounted(g[n], s, messages, n) BY <1>0
  <2>4. \A h \in Nat : h < n => Accounted(g[h], s, messages, h) BY <1>0, <2>2, <2>3
  <2> HIDE DEF F
  <2>5. CASE n = 0
    <3>1. g[n] = start BY <1>3, <2>3, <2>5
    <3> QED BY <1>1, <2>3, <2>5, <3>1
  <2>6. CASE n # 0
    <3> DEFINE p == n - 1
    <3>1. p \in Nat /\ p < n /\ p + 1 = n /\ p + 1 \in 1 .. Len(messages)
      BY <1>0, <2>3, <2>6 DEF l
    <3>2. g[n] = Take(g[p], messages[n]) BY <1>3, <2>3, <2>6
    <3> HIDE DEF p
    <3>3. Accounted(g[p], s, messages, p) BY <2>4, <3>1
    <3>4. Accounted(Take(g[p], messages[p + 1]), s, messages, p + 1)
      BY <3>1, <3>3, TakeAccounts
    <3> QED BY <2>3, <3>1, <3>2, <3>4
  <2> QED BY <2>5, <2>6
<1>5. Accounted(g[l], s, messages, l) BY <1>0, <1>4
<1> QED BY <1>2, <1>5 DEF start, l

-----------------------------------------------------------------------------
(* What every step keeps.                                                  *)

LEMMA LoopIsThread == Loop \in Threads
BY DEF Threads

LEMMA IdleJob ==
  /\ Idle \in Jobs /\ Idle.pc = "idle" /\ Idle.feed = "telegram" /\ Idle.asked = 0
  /\ Idle.batch = <<>> /\ Idle.got = <<>> /\ Idle.keys = <<>> /\ Idle.snap = <<>>
BY EmptyHasNone DEF Idle, Jobs, Feeds

\* What is held stays so if no thread but p moves, and p passes on what it has.
LEMMA HeldStays ==
  ASSUME NEW p \in Threads, \A t \in Threads \ {p} : job'[t] = job[t],
         accepted \subseteq accepted', dropped \subseteq dropped',
         job[p].pc \in Polling =>
           \A x : Contains(job[p].got, x) =>
             \/ job'[p].pc \in Polling /\ Contains(job'[p].got, x)
             \/ x \in accepted' \union dropped'
  PROVE  \A x : Held(x) => Held(x)'
<1> SUFFICES ASSUME NEW x, Held(x) PROVE Held(x)' OBVIOUS
<1>1. CASE x \in accepted \union dropped BY <1>1 DEF Held
<1>2. ASSUME NEW t \in Threads, job[t].pc \in Polling, Contains(job[t].got, x)
      PROVE  Held(x)'
  <2>1. CASE t = p BY <1>2, <2>1 DEF Held
  <2>2. CASE t # p
    <3>1. job'[t] = job[t] BY <2>2
    <3> QED BY <1>2, <3>1 DEF Held
  <2> QED BY <2>1, <2>2
<1> QED BY <1>1, <1>2 DEF Held

LEMMA BehindStays ==
  ASSUME BehindIsHeld, \A x : Held(x) => Held(x)',
         UNCHANGED <<cursor, confirmed>>
  PROVE  BehindIsHeld'
BY DEF BehindIsHeld

LEMMA LinesStay ==
  ASSUME LinesAreHeld, \A x : Held(x) => Held(x)', UNCHANGED <<inbox, unwritten>>
  PROVE  LinesAreHeld'
BY DEF LinesAreHeld

LEMMA AskedStays ==
  ASSUME NEW t \in Threads, Asked(t), \A x : Held(x) => Held(x)', job'[t] = job[t]
  PROVE  Asked(t)'
BY DEF Asked

\* The keys of the file stay where no line and no compaction moves.
LEMMA KeptSame ==
  ASSUME NEW p \in Threads, \A t \in Threads \ {p} : job'[t] = job[t],
         job[p].pc # "rewrite", job'[p].pc # "rewrite", saved' = saved
  PROVE  Kept' = Kept
<1>1. ASSUME NEW t \in Threads, NEW m
      PROVE  (job'[t].pc = "rewrite" /\ Contains(job'[t].snap, m))
               <=> (job[t].pc = "rewrite" /\ Contains(job[t].snap, m))
  <2>1. CASE t = p BY <2>1
  <2>2. CASE t # p
    <3>1. job'[t] = job[t] BY <2>2
    <3> QED BY <3>1
  <2> QED BY <2>1, <2>2
<1>2. \A m : Contains(saved', <<m>>) <=> Contains(saved, <<m>>) OBVIOUS
<1> QED BY <1>1, <1>2 DEF Kept

\* A step of a poll has nothing to do with keys and runs.
LEMMA KeysStay ==
  ASSUME InboundInv, NEW p \in Threads, \A t \in Threads \ {p} : job'[t] = job[t],
         job[p].pc \notin Saving, job'[p].pc \notin Saving,
         job'[p].keys = <<>>, job'[p].snap = <<>>,
         UNCHANGED <<seen, saved, open, accepted, ran, evicted, lost, troubled>>
  PROVE  FileFits' /\ KeysOfAccepted' /\ KeysAreKnown' /\ Orderly' /\ RanIsSaved' /\ LoopWork'
<1>1. /\ FileFits /\ KeysOfAccepted /\ KeysAreKnown /\ Orderly /\ RanIsSaved /\ LoopWork
  BY DEF InboundInv
<1>2. Kept' = Kept BY KeptSame DEF Saving
<1>3. KeysOfAccepted'
  <2>1. ASSUME NEW t \in Threads
        PROVE  /\ \A x : Contains(job'[t].keys, x) => x \in accepted
               /\ \A x : Contains(job'[t].snap, x) => x \in accepted \union {Scrap}
               /\ job'[t].pc \in Saving =>
                    \A x : Contains(job'[t].got, x) => x \in accepted
    <3>1. CASE t = p BY <3>1, EmptyHasNone
    <3>2. CASE t # p
      <4>1. job'[t] = job[t] BY <3>2
      <4> QED BY <1>1, <4>1 DEF KeysOfAccepted
    <3> QED BY <3>1, <3>2
  <2> QED BY <1>1, <2>1 DEF KeysOfAccepted
<1>4. KeysAreKnown'
  <2>1. ASSUME NEW t \in Threads, NEW m \in Messages,
               Contains(job'[t].keys, m) \/ Contains(job'[t].snap, m)
        PROVE  Contains(seen, m) \/ m \in evicted
    <3>1. t # p BY <2>1, EmptyHasNone
    <3>2. job'[t] = job[t] BY <3>1
    <3> QED BY <1>1, <2>1, <3>2 DEF KeysAreKnown
  <2> QED BY <1>1, <1>2, <2>1 DEF KeysAreKnown
<1>5. Orderly'
  <2> SUFFICES ASSUME ~troubled
               PROVE  /\ \A t, u \in Persisting' : t = u
                      /\ open => \E t \in Threads : job'[t].pc = "newline"
                      /\ \A t \in Threads : job'[t].pc = "rewrite" => saved = <<>>
                      /\ \A t \in Threads : job'[t].snap # <<>> => job'[t].snap = seen
                      /\ lost \subseteq evicted
    BY DEF Orderly
  <2>1. /\ \A t, u \in Persisting : t = u
        /\ open => \E t \in Threads : job[t].pc = "newline"
        /\ \A t \in Threads : job[t].pc = "rewrite" => saved = <<>>
        /\ \A t \in Threads : job[t].snap # <<>> => job[t].snap = seen
        /\ lost \subseteq evicted
    BY <1>1 DEF Orderly
  <2>2. Persisting' \subseteq Persisting BY DEF Persisting, Saving
  <2>3. ASSUME open PROVE \E t \in Threads : job'[t].pc = "newline"
    <3>1. PICK t \in Threads : job[t].pc = "newline" BY <2>1, <2>3
    <3>2. t # p BY <3>1 DEF Saving
    <3> QED BY <3>1, <3>2
  <2>4. ASSUME NEW t \in Threads
        PROVE  /\ job'[t].pc = "rewrite" => saved = <<>>
               /\ job'[t].snap # <<>> => job'[t].snap = seen
    <3>1. CASE t = p BY <3>1 DEF Saving
    <3>2. CASE t # p
      <4>1. job'[t] = job[t] BY <3>2
      <4> QED BY <2>1, <4>1
    <3> QED BY <3>1, <3>2
  <2> QED BY <2>1, <2>2, <2>3, <2>4
<1>6. \/ job'[Loop] = job[Loop]
      \/ job[Loop].pc \notin Saving /\ job'[Loop].pc \notin Saving
  BY LoopIsThread
<1>7. RanIsSaved' BY <1>1, <1>2, <1>6 DEF RanIsSaved, Safe
<1>8. LoopWork' BY <1>1, <1>2, <1>6 DEF LoopWork, Safe
<1>9. FileFits' BY <1>1 DEF FileFits
<1> QED BY <1>3, <1>4, <1>5, <1>7, <1>8, <1>9

\* The parts of the invariant that are about one thread.
LEMMA FitsStay ==
  ASSUME \A t \in Threads : JobFits(t), NEW p \in Threads, JobFits(p)',
         \A t \in Threads \ {p} : job'[t] = job[t]
  PROVE  \A t \in Threads : JobFits(t)'
<1> SUFFICES ASSUME NEW t \in Threads PROVE JobFits(t)' OBVIOUS
<1>1. CASE t = p BY <1>1
<1>2. CASE t # p
  <2>1. job'[t] = job[t] BY <1>2
  <2> QED BY <2>1 DEF JobFits
<1> QED BY <1>1, <1>2

\* A step of a poll of p.
LEMMA PollKeeps ==
  ASSUME InboundInv, NEW p \in Threads, NEW j \in Jobs,
         job' = [job EXCEPT ![p] = j],
         job[p].pc \notin Saving, JobFits(p)', j.pc \notin Saving,
         UNCHANGED <<unwritten, seen, file, accepted, ran, fate, sent, restarts>>,
         cursor' \in [Feeds -> Nat], confirmed' \in Nat, inbox' \in Seq(Lines),
         failures' \in 0 .. MaxFailures,
         dropped \subseteq dropped', dropped' \subseteq Messages,
         job[p].pc \in Polling =>
           \A x : Contains(job[p].got, x) =>
             (j.pc \in Polling /\ Contains(j.got, x)) \/ x \in dropped',
         (\A x : Held(x) => Held(x)') =>
           BehindIsHeld' /\ Asked(p)' /\ LinesAreHeld'
  PROVE  InboundInv'
<1>1. job \in [Threads -> Jobs] BY DEF InboundInv, InboundTypes
<1>2. /\ job'[p] = j /\ job' \in [Threads -> Jobs]
      /\ \A t \in Threads \ {p} : job'[t] = job[t]
  BY <1>1
<1>3. InboundTypes' BY <1>2 DEF file, fate, InboundInv, InboundTypes
<1>4. \A x : Held(x) => Held(x)' BY <1>2, HeldStays
<1>5. \A t \in Threads : JobFits(t)' BY <1>2, FitsStay DEF InboundInv
<1>6. \A t \in Threads : Asked(t)'
  <2> SUFFICES ASSUME NEW t \in Threads PROVE Asked(t)' OBVIOUS
  <2>1. CASE t = p BY <1>4, <2>1
  <2>2. CASE t # p BY <1>2, <1>4, <2>2, AskedStays DEF InboundInv
  <2> QED BY <2>1, <2>2
<1>7. FileFits' /\ KeysOfAccepted' /\ KeysAreKnown' /\ Orderly' /\ RanIsSaved' /\ LoopWork'
  <2>1. j.keys = <<>> /\ j.snap = <<>> BY <1>2 DEF JobFits
  <2> QED BY <1>2, <2>1, KeysStay DEF file, fate
<1>8. BehindIsHeld' /\ LinesAreHeld' BY <1>4
<1> QED BY <1>3, <1>5, <1>6, <1>7, <1>8 DEF InboundInv

-----------------------------------------------------------------------------
(* The steps of a poll.                                                    *)

LEMMA MessagesOfFeeds ==
  /\ \A f \in Feeds : \A n \in 1 .. MaxSent : Of(f, n) \in Messages
  /\ \A l \in Lines \union Hooked : Text(l) \in Messages
BY DEF Messages

LEMMA AskInv ==
  ASSUME InboundInv, NEW p \in Threads, Ask(p)
  PROVE  InboundInv'
<1> DEFINE j == [job[p] EXCEPT !.pc = "answer", !.asked = cursor[job[p].feed]]
<1>1. /\ job \in [Threads -> Jobs] /\ job[p] \in Jobs /\ cursor \in [Feeds -> Nat]
      /\ job[p].feed \in Feeds
  BY DEF InboundInv, InboundTypes, Jobs
<1>2. /\ job[p].pc \in {"idle", "ask"} /\ job' = [job EXCEPT ![p] = j]
      /\ UNCHANGED <<world, memory, file, count, history>>
  BY <1>1 DEF Ask
<1>3. /\ j \in Jobs /\ j.pc = "answer" /\ j.asked = cursor[job[p].feed]
      /\ j.feed = job[p].feed /\ j.batch = job[p].batch /\ j.got = job[p].got
      /\ j.keys = job[p].keys /\ j.snap = job[p].snap
  BY <1>1 DEF Jobs, Polling
<1> HIDE DEF j
<1>4. job'[p] = j BY <1>1, <1>2
<1>5. JobFits(p)' BY <1>2, <1>3, <1>4 DEF InboundInv, JobFits, Saving
<1>6. ASSUME \A x : Held(x) => Held(x)'
      PROVE  BehindIsHeld' /\ Asked(p)' /\ LinesAreHeld'
  <2>1. BehindIsHeld' /\ LinesAreHeld'
    BY <1>2, <1>6, BehindStays, LinesStay DEF world, memory, InboundInv
  <2>2. \A n \in 1 .. cursor[j.feed] : Held(Of(j.feed, n))
    BY <1>1, <1>3 DEF InboundInv, BehindIsHeld
  <2>3. Asked(p)' BY <1>3, <1>4, <1>6, <2>2 DEF Asked
  <2> QED BY <2>1, <2>3
<1> QED
  BY <1>1, <1>2, <1>3, <1>5, <1>6, PollKeeps
  DEF Saving, Polling, world, memory, count, history, InboundInv, InboundTypes

LEMMA AnswerInv ==
  ASSUME InboundInv, NEW p \in Threads, Answer(p)
  PROVE  InboundInv'
<1> DEFINE feed == job[p].feed
           asked == job[p].asked
           gone == IF feed = "telegram" THEN Larger(confirmed, asked) ELSE asked
           batch == [i \in 1 .. sent[feed] - gone |-> Of(feed, gone + i)]
           j == [job[p] EXCEPT !.pc = "advance", !.batch = batch]
<1>1. /\ job \in [Threads -> Jobs] /\ job[p] \in Jobs /\ feed \in Feeds /\ asked \in Nat
      /\ confirmed \in Nat
  BY DEF InboundInv, InboundTypes, Jobs
<1>2. /\ job[p].pc = "answer" /\ job' = [job EXCEPT ![p] = j]
      /\ confirmed' = IF feed = "telegram" THEN gone ELSE confirmed
      /\ UNCHANGED <<sent, inbox, unwritten, memory, file, count, history>>
  BY <1>1 DEF Answer
<1>3. gone \in Nat /\ asked <= gone BY <1>1 DEF Larger
<1>4. sent[feed] \in 0 .. MaxSent
  BY <1>1, InboundAssumption DEF InboundInv, InboundTypes, Feeds
<1> HIDE DEF gone
<1> DEFINE size == IF sent[feed] >= gone THEN sent[feed] - gone ELSE 0
<1>5. batch = [i \in 1 .. size |-> Of(feed, gone + i)] /\ size \in Nat
  <2>1. size \in Nat BY <1>3, <1>4
  <2>2. 1 .. sent[feed] - gone = 1 .. size BY <1>3, <1>4
  <2> HIDE DEF size
  <2> QED BY <2>1, <2>2
<1>6. batch \in Seq(Messages) /\ \A i \in 1 .. Len(batch) : batch[i] = Of(feed, gone + i)
  <2>1. \A i \in 1 .. size : Of(feed, gone + i) \in Messages
    <3> SUFFICES ASSUME NEW i \in 1 .. size PROVE Of(feed, gone + i) \in Messages
      OBVIOUS
    <3>1. gone + i \in 1 .. MaxSent BY <1>3, <1>4, InboundAssumption
    <3> QED BY <1>1, <3>1, MessagesOfFeeds
  <2> HIDE DEF batch, size
  <2>2. batch \in [1 .. size -> Messages] /\ Len(batch) = size BY <1>5, <2>1
  <2> QED BY <1>5, <2>2
<1> HIDE DEF batch
<1>7. /\ j \in Jobs /\ j.pc = "advance" /\ j.asked = asked /\ j.feed = feed
      /\ j.batch = batch /\ j.got = job[p].got
      /\ j.keys = job[p].keys /\ j.snap = job[p].snap
  BY <1>1, <1>6 DEF Jobs, Polling
<1> HIDE DEF j
<1>8. job'[p] = j BY <1>1, <1>2
<1>9. JobFits(p)' BY <1>2, <1>7, <1>8 DEF InboundInv, JobFits, Saving
<1>10. ASSUME \A x : Held(x) => Held(x)'
       PROVE  BehindIsHeld' /\ Asked(p)' /\ LinesAreHeld'
  <2>1. LinesAreHeld' BY <1>2, <1>10, LinesStay DEF InboundInv
  <2>2. \A n \in 1 .. asked : Held(Of(feed, n)) BY <1>2 DEF InboundInv, Asked
  <2>3. \A n \in 1 .. confirmed : Held(Of("telegram", n)) BY DEF InboundInv, BehindIsHeld
  <2>4. \A n \in 1 .. gone : Held(Of(feed, n))
    BY <1>1, <2>2, <2>3 DEF gone, Larger
  <2>5. Asked(p)'
    BY <1>3, <1>6, <1>7, <1>8, <1>10, <2>4 DEF Asked
  <2>6. BehindIsHeld'
    <3>1. \A n \in 1 .. confirmed' : Held(Of("telegram", n))
      BY <1>2, <2>3, <2>4
    <3> QED BY <1>2, <1>10, <3>1 DEF InboundInv, BehindIsHeld, memory
  <2> QED BY <2>1, <2>5, <2>6
<1>11. confirmed' \in Nat BY <1>1, <1>2, <1>3
<1> QED
  BY <1>1, <1>2, <1>7, <1>9, <1>10, <1>11, PollKeeps
  DEF Saving, Polling, memory, count, history, InboundInv, InboundTypes

LEMMA RefusedInv ==
  ASSUME InboundInv, NEW p \in Threads, Refused(p)
  PROVE  InboundInv'
<1> DEFINE j == [job[p] EXCEPT !.pc = NextFeed(p), !.asked = 0]
<1>1. /\ job \in [Threads -> Jobs] /\ job[p] \in Jobs
      /\ failures \in Nat /\ MaxFailures \in Nat
  BY InboundAssumption DEF InboundInv, InboundTypes
<1>2. /\ job[p].pc = "answer" /\ job' = [job EXCEPT ![p] = j]
      /\ failures < MaxFailures /\ failures' = failures + 1
      /\ UNCHANGED <<world, memory, file, restarts, history>>
  BY <1>1 DEF Refused, Failing
<1>3. /\ j \in Jobs /\ j.pc \in {"read", "remember"} /\ j.batch = job[p].batch
      /\ j.got = job[p].got /\ j.keys = job[p].keys /\ j.snap = job[p].snap
  BY <1>1 DEF Jobs, Polling, NextFeed
<1> HIDE DEF j
<1>4. job'[p] = j BY <1>1, <1>2
<1>5. JobFits(p)' BY <1>2, <1>3, <1>4 DEF InboundInv, JobFits, Saving
<1>6. ASSUME \A x : Held(x) => Held(x)'
      PROVE  BehindIsHeld' /\ Asked(p)' /\ LinesAreHeld'
  <2>1. BehindIsHeld' /\ LinesAreHeld'
    BY <1>2, <1>6, BehindStays, LinesStay DEF world, memory, InboundInv
  <2>2. Asked(p)' BY <1>3, <1>4 DEF Asked
  <2> QED BY <2>1, <2>2
<1>7. failures' \in 0 .. MaxFailures BY <1>1, <1>2
<1> QED
  BY <1>1, <1>2, <1>3, <1>5, <1>6, <1>7, PollKeeps
  DEF Saving, Polling, world, memory, history, InboundInv, InboundTypes

LEMMA AdvanceInv ==
  ASSUME InboundInv, NEW p \in Threads, Advance(p)
  PROVE  InboundInv'
<1> DEFINE feed == job[p].feed
           batch == job[p].batch
           last == IF batch = <<>> THEN job[p].asked ELSE Last(batch)[2]
           j == [job[p] EXCEPT !.pc = NextFeed(p), !.got = @ \o batch,
                               !.asked = 0, !.batch = <<>>]
<1>1. /\ job \in [Threads -> Jobs] /\ job[p] \in Jobs /\ feed \in Feeds
      /\ batch \in Seq(Messages) /\ job[p].got \in Seq(Messages) /\ job[p].asked \in Nat
      /\ cursor \in [Feeds -> Nat]
  BY DEF InboundInv, InboundTypes, Jobs
<1>2. /\ job[p].pc = "advance" /\ job' = [job EXCEPT ![p] = j]
      /\ cursor' = IF feed = "telegram" \/ last > job[p].asked
                   THEN [cursor EXCEPT ![feed] = last] ELSE cursor
      /\ UNCHANGED <<world, seen, file, count, history>>
  BY <1>1 DEF Advance
<1>0. PICK f \in Feeds : f = feed BY <1>1
<1>3. PICK gone \in Nat :
        /\ job[p].asked <= gone
        /\ \A n \in 1 .. gone : Held(Of(f, n))
        /\ \A i \in 1 .. Len(batch) : batch[i] = Of(f, gone + i)
  BY <1>0, <1>2 DEF InboundInv, Asked
<1>4. /\ job[p].got \o batch \in Seq(Messages)
      /\ \A x : Contains(job[p].got \o batch, x)
                  <=> Contains(job[p].got, x) \/ Contains(batch, x)
  BY <1>1, InJoined
<1>5. /\ j \in Jobs /\ j.pc \in {"read", "remember"} /\ j.batch = <<>>
      /\ j.got = job[p].got \o batch /\ j.keys = job[p].keys /\ j.snap = job[p].snap
  BY <1>1, <1>4, EmptyHasNone DEF Jobs, Polling, NextFeed
<1>6. last \in Nat /\ \A n \in 1 .. last : Held(Of(f, n)) \/ Contains(batch, Of(f, n))
  <2>1. CASE batch = <<>> BY <1>1, <1>3, <2>1
  <2>2. CASE batch # <<>>
    <3>1. Len(batch) \in Nat /\ Len(batch) \in 1 .. Len(batch) BY <1>1, <2>2
    <3>2. Last(batch) = Of(f, gone + Len(batch)) BY <1>3, <3>1 DEF Last
    <3>3. last = gone + Len(batch) BY <2>2, <3>2 DEF Of
    <3> HIDE DEF last, batch
    <3>4. ASSUME NEW n \in 1 .. gone + Len(batch), n \notin 1 .. gone
          PROVE  Contains(batch, Of(f, n))
      <4>1. n - gone \in 1 .. Len(batch) /\ gone + (n - gone) = n BY <1>3, <3>1, <3>4
      <4>2. batch[n - gone] = Of(f, n) BY <1>3, <4>1
      <4> QED BY <4>1, <4>2 DEF Contains
    <3> QED BY <1>3, <3>1, <3>3, <3>4
  <2> QED BY <2>1, <2>2
<1> HIDE DEF j, last, batch
<1>7. job'[p] = j BY <1>1, <1>2
<1>8. JobFits(p)' BY <1>2, <1>5, <1>7 DEF InboundInv, JobFits, Saving
<1>9. cursor' \in [Feeds -> Nat] BY <1>1, <1>2, <1>6
<1>10. ASSUME \A x : Held(x) => Held(x)'
       PROVE  BehindIsHeld' /\ Asked(p)' /\ LinesAreHeld'
  <2>1. LinesAreHeld' BY <1>2, <1>10, LinesStay DEF world, InboundInv
  <2>2. Asked(p)' BY <1>5, <1>7 DEF Asked
  <2>3. \A x : Contains(batch, x) => Held(x)'
    BY <1>4, <1>5, <1>7 DEF Held, Polling
  <2>4. ASSUME NEW n \in 1 .. last PROVE Held(Of(f, n))'
    BY <1>6, <1>10, <2>3
  <2>5. ASSUME NEW e \in Feeds, NEW n \in 1 .. cursor'[e] PROVE Held(Of(e, n))'
    <3>1. n \in 1 .. cursor[e] \/ (e = f /\ n \in 1 .. last) BY <1>0, <1>1, <1>2
    <3>2. \A h \in 1 .. cursor[e] : Held(Of(e, h)) BY DEF InboundInv, BehindIsHeld
    <3> QED BY <1>10, <2>4, <3>1, <3>2
  <2>6. \A n \in 1 .. confirmed' : Held(Of("telegram", n))'
    BY <1>2, <1>10 DEF InboundInv, BehindIsHeld, world
  <2> QED BY <2>1, <2>2, <2>5, <2>6 DEF BehindIsHeld
<1>11. \A x : Contains(job[p].got, x) => j.pc \in Polling /\ Contains(j.got, x)
  BY <1>4, <1>5 DEF Polling
<1>12. /\ job[p].pc \notin Saving /\ j.pc \notin Saving
  BY <1>2, <1>5 DEF Saving
<1> QED
  BY <1>1, <1>2, <1>5, <1>8, <1>9, <1>10, <1>11, <1>12, PollKeeps
  DEF world, count, history, InboundInv, InboundTypes

LEMMA ReadLinesInv ==
  ASSUME InboundInv, NEW p \in Threads, ReadLines(p)
  PROVE  InboundInv'
<1> DEFINE lines == Texts(inbox)
           j == [job[p] EXCEPT !.pc = IF inbox = <<>> THEN "ask" ELSE "remove",
                               !.feed = IF inbox = <<>> THEN "slack" ELSE @,
                               !.got = @ \o lines]
<1>1. /\ job \in [Threads -> Jobs] /\ job[p] \in Jobs /\ inbox \in Seq(Lines)
      /\ job[p].got \in Seq(Messages)
  BY DEF InboundInv, InboundTypes, Jobs
<1>2. /\ job[p].pc = "read" /\ job' = [job EXCEPT ![p] = j]
      /\ UNCHANGED <<world, memory, file, count, history>>
  BY <1>1 DEF ReadLines
<1>3. lines \in Seq(Messages)
  <2>1. Len(inbox) \in Nat /\ \A i \in 1 .. Len(inbox) : Text(inbox[i]) \in Messages
    BY <1>1, MessagesOfFeeds
  <2>2. lines \in [1 .. Len(inbox) -> Messages] BY <2>1 DEF Texts
  <2> QED BY <2>1, <2>2
<1> HIDE DEF lines
<1>4. /\ job[p].got \o lines \in Seq(Messages)
      /\ \A x : Contains(job[p].got \o lines, x)
                  <=> Contains(job[p].got, x) \/ Contains(lines, x)
  BY <1>1, <1>3, InJoined
<1>5. /\ j \in Jobs /\ j.pc \in {"ask", "remove"} /\ j.batch = job[p].batch
      /\ j.got = job[p].got \o lines /\ j.keys = job[p].keys /\ j.snap = job[p].snap
  BY <1>1, <1>4 DEF Jobs, Polling, Feeds
<1> HIDE DEF j
<1>7. /\ j \in Jobs /\ j.pc \in {"ask", "remove"} /\ j.batch = job[p].batch
      /\ \A x : Contains(job[p].got, x) => Contains(j.got, x)
      /\ j.keys = job[p].keys /\ j.snap = job[p].snap
  BY <1>4, <1>5
<1>8. job'[p] = j BY <1>1, <1>2
<1>9. JobFits(p)' BY <1>2, <1>7, <1>8 DEF InboundInv, JobFits, Saving
<1>10. ASSUME \A x : Held(x) => Held(x)'
       PROVE  BehindIsHeld' /\ Asked(p)' /\ LinesAreHeld'
  <2>1. BehindIsHeld' /\ LinesAreHeld'
    BY <1>2, <1>10, BehindStays, LinesStay DEF world, memory, InboundInv
  <2>2. Asked(p)' BY <1>7, <1>8 DEF Asked
  <2> QED BY <2>1, <2>2
<1>11. j.pc \in Polling /\ j.pc \notin Saving /\ job[p].pc \notin Saving
  BY <1>2, <1>7 DEF Saving, Polling
<1> QED
  BY <1>1, <1>2, <1>7, <1>9, <1>10, <1>11, PollKeeps
  DEF world, memory, count, history, InboundInv, InboundTypes

LEMMA RemoveLinesInv ==
  ASSUME InboundInv, NEW p \in Threads, RemoveLines(p)
  PROVE  InboundInv'
<1> DEFINE j == [job[p] EXCEPT !.pc = "ask", !.feed = "slack"]
           gone == {Text(l) : l \in ToSet(inbox)} \ ToSet(job[p].got)
<1>1. /\ job \in [Threads -> Jobs] /\ job[p] \in Jobs /\ inbox \in Seq(Lines)
      /\ job[p].got \in Seq(Messages)
      /\ failures \in 0 .. MaxFailures /\ failures \in Nat /\ MaxFailures \in Nat
  <2>1. /\ job \in [Threads -> Jobs] /\ job[p] \in Jobs /\ inbox \in Seq(Lines)
        /\ failures \in 0 .. MaxFailures /\ failures \in Nat /\ MaxFailures \in Nat
    BY InboundAssumption DEF InboundInv, InboundTypes
  <2> QED BY <2>1 DEF Jobs
<1>2. /\ job[p].pc = "remove" /\ job' = [job EXCEPT ![p] = j]
      /\ \/ /\ inbox' = <<>> /\ dropped' = dropped \union gone /\ failures' = failures
         \/ /\ failures < MaxFailures /\ failures' = failures + 1
            /\ inbox' = inbox /\ dropped' = dropped
      /\ UNCHANGED <<sent, confirmed, unwritten, memory, file, restarts,
                     accepted, ran, fate>>
  BY <1>1 DEF RemoveLines, Failing
<1>3. /\ j \in Jobs /\ j.pc = "ask" /\ j.batch = job[p].batch
      /\ j.got = job[p].got /\ j.keys = job[p].keys /\ j.snap = job[p].snap
  BY <1>1 DEF Jobs, Polling, Feeds
<1> HIDE DEF j
<1>4. job'[p] = j BY <1>1, <1>2
<1>5. JobFits(p)' BY <1>2, <1>3, <1>4 DEF InboundInv, JobFits, Saving
<1>6. gone \subseteq Messages
  <2>1. ToSet(inbox) \subseteq Lines BY <1>1 DEF ToSet
  <2> QED BY <2>1, MessagesOfFeeds
<1>7. \A l : Contains(inbox, l) => Text(l) \in gone \/ Contains(job[p].got, Text(l))
  <2>1. /\ \A l : l \in ToSet(inbox) <=> Contains(inbox, l)
        /\ \A x : x \in ToSet(job[p].got) <=> Contains(job[p].got, x)
    BY <1>1, InSet
  <2> QED BY <2>1
<1> HIDE DEF gone
<1>8. /\ dropped \subseteq dropped' /\ dropped' \subseteq Messages
      /\ inbox' \in Seq(Lines) /\ failures' \in 0 .. MaxFailures
  <2>1. dropped \subseteq Messages BY DEF InboundInv, InboundTypes
  <2>2. <<>> \in Seq(Lines) OBVIOUS
  <2>3. CASE inbox' = <<>> /\ dropped' = dropped \union gone /\ failures' = failures
    BY <1>1, <1>6, <2>1, <2>2, <2>3
  <2>4. CASE /\ failures < MaxFailures /\ failures' = failures + 1
             /\ inbox' = inbox /\ dropped' = dropped
    BY <1>1, <2>1, <2>4
  <2> QED BY <1>2, <2>3, <2>4
<1>9. ASSUME \A x : Held(x) => Held(x)'
      PROVE  BehindIsHeld' /\ Asked(p)' /\ LinesAreHeld'
  <2>1. BehindIsHeld' BY <1>2, <1>9, BehindStays DEF memory, InboundInv
  <2>2. Asked(p)' BY <1>3, <1>4 DEF Asked
  <2>3. \A x : Contains(job[p].got, x) => Held(x)' BY <1>3, <1>4 DEF Held, Polling
  <2>4. \A x : x \in dropped' => Held(x)' BY DEF Held
  <2>5. ASSUME NEW l \in Lines \ unwritten
        PROVE  Contains(inbox', l) \/ Held(Text(l))'
    <3>1. CASE Held(Text(l)) BY <1>9, <3>1
    <3>2. CASE Contains(inbox, l)
      <4>1. inbox' = inbox \/ dropped' = dropped \union gone BY <1>2
      <4> QED BY <1>7, <2>3, <2>4, <3>2, <4>1
    <3> QED BY <3>1, <3>2 DEF InboundInv, LinesAreHeld
  <2>6. unwritten' = unwritten BY <1>2
  <2> QED BY <2>1, <2>2, <2>5, <2>6 DEF LinesAreHeld
<1>10. j.pc \in Polling /\ j.pc \notin Saving /\ job[p].pc \notin Saving
  BY <1>2, <1>3 DEF Saving, Polling
<1> QED
  BY <1>1, <1>2, <1>3, <1>5, <1>8, <1>9, <1>10, PollKeeps
  DEF memory, InboundInv, InboundTypes

LEMMA PollFailsInv ==
  ASSUME InboundInv, NEW p \in Threads, PollFails(p)
  PROVE  InboundInv'
<1>1. /\ job \in [Threads -> Jobs] /\ job[p].got \in Seq(Messages)
      /\ failures \in Nat /\ MaxFailures \in Nat
  BY InboundAssumption DEF InboundInv, InboundTypes, Jobs
<1>2. /\ job[p].pc \in {"answer", "read"} /\ job' = [job EXCEPT ![p] = Idle]
      /\ failures < MaxFailures /\ failures' = failures + 1
      /\ dropped' = dropped \union ToSet(job[p].got)
      /\ UNCHANGED <<world, memory, file, restarts, accepted, ran, fate>>
  BY DEF PollFails, Failing
<1>3. job'[p] = Idle BY <1>1, <1>2
<1>4. JobFits(p)' BY <1>3, IdleJob DEF JobFits, Saving
<1>5. /\ ToSet(job[p].got) \subseteq Messages
      /\ \A x : Contains(job[p].got, x) => x \in ToSet(job[p].got)
  BY <1>1, InSet DEF ToSet
<1>6. /\ dropped \subseteq dropped' /\ dropped' \subseteq Messages
      /\ failures' \in 0 .. MaxFailures
  BY <1>1, <1>2, <1>5 DEF InboundInv, InboundTypes
<1>7. ASSUME \A x : Held(x) => Held(x)'
      PROVE  BehindIsHeld' /\ Asked(p)' /\ LinesAreHeld'
  <2>1. BehindIsHeld' /\ LinesAreHeld'
    BY <1>2, <1>7, BehindStays, LinesStay DEF world, memory, InboundInv
  <2>2. Asked(p)' BY <1>3, IdleJob DEF Asked
  <2> QED BY <2>1, <2>2
<1>8. job[p].pc \notin Saving /\ Idle.pc \notin Saving BY <1>2, IdleJob DEF Saving
<1>9. \A x : Contains(job[p].got, x) => x \in dropped' BY <1>2, <1>5
<1> QED
  BY <1>1, <1>2, <1>4, <1>6, <1>7, <1>8, <1>9, IdleJob, PollKeeps
  DEF world, memory, InboundInv, InboundTypes

LEMMA DeliverInv ==
  ASSUME InboundInv, NEW r \in Requests, NEW l \in Hooked, Deliver(r, l)
  PROVE  InboundInv'
<1> DEFINE j == [job[r] EXCEPT !.pc = "remember", !.got = <<Text(l)>>]
<1>1. /\ job \in [Threads -> Jobs] /\ r \in Threads /\ job[r] \in Jobs
  BY DEF InboundInv, InboundTypes, Threads
<1>2. /\ job[r].pc = "idle" /\ job' = [job EXCEPT ![r] = j]
      /\ UNCHANGED <<world, memory, file, count, history>>
  BY <1>1 DEF Deliver
<1>3. <<Text(l)>> \in Seq(Messages) BY MessagesOfFeeds
<1>4. /\ j \in Jobs /\ j.pc = "remember" /\ j.batch = job[r].batch
      /\ j.keys = job[r].keys /\ j.snap = job[r].snap
  BY <1>1, <1>3 DEF Jobs, Polling
<1> HIDE DEF j
<1>5. job'[r] = j BY <1>1, <1>2
<1>6. JobFits(r)' BY <1>1, <1>2, <1>4, <1>5 DEF InboundInv, JobFits, Saving
<1>7. ASSUME \A x : Held(x) => Held(x)'
      PROVE  BehindIsHeld' /\ Asked(r)' /\ LinesAreHeld'
  <2>1. BehindIsHeld' /\ LinesAreHeld'
    BY <1>2, <1>7, BehindStays, LinesStay DEF world, memory, InboundInv
  <2>2. Asked(r)' BY <1>4, <1>5 DEF Asked
  <2> QED BY <2>1, <2>2
<1>8. job[r].pc \notin Saving /\ job[r].pc \notin Polling /\ j.pc \notin Saving
  BY <1>2, <1>4 DEF Saving, Polling
<1> QED
  BY <1>1, <1>2, <1>4, <1>6, <1>7, <1>8, PollKeeps
  DEF world, memory, count, history, InboundInv, InboundTypes

-----------------------------------------------------------------------------
(* The steps of what is accepted.                                          *)

-----------------------------------------------------------------------------
(* The steps of what is accepted.                                          *)

LEMMA SaveOnFits ==
  ASSUME NEW t \in Threads, NEW j \in Jobs, j.got # <<>>, j.batch = <<>>
  PROVE  LET r == SaveOn(t, j)
         IN /\ r \in Jobs /\ r.pc \in {"append", "empty", "run", "idle"} /\ r.batch = <<>>
            /\ r.pc # "idle" => r.got = j.got /\ r.keys = j.keys /\ r.snap = j.snap
            /\ r.pc = "append" <=> r.keys # <<>>
            /\ r.pc = "empty" => r.snap # <<>>
            /\ r.pc = "run" => t = Loop /\ r.keys = <<>> /\ r.snap = <<>>
            /\ r.pc = "idle" => r = Idle /\ j.keys = <<>> /\ j.snap = <<>>
<1>1. CASE j.keys # <<>> BY <1>1 DEF SaveOn, Jobs, Saving
<1>2. CASE j.keys = <<>> /\ j.snap # <<>> BY <1>2 DEF SaveOn, Jobs, Saving
<1>3. CASE j.keys = <<>> /\ j.snap = <<>> /\ t = Loop BY <1>3 DEF SaveOn, Jobs, Saving
<1>4. CASE j.keys = <<>> /\ j.snap = <<>> /\ t # Loop
  BY <1>4, IdleJob DEF SaveOn, Saving
<1> QED BY <1>1, <1>2, <1>3, <1>4

\* A step that takes nothing from the feeds.
LEMMA FeedsStay ==
  ASSUME InboundInv, NEW p \in Threads, NEW j \in Jobs,
         job' = [job EXCEPT ![p] = j], JobFits(p)', j.pc \notin {"answer", "advance"},
         UNCHANGED <<confirmed, inbox, unwritten, cursor, dropped>>,
         accepted \subseteq accepted',
         job[p].pc \in Polling => \A x : Contains(job[p].got, x) => x \in accepted'
  PROVE  /\ job' \in [Threads -> Jobs] /\ job'[p] = j
         /\ \A t \in Threads \ {p} : job'[t] = job[t]
         /\ \A t \in Threads : JobFits(t)'
         /\ BehindIsHeld'
         /\ \A t \in Threads : Asked(t)'
         /\ LinesAreHeld'
<1>1. /\ job' \in [Threads -> Jobs] /\ job'[p] = j
      /\ \A t \in Threads \ {p} : job'[t] = job[t]
  BY DEF InboundInv, InboundTypes
<1>2. \A x : Held(x) => Held(x)' BY <1>1, HeldStays
<1>3. \A t \in Threads : JobFits(t)' BY <1>1, FitsStay DEF InboundInv
<1>4. \A t \in Threads : Asked(t)'
  <2> SUFFICES ASSUME NEW t \in Threads PROVE Asked(t)' OBVIOUS
  <2>1. CASE t = p BY <1>1, <2>1 DEF Asked
  <2>2. CASE t # p BY <1>1, <1>2, <2>2, AskedStays DEF InboundInv
  <2> QED BY <2>1, <2>2
<1>5. BehindIsHeld' /\ LinesAreHeld' BY <1>2, BehindStays, LinesStay DEF InboundInv
<1> QED BY <1>1, <1>3, <1>4, <1>5

\* A step that writes to the file, and has its keys and its snapshot from before:
\* what it leaves out is lost.
LEMMA WorkStays ==
  ASSUME InboundInv, NEW p \in Threads, \A t \in Threads \ {p} : job'[t] = job[t],
         job[p].pc \in Saving, ran' = ran, seen' = seen,
         lost \subseteq lost', evicted' = evicted,
         \A m \in Kept : m \in Kept' \/ m \in lost',
         job'[p].pc \in Saving =>
           /\ job'[p].got = job[p].got
           /\ \A m \in Messages : Contains(job[p].keys, m) =>
                Contains(job'[p].keys, m) \/ m \in Kept' \/ m \in lost'
  PROVE  RanIsSaved' /\ LoopWork'
<1>1. RanIsSaved /\ LoopWork BY DEF InboundInv
<1>2. \A m \in Messages : Safe(m)' => Safe(m) /\ m \notin lost' BY DEF Safe
<1>3. job'[Loop].pc \in Saving =>
        /\ job[Loop].pc \in Saving
        /\ job'[Loop].got = job[Loop].got
        /\ \A m \in Messages : Contains(job[Loop].keys, m) =>
             Contains(job'[Loop].keys, m) \/ m \in Kept' \/ m \in lost'
  <2>1. CASE p = Loop BY <2>1
  <2>2. CASE p # Loop BY <2>2, LoopIsThread
  <2> QED BY <2>1, <2>2
<1>4. RanIsSaved'
  <2> SUFFICES ASSUME NEW m \in Messages, Safe(m)', ran[m] > 0
               PROVE  /\ ran[m] = 1
                      /\ m \in Kept' /\ Contains(seen, m)
                      /\ job'[Loop].pc \in Saving => ~Contains(job'[Loop].got, m)
    BY DEF RanIsSaved
  <2>1. /\ ran[m] = 1 /\ m \in Kept /\ Contains(seen, m)
        /\ job[Loop].pc \in Saving => ~Contains(job[Loop].got, m)
    BY <1>1, <1>2 DEF RanIsSaved
  <2> QED BY <1>2, <1>3, <2>1
<1>5. LoopWork'
  <2> SUFFICES ASSUME job'[Loop].pc \in Saving, NEW i \in 1 .. Len(job[Loop].got),
                      NEW m, m = job[Loop].got[i], Safe(m)'
               PROVE  /\ \A k \in 1 .. Len(job[Loop].got) : job[Loop].got[k] = m => k = i
                      /\ Contains(seen, m)
                      /\ Contains(job'[Loop].keys, m) \/ m \in Kept'
    <3>1. job'[Loop].pc \in Saving => job'[Loop].got = job[Loop].got BY <1>3
    <3> QED BY <3>1 DEF LoopWork
  <2>1. m \in Messages /\ m \notin lost' /\ Safe(m) BY <1>2 DEF Safe
  <2>2. /\ \A k \in 1 .. Len(job[Loop].got) : job[Loop].got[k] = m => k = i
        /\ Contains(seen, m)
        /\ Contains(job[Loop].keys, m) \/ m \in Kept
    BY <1>1, <1>3, <2>1 DEF LoopWork
  <2> QED BY <1>3, <2>1, <2>2
<1> QED BY <1>4, <1>5

\* Without trouble the thread that writes is alone.
LEMMA Alone ==
  ASSUME InboundInv, ~troubled, NEW t \in Persisting
  PROVE  /\ t \in Threads
         /\ \A u \in Threads \ {t} :
              u \notin Persisting /\ job[u].pc \notin {"newline", "rewrite"}
                /\ job[u].snap = <<>>
<1>1. t \in Threads BY DEF Persisting
<1>2. ASSUME NEW u \in Threads \ {t}
      PROVE  u \notin Persisting /\ job[u].pc \notin {"newline", "rewrite"}
               /\ job[u].snap = <<>>
  <2>1. u \notin Persisting BY DEF InboundInv, Orderly
  <2>2. job[u].pc \notin {"append", "newline", "empty", "rewrite"}
    BY <2>1 DEF Persisting
  <2>3. JobFits(u) BY DEF InboundInv
  <2> QED BY <2>1, <2>2, <2>3 DEF JobFits, Saving
<1> QED BY <1>1, <1>2

LEMMA OrderlyAlone ==
  ASSUME InboundInv, NEW t \in Persisting, ~troubled,
         \A u \in Threads \ {t} : job'[u] = job[u],
         open' => job'[t].pc = "newline",
         job'[t].pc = "rewrite" => saved' = <<>>,
         job'[t].snap # <<>> => job'[t].snap = seen',
         lost' \subseteq evicted'
  PROVE  Orderly'
<1>1. /\ t \in Threads
      /\ \A u \in Threads \ {t} :
           u \notin Persisting /\ job[u].pc \notin {"newline", "rewrite"}
             /\ job[u].snap = <<>>
  BY Alone
<1>2. \A u \in Persisting' : u = t
  <2> SUFFICES ASSUME NEW u \in Threads, u # t,
                      job'[u].pc \in {"append", "newline", "empty", "rewrite"}
               PROVE  FALSE
    BY DEF Persisting
  <2>1. job'[u] = job[u] OBVIOUS
  <2>2. u \in Persisting BY <2>1 DEF Persisting
  <2> QED BY <1>1, <2>2
<1>3. \A u \in Threads : /\ job'[u].pc = "rewrite" => saved' = <<>>
                         /\ job'[u].snap # <<>> => job'[u].snap = seen'
  <2> SUFFICES ASSUME NEW u \in Threads
               PROVE  /\ job'[u].pc = "rewrite" => saved' = <<>>
                      /\ job'[u].snap # <<>> => job'[u].snap = seen'
    OBVIOUS
  <2>1. CASE u = t BY <2>1
  <2>2. CASE u # t
    <3>1. job'[u] = job[u] BY <2>2
    <3> QED BY <1>1, <2>2, <3>1
  <2> QED BY <2>1, <2>2
<1> QED BY <1>1, <1>2, <1>3 DEF Orderly

\* A step that saves: what must be shown of it.
LEMMA SavingKeeps ==
  ASSUME InboundInv, NEW t \in Threads, NEW j \in Jobs,
         job' = [job EXCEPT ![t] = j],
         job[t].pc \in {"append", "newline", "empty", "rewrite"},
         JobFits(t)', j.pc \in Saving \union {"idle"},
         UNCHANGED <<world, memory, restarts, accepted, ran, dropped, evicted>>,
         saved' \in Seq(Seq(Keys)), open' \in BOOLEAN, troubled' \in BOOLEAN,
         failures' \in 0 .. MaxFailures,
         lost \subseteq lost', lost' \subseteq Messages,
         FileFits', Orderly',
         j.pc \in Saving => j.got = job[t].got,
         \A x : Contains(saved', <<x>>) =>
           Contains(saved, <<x>>) \/ Contains(job[t].keys, x)
             \/ Contains(job[t].snap, x) \/ x = Scrap,
         \A x : Contains(j.keys, x) => Contains(job[t].keys, x),
         \A x : Contains(j.snap, x) => Contains(job[t].snap, x),
         \A m \in Kept : m \in Kept' \/ m \in lost',
         \A m \in Messages : Contains(job[t].keys, m) =>
           Contains(j.keys, m) \/ m \in Kept' \/ m \in lost'
  PROVE  InboundInv'
<1>1. /\ job' \in [Threads -> Jobs] /\ job'[t] = j
      /\ \A u \in Threads \ {t} : job'[u] = job[u]
      /\ \A u \in Threads : JobFits(u)'
      /\ BehindIsHeld'
      /\ \A u \in Threads : Asked(u)'
      /\ LinesAreHeld'
  <2>1. j.pc \notin {"answer", "advance"} /\ job[t].pc \notin Polling
    BY DEF Saving, Polling
  <2> QED BY <2>1, FeedsStay DEF world, memory
<1>2. InboundTypes' BY <1>1 DEF world, memory, InboundInv, InboundTypes
<1>3. KeysOfAccepted /\ KeysAreKnown BY DEF InboundInv
<1>4. RanIsSaved' /\ LoopWork' BY <1>1, WorkStays DEF memory, Saving
<1>5. KeysOfAccepted'
  <2>1. ASSUME NEW x, Contains(saved', <<x>>) PROVE x \in accepted \union {Scrap}
    BY <1>3, <2>1 DEF KeysOfAccepted
  <2>2. ASSUME NEW u \in Threads
        PROVE  /\ \A x : Contains(job'[u].keys, x) => x \in accepted
               /\ \A x : Contains(job'[u].snap, x) => x \in accepted \union {Scrap}
               /\ job'[u].pc \in Saving =>
                    \A x : Contains(job'[u].got, x) => x \in accepted
    <3>1. CASE u = t
      <4>1. job[t].pc \in Saving BY DEF Saving
      <4> QED BY <1>1, <1>3, <3>1, <4>1 DEF KeysOfAccepted
    <3>2. CASE u # t
      <4>1. job'[u] = job[u] BY <1>1, <3>2
      <4> QED BY <1>3, <4>1 DEF KeysOfAccepted
    <3> QED BY <3>1, <3>2
  <2> QED BY <1>3, <2>1, <2>2 DEF KeysOfAccepted, memory
<1>6. KeysAreKnown'
  <2>1. ASSUME NEW u \in Threads, NEW m \in Messages,
               Contains(job'[u].keys, m) \/ Contains(job'[u].snap, m)
        PROVE  Contains(seen, m) \/ m \in evicted
    <3>1. CASE u = t BY <1>1, <1>3, <2>1, <3>1 DEF KeysAreKnown
    <3>2. CASE u # t
      <4>1. job'[u] = job[u] BY <1>1, <3>2
      <4> QED BY <1>3, <2>1, <4>1 DEF KeysAreKnown
    <3> QED BY <3>1, <3>2
  <2>2. ASSUME NEW m \in Kept' PROVE Contains(seen, m) \/ m \in evicted
    <3>1. m \in Messages BY DEF Kept
    <3>2. CASE Contains(saved', <<m>>)
      <4>1. m # Scrap BY <3>1, ScrapIsKey
      <4>2. CASE Contains(saved, <<m>>)
        <5>1. m \in Kept BY <3>1, <4>2 DEF Kept
        <5> QED BY <1>3, <5>1 DEF KeysAreKnown
      <4>3. CASE Contains(job[t].keys, m) \/ Contains(job[t].snap, m)
        BY <1>3, <3>1, <4>3 DEF KeysAreKnown
      <4> QED BY <3>2, <4>1, <4>2, <4>3
    <3>3. CASE \E u \in Threads : job'[u].pc = "rewrite" /\ Contains(job'[u].snap, m)
      BY <2>1, <3>1, <3>3
    <3> QED BY <3>2, <3>3 DEF Kept
  <2> QED BY <2>1, <2>2 DEF KeysAreKnown, memory
<1> QED BY <1>1, <1>2, <1>4, <1>5, <1>6 DEF InboundInv

\* What becomes of a job that saved something.
LEMMA SavedOn ==
  ASSUME NEW t \in Threads, NEW k \in Jobs, k.got # <<>>, k.batch = <<>>,
         job \in [Threads -> Jobs], NEW j, j = SaveOn(t, k), job' = [job EXCEPT ![t] = j]
  PROVE  /\ j \in Jobs /\ j.pc \in {"append", "empty", "run", "idle"}
         /\ j.pc \in Saving \union {"idle"}
         /\ j.pc \in Saving => j.got = k.got
         /\ j.keys = k.keys /\ j.snap = k.snap
         /\ job'[t] = j /\ \A u \in Threads \ {t} : job'[u] = job[u]
         /\ JobFits(t)'
<1>1. /\ j \in Jobs /\ j.pc \in {"append", "empty", "run", "idle"} /\ j.batch = <<>>
      /\ j.pc # "idle" => j.got = k.got /\ j.keys = k.keys /\ j.snap = k.snap
      /\ j.pc = "append" <=> j.keys # <<>>
      /\ j.pc = "empty" => j.snap # <<>>
      /\ j.pc = "run" => t = Loop /\ j.keys = <<>> /\ j.snap = <<>>
      /\ j.pc = "idle" => j = Idle /\ k.keys = <<>> /\ k.snap = <<>>
  BY SaveOnFits
<1>2. job'[t] = j /\ \A u \in Threads \ {t} : job'[u] = job[u] OBVIOUS
<1>3. j.keys = k.keys /\ j.snap = k.snap BY <1>1, IdleJob
<1>4. JobFits(t)' BY <1>1, <1>2, IdleJob DEF JobFits, Saving
<1> QED BY <1>1, <1>2, <1>3, <1>4 DEF Saving

\* A key that is written makes a line of its own, or the last line longer.
LEMMA KeyWritten ==
  ASSUME NEW s \in Seq(Seq(Keys)), NEW key \in Keys
  PROVE  /\ LET r == Append(s, <<key>>)
            IN /\ r \in Seq(Seq(Keys)) /\ r # <<>>
               /\ \A l : Contains(r, l) <=> Contains(s, l) \/ l = <<key>>
         /\ s # <<>> =>
              LET r == [s EXCEPT ![Len(s)] = Append(@, key)]
              IN /\ r \in Seq(Seq(Keys)) /\ r # <<>>
                 /\ \A x : Contains(r, <<x>>) => Contains(s, <<x>>) \/ x = key
<1>0. <<key>> \in Seq(Keys) OBVIOUS
<1>1. LET r == Append(s, <<key>>)
      IN /\ r \in Seq(Seq(Keys)) /\ r # <<>>
         /\ \A l : Contains(r, l) <=> Contains(s, l) \/ l = <<key>>
  <2> DEFINE r == Append(s, <<key>>)
  <2>1. /\ r \in Seq(Seq(Keys)) /\ Len(r) = Len(s) + 1 /\ Len(s) \in Nat
        /\ \A l : Contains(r, l) <=> Contains(s, l) \/ l = <<key>>
    BY <1>0, InAppended
  <2> HIDE DEF r
  <2>2. Len(r) > 0 BY <2>1
  <2>3. r # <<>> BY <2>2
  <2> QED BY <2>1, <2>3 DEF r
<1>2. ASSUME s # <<>>
      PROVE  LET r == [s EXCEPT ![Len(s)] = Append(@, key)]
             IN /\ r \in Seq(Seq(Keys)) /\ r # <<>>
                /\ \A x : Contains(r, <<x>>) => Contains(s, <<x>>) \/ x = key
  <2> DEFINE n == Len(s)
             line == Append(s[n], key)
             r == [s EXCEPT ![n] = line]
  <2>1. n \in Nat /\ n \in 1 .. n /\ s \in [1 .. n -> Seq(Keys)] BY <1>2
  <2>2. /\ line \in Seq(Keys) /\ Len(s[n]) \in Nat /\ Len(line) = Len(s[n]) + 1
        /\ line[Len(s[n]) + 1] = key
    BY <2>1, InAppended
  <2> HIDE DEF line
  <2>3. r \in [1 .. n -> Seq(Keys)] BY <2>1, <2>2
  <2>4. r \in Seq(Seq(Keys)) /\ Len(r) = n BY <2>1, <2>3
  <2>5. \A i \in 1 .. n : r[i] = IF i = n THEN line ELSE s[i] BY <2>1
  <2> HIDE DEF n, r
  <2>6. ASSUME NEW x, Contains(r, <<x>>) PROVE Contains(s, <<x>>) \/ x = key
    <3>1. PICK i \in 1 .. n : r[i] = <<x>> BY <2>4, <2>6 DEF Contains
    <3>2. CASE i = n
      <4>1. line = <<x>> BY <2>5, <3>1, <3>2
      <4>2. Len(line) = 1 /\ line[1] = x BY <4>1
      <4> QED BY <2>2, <4>2
    <3>3. CASE i # n
      <4>1. s[i] = <<x>> BY <2>5, <3>1, <3>3
      <4> QED BY <4>1 DEF Contains, n
    <3> QED BY <3>2, <3>3
  <2>7. r # <<>> BY <2>1, <2>4
  <2> QED BY <2>4, <2>6, <2>7 DEF r, n, line
<1> QED BY <1>1, <1>2

LEMMA AppendKeyInv ==
  ASSUME InboundInv, NEW t \in Threads, AppendKey(t)
  PROVE  InboundInv'
<1> DEFINE keys == job[t].keys
           key == Head(keys)
<1>1. /\ job \in [Threads -> Jobs] /\ job[t] \in Jobs /\ saved \in Seq(Seq(Keys))
      /\ open \in BOOLEAN /\ troubled \in BOOLEAN /\ lost \subseteq Messages
      /\ failures \in 0 .. MaxFailures /\ failures \in Nat /\ MaxFailures \in Nat
  BY InboundAssumption DEF InboundInv, InboundTypes
<1>2. /\ job[t].pc = "append"
      /\ UNCHANGED <<world, memory, restarts, accepted, ran, dropped, evicted>>
  BY DEF AppendKey
<1>3. keys # <<>> /\ job[t].got # <<>> /\ job[t].batch = <<>> /\ FileFits
  BY <1>2 DEF InboundInv, JobFits, Saving
<1>4. /\ keys \in Seq(Messages) /\ key \in Messages /\ key \in Keys
      /\ Tail(keys) \in Seq(Messages)
      /\ \A x : Contains(keys, x) <=> x = key \/ Contains(Tail(keys), x)
  <2>1. keys \in Seq(Messages) BY <1>1 DEF Jobs
  <2> QED BY <1>3, <2>1, InRest, ScrapIsKey
<1>5. t \in Persisting BY <1>2 DEF Persisting
<1> HIDE DEF keys, key
<1>6. CASE /\ saved' = IF open THEN [saved EXCEPT ![Len(saved)] = Append(@, key)]
                       ELSE Append(saved, <<key>>)
           /\ open' = TRUE
           /\ job' = [job EXCEPT ![t].pc = "newline", ![t].keys = Tail(keys)]
           /\ Losing({key})
           /\ UNCHANGED <<failures, troubled>>
  <2> DEFINE j == [job[t] EXCEPT !.pc = "newline", !.keys = Tail(keys)]
  <2>1. /\ j \in Jobs /\ j.pc = "newline" /\ j.keys = Tail(keys) /\ j.snap = job[t].snap
        /\ j.got = job[t].got /\ j.batch = job[t].batch
    BY <1>1, <1>4 DEF Jobs, Saving
  <2>2. job' = [job EXCEPT ![t] = j] BY <1>1, <1>6
  <2> HIDE DEF j
  <2>3. job'[t] = j /\ \A u \in Threads \ {t} : job'[u] = job[u] BY <1>1, <2>2
  <2>4. JobFits(t)' BY <1>3, <2>1, <2>3 DEF JobFits, Saving
  <2>5. /\ saved' \in Seq(Seq(Keys)) /\ saved' # <<>>
        /\ \A x : Contains(saved', <<x>>) => Contains(saved, <<x>>) \/ x = key
        /\ ~open => \A l : Contains(saved', l) <=> Contains(saved, l) \/ l = <<key>>
    <3>1. CASE open
      <4>1. saved # <<>> BY <1>3, <3>1 DEF FileFits
      <4> QED BY <1>1, <1>4, <1>6, <3>1, <4>1, KeyWritten
    <3>2. CASE ~open
      <4>1. /\ saved' \in Seq(Seq(Keys)) /\ saved' # <<>>
            /\ \A l : Contains(saved', l) <=> Contains(saved, l) \/ l = <<key>>
        BY <1>1, <1>4, <1>6, <3>2, KeyWritten
      <4>2. ASSUME NEW x, Contains(saved', <<x>>) PROVE Contains(saved, <<x>>) \/ x = key
        <5>1. <<x>> = <<key>> => x = key OBVIOUS
        <5> QED BY <4>1, <4>2, <5>1
      <4> QED BY <4>1, <4>2, <3>2
    <3> QED BY <3>1, <3>2
  <2>6. lost' = lost \union ((Kept \union {key}) \ Kept') BY <1>6 DEF Losing
  <2>7. Kept \subseteq Messages BY DEF Kept
  <2>8. Orderly'
    <3>1. CASE troubled BY <1>6, <3>1 DEF Orderly
    <3>2. CASE ~troubled
      <4>1. /\ open => \E u \in Threads : job[u].pc = "newline"
            /\ \A u \in Threads : job[u].snap # <<>> => job[u].snap = seen
            /\ lost \subseteq evicted
        BY <3>2 DEF InboundInv, Orderly
      <4>2. \A u \in Threads \ {t} : job[u].pc \notin {"newline", "rewrite"}
        BY <1>5, <3>2, Alone
      <4>3. ~open BY <1>2, <4>1, <4>2
      <4>4. \A m \in Kept : Contains(saved, <<m>>) BY <1>2, <4>2 DEF Kept
      <4>5. Kept \union {key} \subseteq Kept'
        BY <1>4, <2>5, <2>7, <4>3, <4>4 DEF Kept
      <4>6. lost' \subseteq evicted' BY <1>2, <2>6, <4>1, <4>5
      <4>7. seen' = seen BY <1>2 DEF memory
      <4> QED BY <1>5, <2>1, <2>3, <3>2, <4>1, <4>6, <4>7, OrderlyAlone
    <3> QED BY <3>1, <3>2
  <2>9. FileFits' BY <2>5 DEF FileFits
  <2>10. /\ lost \subseteq lost' /\ lost' \subseteq Messages
         /\ \A m \in Kept : m \in Kept' \/ m \in lost'
         /\ \A m \in Messages : Contains(keys, m) =>
              Contains(j.keys, m) \/ m \in Kept' \/ m \in lost'
    BY <1>1, <1>4, <2>1, <2>6, <2>7
  <2>11. /\ \A x : Contains(j.keys, x) => Contains(keys, x)
         /\ \A x : Contains(saved', <<x>>) => Contains(saved, <<x>>) \/ Contains(keys, x)
    BY <1>4, <2>1, <2>5
  <2>12. open' \in BOOLEAN /\ troubled' \in BOOLEAN /\ failures' \in 0 .. MaxFailures
         /\ j.pc \in Saving
    BY <1>1, <1>6, <2>1 DEF Saving
  <2> QED
    BY <1>2, <2>1, <2>2, <2>4, <2>5, <2>8, <2>9, <2>10, <2>11, <2>12, SavingKeeps DEF keys
<1>7. CASE \E rest \in {Tail(keys), <<>>} :
             /\ Failing /\ troubled' = TRUE
             /\ job' = [job EXCEPT ![t] = SaveOn(t, [@ EXCEPT !.keys = rest])]
             /\ lost' = lost \union (ToSet(keys) \ ToSet(rest))
             /\ UNCHANGED file
  <2>1. PICK rest \in {Tail(keys), <<>>} :
          /\ Failing /\ troubled' = TRUE
          /\ job' = [job EXCEPT ![t] = SaveOn(t, [@ EXCEPT !.keys = rest])]
          /\ lost' = lost \union (ToSet(keys) \ ToSet(rest))
          /\ UNCHANGED file
    BY <1>7
  <2>2. rest \in Seq(Messages) /\ \A x : Contains(rest, x) => Contains(keys, x)
    BY <1>4, EmptyHasNone
  <2> DEFINE k == [job[t] EXCEPT !.keys = rest]
             j == SaveOn(t, k)
  <2>3. /\ k \in Jobs /\ k.got = job[t].got /\ k.batch = <<>> /\ k.keys = rest
        /\ k.snap = job[t].snap
    BY <1>1, <1>3, <2>2 DEF Jobs
  <2>4. job' = [job EXCEPT ![t] = j] BY <1>1, <2>1
  <2> HIDE DEF k
  <2>5. /\ j \in Jobs /\ j.pc \in {"append", "empty", "run", "idle"}
        /\ j.pc \in Saving \union {"idle"}
        /\ j.pc \in Saving => j.got = k.got
        /\ j.keys = k.keys /\ j.snap = k.snap
        /\ job'[t] = j /\ \A u \in Threads \ {t} : job'[u] = job[u]
        /\ JobFits(t)'
    BY <1>1, <1>3, <2>3, <2>4, SavedOn
  <2> HIDE DEF j
  <2>6. saved' = saved /\ open' = open BY <2>1 DEF file
  <2>7. Kept' = Kept
    <3>1. job[t].pc # "rewrite" /\ job'[t].pc # "rewrite" BY <1>2, <2>5
    <3> QED BY <2>5, <2>6, <3>1, KeptSame
  <2>8. Orderly' /\ FileFits' BY <1>3, <2>1, <2>6 DEF Orderly, FileFits
  <2>9. /\ lost \subseteq lost' /\ lost' \subseteq Messages
        /\ \A m \in Messages : Contains(keys, m) => Contains(rest, m) \/ m \in lost'
    <3>1. /\ \A x : x \in ToSet(keys) <=> Contains(keys, x)
          /\ \A x : x \in ToSet(rest) <=> Contains(rest, x)
      BY <1>4, <2>2, InSet
    <3>2. ToSet(keys) \subseteq Messages BY <1>4 DEF ToSet
    <3> QED BY <1>1, <2>1, <3>1, <3>2
  <2>10. failures' \in 0 .. MaxFailures /\ troubled' \in BOOLEAN
    BY <1>1, <2>1 DEF Failing
  <2> QED
    BY <1>1, <1>2, <2>2, <2>3, <2>4, <2>5, <2>6, <2>7, <2>8, <2>9, <2>10, SavingKeeps
    DEF keys
<1> QED BY <1>6, <1>7 DEF AppendKey, keys, key

LEMMA EndLineInv ==
  ASSUME InboundInv, NEW t \in Threads, EndLine(t)
  PROVE  InboundInv'
<1>1. /\ job \in [Threads -> Jobs] /\ job[t] \in Jobs /\ saved \in Seq(Seq(Keys))
      /\ open \in BOOLEAN /\ troubled \in BOOLEAN /\ lost \subseteq Messages
      /\ failures \in 0 .. MaxFailures /\ failures \in Nat /\ MaxFailures \in Nat
  BY InboundAssumption DEF InboundInv, InboundTypes
<1> DEFINE j == SaveOn(t, job[t])
<1>2. /\ job[t].pc = "newline" /\ job' = [job EXCEPT ![t] = j]
      /\ \/ open' = FALSE /\ UNCHANGED <<failures, troubled>>
         \/ /\ failures < MaxFailures /\ failures' = failures + 1
            /\ troubled' = TRUE /\ open' = open
      /\ UNCHANGED <<world, memory, saved, restarts, accepted, ran, dropped, evicted, lost>>
  BY DEF EndLine, Failing
<1>3. job[t].got # <<>> /\ job[t].batch = <<>> /\ FileFits
  BY <1>2 DEF InboundInv, JobFits, Saving
<1>4. /\ j \in Jobs /\ j.pc \in {"append", "empty", "run", "idle"}
      /\ j.pc \in Saving \union {"idle"}
      /\ j.pc \in Saving => j.got = job[t].got
      /\ j.keys = job[t].keys /\ j.snap = job[t].snap
      /\ job'[t] = j /\ \A u \in Threads \ {t} : job'[u] = job[u]
      /\ JobFits(t)'
  BY <1>1, <1>2, <1>3, SavedOn
<1> HIDE DEF j
<1>5. Kept' = Kept
  <2>1. job[t].pc # "rewrite" /\ job'[t].pc # "rewrite" /\ saved' = saved BY <1>2, <1>4
  <2> QED BY <1>4, <2>1, KeptSame
<1>6. Orderly'
  <2>1. CASE troubled' BY <2>1 DEF Orderly
  <2>2. CASE ~troubled'
    <3>1. ~troubled /\ ~open' BY <1>2, <2>2
    <3>2. /\ \A u \in Threads : job[u].snap # <<>> => job[u].snap = seen
          /\ lost \subseteq evicted
      BY <3>1 DEF InboundInv, Orderly
    <3>3. t \in Persisting BY <1>2 DEF Persisting
    <3>4. seen' = seen /\ lost' = lost /\ evicted' = evicted BY <1>2 DEF memory
    <3>5. job'[t].pc # "rewrite" /\ (job'[t].snap # <<>> => job'[t].snap = seen')
      BY <1>4, <3>2, <3>4
    <3> QED BY <1>4, <3>1, <3>2, <3>3, <3>4, <3>5, OrderlyAlone
  <2> QED BY <2>1, <2>2
<1>7. /\ FileFits' /\ open' \in BOOLEAN /\ troubled' \in BOOLEAN
      /\ failures' \in 0 .. MaxFailures
  <2>1. failures' \in 0 .. MaxFailures BY <1>1, <1>2
  <2>2. open' \in BOOLEAN /\ troubled' \in BOOLEAN BY <1>1, <1>2
  <2>3. open' => open BY <1>2
  <2>4. FileFits' BY <1>2, <1>3, <2>3 DEF FileFits
  <2> QED BY <2>1, <2>2, <2>4
<1>8. saved' = saved /\ lost' = lost BY <1>2
<1> QED BY <1>1, <1>2, <1>4, <1>5, <1>6, <1>7, <1>8, SavingKeeps

\* A compaction writes a line for each key.
LEMMA WrittenHas ==
  ASSUME NEW s \in Seq(Keys)
  PROVE  /\ Written(s) \in Seq(Seq(Keys))
         /\ \A x : Contains(Written(s), <<x>>) <=> Contains(s, x)
<1>1. /\ DOMAIN s = 1 .. Len(s) /\ Len(s) \in Nat
      /\ \A i \in 1 .. Len(s) : s[i] \in Keys /\ <<s[i]>> \in Seq(Keys)
  OBVIOUS
<1>2. Written(s) \in [1 .. Len(s) -> Seq(Keys)] BY <1>1 DEF Written
<1>3. Written(s) \in Seq(Seq(Keys)) /\ Len(Written(s)) = Len(s) BY <1>1, <1>2
<1>4. \A i \in 1 .. Len(s) : Written(s)[i] = <<s[i]>> BY <1>1 DEF Written
<1>5. \A x, y : <<x>> = <<y>> => x = y OBVIOUS
<1>6. \A x : Contains(Written(s), <<x>>) <=> Contains(s, x)
  BY <1>3, <1>4, <1>5 DEF Contains
<1> QED BY <1>3, <1>6

\* What is beyond the first n of a sequence.
LEMMA BeyondHas ==
  ASSUME NEW S, NEW s \in Seq(S), NEW n \in 0 .. Len(s)
  PROVE  LET r == SubSeq(s, n + 1, Len(s))
         IN r \in Seq(S) /\ \A x : Contains(r, x) => Contains(s, x)
<1> DEFINE r == SubSeq(s, n + 1, Len(s))
<1>0. Len(s) \in Nat /\ n \in Nat /\ n <= Len(s) OBVIOUS
<1>1. \A i \in n + 1 .. Len(s) : s[i] \in S BY <1>0
<1>2. /\ r \in Seq(S)
      /\ Len(r) = IF n + 1 <= Len(s) THEN Len(s) - (n + 1) + 1 ELSE 0
      /\ \A i \in 1 .. Len(s) - (n + 1) + 1 : r[i] = s[n + 1 + i - 1]
  <2>1. n + 1 \in Int /\ Len(s) \in Int BY <1>0
  <2> QED BY <1>1, <2>1, SubSeqProperties
<1> HIDE DEF r
<1>3. Len(r) = Len(s) - n /\ \A i \in 1 .. Len(s) - n : r[i] = s[n + i]
  BY <1>0, <1>2
<1>4. ASSUME NEW x, Contains(r, x) PROVE Contains(s, x)
  <2>1. PICK i \in 1 .. Len(s) - n : r[i] = x BY <1>3, <1>4 DEF Contains
  <2>2. n + i \in 1 .. Len(s) /\ s[n + i] = x BY <1>0, <1>3, <2>1
  <2> QED BY <2>2 DEF Contains
<1> QED BY <1>2, <1>4 DEF r

LEMMA EmptyFileInv ==
  ASSUME InboundInv, NEW t \in Threads, EmptyFile(t)
  PROVE  InboundInv'
<1>1. /\ job \in [Threads -> Jobs] /\ job[t] \in Jobs /\ saved \in Seq(Seq(Keys))
      /\ open \in BOOLEAN /\ troubled \in BOOLEAN /\ lost \subseteq Messages
      /\ failures \in 0 .. MaxFailures /\ failures \in Nat /\ MaxFailures \in Nat
  BY InboundAssumption DEF InboundInv, InboundTypes
<1>2. /\ job[t].pc = "empty"
      /\ UNCHANGED <<world, memory, restarts, accepted, ran, dropped, evicted>>
      /\ lost' = lost \union ((Kept \union {}) \ Kept')
  BY DEF EmptyFile, Losing
<1>3. /\ job[t].keys = <<>> /\ job[t].snap # <<>> /\ job[t].got # <<>>
      /\ job[t].batch = <<>> /\ FileFits
  BY <1>2 DEF InboundInv, JobFits, Saving
<1>4. Kept \subseteq Messages /\ \A x : ~Contains(job[t].keys, x)
  BY <1>3, EmptyHasNone DEF Kept
<1>5. /\ lost \subseteq lost' /\ lost' \subseteq Messages
      /\ \A m \in Kept : m \in Kept' \/ m \in lost'
  BY <1>1, <1>2, <1>4
<1>6. CASE /\ saved' = <<>> /\ open' = FALSE
           /\ job' = [job EXCEPT ![t].pc = "rewrite"]
           /\ UNCHANGED <<failures, troubled>>
  <2> DEFINE j == [job[t] EXCEPT !.pc = "rewrite"]
  <2>1. /\ j \in Jobs /\ j.pc = "rewrite" /\ j.keys = job[t].keys /\ j.snap = job[t].snap
        /\ j.got = job[t].got /\ j.batch = job[t].batch
    BY <1>1 DEF Jobs, Saving
  <2>2. job' = [job EXCEPT ![t] = j] BY <1>1, <1>6
  <2> HIDE DEF j
  <2>3. job'[t] = j /\ \A u \in Threads \ {t} : job'[u] = job[u] BY <1>1, <2>2
  <2>4. JobFits(t)' BY <1>3, <2>1, <2>3 DEF JobFits, Saving
  <2>5. /\ saved' \in Seq(Seq(Keys)) /\ \A x : ~Contains(saved', x)
    BY <1>6, EmptyHasNone
  <2>6. Orderly'
    <3>1. CASE troubled BY <1>6, <3>1 DEF Orderly
    <3>2. CASE ~troubled
      <4>1. job[t].snap = seen /\ lost \subseteq evicted
        BY <1>3, <3>2 DEF InboundInv, Orderly
      <4>2. \A m \in Kept : Contains(seen, m) \/ m \in evicted
        BY DEF InboundInv, KeysAreKnown
      <4>3. \A m \in Messages : Contains(seen, m) => m \in Kept'
        BY <2>1, <2>3, <4>1 DEF Kept
      <4>4. lost' \subseteq evicted' BY <1>2, <1>4, <4>1, <4>2, <4>3
      <4>5. seen' = seen /\ t \in Persisting BY <1>2 DEF memory, Persisting
      <4> QED BY <1>6, <2>1, <2>3, <3>2, <4>1, <4>4, <4>5, OrderlyAlone
    <3> QED BY <3>1, <3>2
  <2>7. FileFits' BY <1>6 DEF FileFits
  <2>8. open' \in BOOLEAN /\ troubled' \in BOOLEAN BY <1>1, <1>6
  <2>9. failures' \in 0 .. MaxFailures /\ j.pc \in Saving BY <1>1, <1>6, <2>1 DEF Saving
  <2> QED
    BY <1>2, <1>4, <1>5, <2>1, <2>2, <2>4, <2>5, <2>6, <2>7, <2>8, <2>9, SavingKeeps
<1>7. CASE /\ Failing /\ troubled' = TRUE
           /\ job' = [job EXCEPT ![t] = SaveOn(t, [@ EXCEPT !.snap = <<>>])]
           /\ UNCHANGED file
  <2> DEFINE k == [job[t] EXCEPT !.snap = <<>>]
             j == SaveOn(t, k)
  <2>1. /\ k \in Jobs /\ k.got = job[t].got /\ k.batch = <<>> /\ k.keys = job[t].keys
        /\ k.snap = <<>>
    BY <1>1, <1>3, EmptyHasNone DEF Jobs
  <2>2. job' = [job EXCEPT ![t] = j] BY <1>1, <1>7
  <2> HIDE DEF k
  <2>3. /\ j \in Jobs /\ j.pc \in {"append", "empty", "run", "idle"}
        /\ j.pc \in Saving \union {"idle"}
        /\ j.pc \in Saving => j.got = k.got
        /\ j.keys = k.keys /\ j.snap = k.snap
        /\ job'[t] = j /\ \A u \in Threads \ {t} : job'[u] = job[u]
        /\ JobFits(t)'
    BY <1>1, <1>3, <2>1, <2>2, SavedOn
  <2> HIDE DEF j
  <2>4. saved' = saved /\ open' = open BY <1>7 DEF file
  <2>5. Orderly' /\ FileFits' BY <1>3, <1>7, <2>4 DEF Orderly, FileFits
  <2>6. failures' \in 0 .. MaxFailures /\ troubled' \in BOOLEAN BY <1>1, <1>7 DEF Failing
  <2>7. \A x : ~Contains(j.snap, x) BY <2>1, <2>3, EmptyHasNone
  <2> QED
    BY <1>1, <1>2, <1>4, <1>5, <2>1, <2>2, <2>3, <2>4, <2>5, <2>6, <2>7, SavingKeeps
<1> QED BY <1>6, <1>7 DEF EmptyFile

LEMMA RewriteInv ==
  ASSUME InboundInv, NEW t \in Threads, Rewrite(t)
  PROVE  InboundInv'
<1>1. /\ job \in [Threads -> Jobs] /\ job[t] \in Jobs /\ saved \in Seq(Seq(Keys))
      /\ open \in BOOLEAN /\ troubled \in BOOLEAN /\ lost \subseteq Messages
      /\ failures \in 0 .. MaxFailures /\ failures \in Nat /\ MaxFailures \in Nat
  BY InboundAssumption DEF InboundInv, InboundTypes
<1> DEFINE snap == job[t].snap
           k == [job[t] EXCEPT !.snap = <<>>]
           j == SaveOn(t, k)
<1>2. /\ job[t].pc = "rewrite" /\ job' = [job EXCEPT ![t] = j]
      /\ UNCHANGED <<world, memory, restarts, accepted, ran, dropped, evicted>>
      /\ lost' = lost \union ((Kept \union {}) \ Kept')
  BY <1>1 DEF Rewrite, Losing
<1>3. /\ job[t].keys = <<>> /\ job[t].got # <<>> /\ job[t].batch = <<>> /\ FileFits
  BY <1>2 DEF InboundInv, JobFits, Saving
<1>4. Kept \subseteq Messages /\ \A x : ~Contains(job[t].keys, x)
  BY <1>3, EmptyHasNone DEF Kept
<1>5. /\ lost \subseteq lost' /\ lost' \subseteq Messages
      /\ \A m \in Kept : m \in Kept' \/ m \in lost'
  BY <1>1, <1>2, <1>4
<1>6. /\ k \in Jobs /\ k.got = job[t].got /\ k.batch = <<>> /\ k.keys = job[t].keys
      /\ k.snap = <<>>
  BY <1>1, <1>3, EmptyHasNone DEF Jobs
<1>7. snap \in Seq(Keys) BY <1>1 DEF Jobs
<1> HIDE DEF k, snap
<1>8. /\ j \in Jobs /\ j.pc \in Saving \union {"idle"} /\ j.pc # "rewrite"
      /\ j.pc \in Saving => j.got = k.got
      /\ j.keys = k.keys /\ j.snap = k.snap
      /\ job'[t] = j /\ \A u \in Threads \ {t} : job'[u] = job[u]
      /\ JobFits(t)'
  BY <1>1, <1>2, <1>3, <1>6, SavedOn
<1> HIDE DEF j
<1>9. \A x : ~Contains(j.snap, x) BY <1>6, <1>8, EmptyHasNone
<1>10. ASSUME saved' \in Seq(Seq(Keys)), FileFits', Orderly',
              open' \in BOOLEAN, troubled' \in BOOLEAN, failures' \in 0 .. MaxFailures,
              \A x : Contains(saved', <<x>>) =>
                Contains(saved, <<x>>) \/ Contains(snap, x) \/ x = Scrap
       PROVE  InboundInv'
  BY <1>2, <1>4, <1>5, <1>6, <1>8, <1>9, <1>10, SavingKeeps DEF snap
<1>11. CASE Failing /\ troubled' = TRUE /\ UNCHANGED file
  <2>1. saved' = saved /\ open' = open BY <1>11 DEF file
  <2>2. Orderly' /\ FileFits' BY <1>3, <1>11, <2>1 DEF Orderly, FileFits
  <2>3. failures' \in 0 .. MaxFailures /\ troubled' \in BOOLEAN BY <1>1, <1>11 DEF Failing
  <2> QED BY <1>1, <1>10, <2>1, <2>2, <2>3
<1>12. ASSUME NEW n \in 0 .. Len(saved), NEW cut \in BOOLEAN,
              n = 0 => saved = <<>> /\ ~cut,
              NEW beyond, beyond = SubSeq(saved, n + 1, Len(saved)),
              NEW rest, rest = IF cut THEN <<<<Scrap>>>> \o beyond ELSE beyond,
              saved' = Written(snap) \o rest,
              open' = (open /\ rest # <<>>),
              UNCHANGED <<failures, troubled>>
       PROVE  InboundInv'
  <2>1. beyond \in Seq(Seq(Keys)) /\ \A l : Contains(beyond, l) => Contains(saved, l)
    BY <1>1, <1>12, BeyondHas
  <2>2. /\ rest \in Seq(Seq(Keys))
        /\ \A l : Contains(rest, l) => Contains(saved, l) \/ l = <<Scrap>>
    <3>1. <<<<Scrap>>>> \in Seq(Seq(Keys)) /\ \A l : Contains(<<<<Scrap>>>>, l) => l = <<Scrap>>
      BY ScrapIsKey DEF Contains
    <3>2. /\ <<<<Scrap>>>> \o beyond \in Seq(Seq(Keys))
          /\ \A l : Contains(<<<<Scrap>>>> \o beyond, l)
                      <=> Contains(<<<<Scrap>>>>, l) \/ Contains(beyond, l)
      BY <2>1, <3>1, InJoined
    <3>3. CASE cut
      <4>1. rest = <<<<Scrap>>>> \o beyond BY <1>12, <3>3
      <4> QED BY <2>1, <3>1, <3>2, <4>1
    <3>4. CASE ~cut BY <1>12, <2>1, <3>4
    <3> QED BY <3>3, <3>4
  <2>3. /\ Written(snap) \in Seq(Seq(Keys))
        /\ \A x : Contains(Written(snap), <<x>>) <=> Contains(snap, x)
    BY <1>7, WrittenHas
  <2>4. /\ saved' \in Seq(Seq(Keys))
        /\ \A l : Contains(saved', l) <=> Contains(Written(snap), l) \/ Contains(rest, l)
    <3>1. /\ Written(snap) \o rest \in Seq(Seq(Keys))
          /\ \A l : Contains(Written(snap) \o rest, l)
                      <=> Contains(Written(snap), l) \/ Contains(rest, l)
      BY <2>2, <2>3, InJoined
    <3>2. saved' = Written(snap) \o rest BY <1>12
    <3> QED BY <3>1, <3>2
  <2>5. ASSUME NEW x, Contains(saved', <<x>>)
        PROVE  Contains(saved, <<x>>) \/ Contains(snap, x) \/ x = Scrap
    <3>1. <<x>> = <<Scrap>> => x = Scrap OBVIOUS
    <3> QED BY <2>2, <2>3, <2>4, <2>5, <3>1
  <2>6. FileFits'
    <3>1. ASSUME rest # <<>> PROVE saved' # <<>>
      <4>1. Len(rest) > 0 /\ Len(rest) \in Nat /\ Len(Written(snap)) \in Nat
        BY <2>2, <2>3, <3>1
      <4>2. Len(saved') = Len(Written(snap)) + Len(rest)
        BY <1>12, <2>2, <2>3, ConcatProperties
      <4>3. Len(saved') > 0 BY <4>1, <4>2
      <4> QED BY <4>3
    <3> QED BY <1>12, <3>1 DEF FileFits
  <2>7. Orderly'
    <3>1. CASE troubled BY <1>12, <3>1 DEF Orderly
    <3>2. CASE ~troubled
      <4>1. saved = <<>> /\ lost \subseteq evicted
        BY <1>2, <3>2 DEF InboundInv, Orderly
      <4>2. ~open' BY <1>3, <1>12, <4>1 DEF FileFits
      <4>3. t \in Persisting BY <1>2 DEF Persisting
      <4>4. \A u \in Threads \ {t} : job[u].pc # "rewrite" BY <3>2, <4>3, Alone
      <4>5. \A m \in Kept : Contains(snap, m)
        BY <4>1, <4>4, EmptyHasNone DEF Kept, snap
      <4>6. \A m \in Messages : Contains(snap, m) => m \in Kept'
        BY <2>3, <2>4 DEF Kept
      <4>7. lost' \subseteq evicted' BY <1>2, <1>4, <4>1, <4>5, <4>6
      <4> QED BY <1>6, <1>8, <3>2, <4>2, <4>3, <4>7, OrderlyAlone
    <3> QED BY <3>1, <3>2
  <2>8. open' \in BOOLEAN /\ troubled' \in BOOLEAN BY <1>1, <1>12
  <2>9. failures' \in 0 .. MaxFailures BY <1>1, <1>12
  <2> QED BY <1>10, <2>4, <2>5, <2>6, <2>7, <2>8, <2>9
<1>13. CASE /\ \E n \in 0 .. Len(saved), cut \in BOOLEAN :
                 /\ n = 0 => saved = <<>> /\ ~cut
                 /\ LET beyond == SubSeq(saved, n + 1, Len(saved))
                        rest == IF cut THEN <<<<Scrap>>>> \o beyond ELSE beyond
                    IN /\ saved' = Written(snap) \o rest
                       /\ open' = (open /\ rest # <<>>)
            /\ UNCHANGED <<failures, troubled>>
  <2>1. PICK n \in 0 .. Len(saved), cut \in BOOLEAN :
          /\ n = 0 => saved = <<>> /\ ~cut
          /\ LET beyond == SubSeq(saved, n + 1, Len(saved))
                 rest == IF cut THEN <<<<Scrap>>>> \o beyond ELSE beyond
             IN /\ saved' = Written(snap) \o rest
                /\ open' = (open /\ rest # <<>>)
    BY <1>13
  <2> DEFINE beyond == SubSeq(saved, n + 1, Len(saved))
             rest == IF cut THEN <<<<Scrap>>>> \o beyond ELSE beyond
  <2>2. saved' = Written(snap) \o rest /\ open' = (open /\ rest # <<>>) BY <2>1
  <2> QED BY <1>12, <1>13, <2>1, <2>2
<1> QED BY <1>2, <1>11, <1>13 DEF Rewrite, snap

LEMMA RunInv ==
  ASSUME InboundInv, NEW t \in Threads, Run(t)
  PROVE  InboundInv'
<1> DEFINE got == job[t].got
           m == Head(got)
           rest == Tail(got)
           j == IF rest = <<>> THEN Idle ELSE [job[t] EXCEPT !.got = rest]
<1>1. /\ job \in [Threads -> Jobs] /\ job[t] \in Jobs /\ got \in Seq(Messages)
      /\ ran \in [Messages -> 0 .. 2]
  BY DEF InboundInv, InboundTypes, Jobs
<1>2. /\ job[t].pc = "run"
      /\ ran' = [ran EXCEPT ![m] = IF @ = 2 THEN 2 ELSE @ + 1]
      /\ job' = [job EXCEPT ![t] = j]
      /\ UNCHANGED <<world, memory, file, count, accepted, dropped, fate>>
  BY <1>1 DEF Run
<1>3. /\ t = Loop /\ got # <<>> /\ job[t].keys = <<>> /\ job[t].snap = <<>>
      /\ job[t].batch = <<>>
  BY <1>2 DEF InboundInv, JobFits, Saving
<1>4. /\ m \in Messages /\ Tail(got) \in Seq(Messages) /\ Len(Tail(got)) = Len(got) - 1
      /\ \A i \in 1 .. Len(got) - 1 : Tail(got)[i] = got[i + 1]
      /\ m = got[1] /\ 1 \in 1 .. Len(got) /\ Len(got) \in Nat
      /\ \A x : Contains(got, x) <=> x = m \/ Contains(Tail(got), x)
  BY <1>1, <1>3, InRest
<1>5. /\ j \in Jobs /\ j.pc \in {"idle", "run"} /\ j.batch = <<>>
      /\ j.keys = <<>> /\ j.snap = <<>>
      /\ j.pc = "run" => j.got = Tail(got) /\ Tail(got) # <<>>
      /\ j.pc = "idle" => j = Idle
  <2>1. CASE rest = <<>> BY <2>1, IdleJob
  <2>2. CASE rest # <<>>
    <3> DEFINE r == [job[t] EXCEPT !.got = rest]
    <3>1. /\ r \in Jobs /\ r.pc = "run" /\ r.batch = <<>> /\ r.got = rest
          /\ r.keys = <<>> /\ r.snap = <<>>
      BY <1>1, <1>2, <1>3, <1>4 DEF Jobs
    <3>2. j = r BY <2>2
    <3> HIDE DEF r, j
    <3> QED BY <2>2, <3>1, <3>2
  <2> QED BY <2>1, <2>2
<1> HIDE DEF j
<1>6. job'[t] = j BY <1>1, <1>2
<1>7. JobFits(t)' BY <1>3, <1>5, <1>6, IdleJob DEF JobFits, Saving
<1>8. /\ job' \in [Threads -> Jobs] /\ \A u \in Threads \ {t} : job'[u] = job[u]
      /\ \A u \in Threads : JobFits(u)'
      /\ BehindIsHeld'
      /\ \A u \in Threads : Asked(u)'
      /\ LinesAreHeld'
  <2>1. j.pc \notin {"answer", "advance"} /\ job[t].pc \notin Polling
    BY <1>2, <1>5 DEF Polling
  <2> QED BY <1>2, <1>5, <1>7, <2>1, FeedsStay DEF world, memory
<1>9. ran' \in [Messages -> 0 .. 2]
  <2>1. (IF ran[m] = 2 THEN 2 ELSE ran[m] + 1) \in 0 .. 2 BY <1>1, <1>4
  <2> QED BY <1>1, <1>2, <2>1
<1>10. InboundTypes'
  BY <1>2, <1>8, <1>9 DEF world, memory, file, count, fate, InboundInv, InboundTypes
<1>11. KeysOfAccepted'
  <2>1. ASSUME NEW u \in Threads
        PROVE  /\ \A x : Contains(job'[u].keys, x) => x \in accepted
               /\ \A x : Contains(job'[u].snap, x) => x \in accepted \union {Scrap}
               /\ job'[u].pc \in Saving =>
                    \A x : Contains(job'[u].got, x) => x \in accepted
    <3>1. CASE u # t
      <4>1. job'[u] = job[u] BY <1>8, <3>1
      <4> QED BY <4>1 DEF InboundInv, KeysOfAccepted
    <3>2. CASE u = t
      <4>1. \A x : Contains(got, x) => x \in accepted
        BY <1>2 DEF InboundInv, KeysOfAccepted, Saving
      <4> QED BY <1>4, <1>5, <1>6, <3>2, <4>1, EmptyHasNone DEF Saving
    <3> QED BY <3>1, <3>2
  <2> QED BY <1>2, <2>1 DEF memory, file, InboundInv, KeysOfAccepted
<1>12. Kept' = Kept
  <2>1. job[t].pc # "rewrite" /\ job'[t].pc # "rewrite" /\ saved' = saved
    BY <1>2, <1>5, <1>6 DEF file
  <2> QED BY <1>8, <2>1, KeptSame
<1>13. FileFits' /\ KeysAreKnown' /\ Orderly'
  <2>1. \A u \in Threads : job'[u].keys = job[u].keys /\ job'[u].snap = job[u].snap
    <3> SUFFICES ASSUME NEW u \in Threads
                 PROVE  job'[u].keys = job[u].keys /\ job'[u].snap = job[u].snap
      OBVIOUS
    <3>1. CASE u = t BY <1>3, <1>5, <1>6, <3>1
    <3>2. CASE u # t BY <1>8, <3>2
    <3> QED BY <3>1, <3>2
  <2>2. \A u \in Threads, a \in {"append", "newline", "empty", "rewrite"} :
          job'[u].pc = a <=> job[u].pc = a
    <3> SUFFICES ASSUME NEW u \in Threads,
                        NEW a \in {"append", "newline", "empty", "rewrite"}
                 PROVE  job'[u].pc = a <=> job[u].pc = a
      OBVIOUS
    <3>1. CASE u = t BY <1>2, <1>5, <1>6, <3>1
    <3>2. CASE u # t BY <1>8, <3>2
    <3> QED BY <3>1, <3>2
  <2>3. /\ seen' = seen /\ saved' = saved /\ open' = open /\ evicted' = evicted
        /\ lost' = lost /\ troubled' = troubled
    BY <1>2 DEF memory, file, fate
  <2>4. Persisting' = Persisting BY <2>2 DEF Persisting
  <2>5. Orderly' BY <2>1, <2>2, <2>3, <2>4 DEF InboundInv, Orderly
  <2>6. KeysAreKnown' BY <1>12, <2>1, <2>3 DEF InboundInv, KeysAreKnown
  <2> QED BY <2>3, <2>5, <2>6 DEF InboundInv, FileFits
<1>14. /\ RanIsSaved /\ LoopWork /\ job[Loop] = job[t] /\ job[Loop].pc \in Saving
       /\ job'[Loop] = j /\ lost' = lost /\ evicted' = evicted /\ seen' = seen
  BY <1>2, <1>3, <1>6 DEF InboundInv, memory, fate, Saving
<1>15. ASSUME NEW i \in 1 .. Len(got), Safe(got[i])
       PROVE  /\ \A k \in 1 .. Len(got) : got[k] = got[i] => k = i
              /\ Contains(seen, got[i]) /\ got[i] \in Kept
  BY <1>3, <1>14, <1>15, EmptyHasNone DEF LoopWork
<1>16. RanIsSaved'
  <2> SUFFICES ASSUME NEW x \in Messages, Safe(x), ran'[x] > 0
               PROVE  /\ ran'[x] = 1
                      /\ x \in Kept /\ Contains(seen, x)
                      /\ j.pc = "run" => ~Contains(j.got, x)
    BY <1>5, <1>14, <1>12 DEF RanIsSaved, Safe, Saving
  <2>1. CASE x = m
    <3>1. Contains(got, m) /\ Safe(got[1]) BY <1>4, <2>1
    <3>2. ran[m] = 0 BY <1>1, <1>3, <1>4, <1>14, <2>1, <3>1 DEF RanIsSaved
    <3>3. ran'[x] = 1 BY <1>1, <1>2, <1>4, <2>1, <3>2
    <3>4. x \in Kept /\ Contains(seen, x) BY <1>4, <1>15, <2>1, <3>1
    <3>5. ASSUME Contains(Tail(got), x) PROVE FALSE
      <4>1. PICK i \in 1 .. Len(got) - 1 : Tail(got)[i] = x
        BY <1>4, <3>5 DEF Contains
      <4>2. i + 1 \in 1 .. Len(got) /\ got[i + 1] = got[1] BY <1>4, <2>1, <4>1
      <4>3. i + 1 = 1 BY <1>4, <1>15, <3>1, <4>2
      <4> QED BY <4>1, <4>3
    <3> QED BY <1>5, <3>3, <3>4, <3>5
  <2>2. CASE x # m
    <3>1. ran'[x] = ran[x] BY <1>1, <1>2, <2>2
    <3>2. /\ ran[x] = 1 /\ x \in Kept /\ Contains(seen, x)
          /\ ~Contains(got, x)
      BY <1>14, <3>1 DEF RanIsSaved
    <3> QED BY <1>4, <1>5, <3>1, <3>2
  <2> QED BY <2>1, <2>2
<1>17. LoopWork'
  <2> SUFFICES ASSUME j.pc = "run", NEW i \in 1 .. Len(Tail(got)), Safe(Tail(got)[i])
               PROVE  /\ \A k \in 1 .. Len(Tail(got)) : Tail(got)[k] = Tail(got)[i] => k = i
                      /\ Contains(seen, Tail(got)[i]) /\ Tail(got)[i] \in Kept
    BY <1>5, <1>14, <1>12 DEF LoopWork, Safe, Saving
  <2>1. i + 1 \in 1 .. Len(got) /\ Tail(got)[i] = got[i + 1] BY <1>4
  <2>2. /\ \A k \in 1 .. Len(got) : got[k] = got[i + 1] => k = i + 1
        /\ Contains(seen, got[i + 1]) /\ got[i + 1] \in Kept
    BY <1>15, <2>1
  <2>3. ASSUME NEW k \in 1 .. Len(Tail(got)), Tail(got)[k] = Tail(got)[i]
        PROVE  k = i
    <3>1. k + 1 \in 1 .. Len(got) /\ Tail(got)[k] = got[k + 1] BY <1>4
    <3>2. k + 1 = i + 1 BY <2>1, <2>2, <2>3, <3>1
    <3> QED BY <3>2
  <2> QED BY <2>1, <2>2, <2>3
<1> QED BY <1>8, <1>10, <1>11, <1>16, <1>17, <1>13 DEF InboundInv

LEMMA RememberInv ==
  ASSUME InboundInv, NEW t \in Threads, Remember(t)
  PROVE  InboundInv'
<1> DEFINE got == job[t].got
           start == [seen |-> seen, fresh |-> <<>>, new |-> <<>>, out |-> {}]
           known == Taken(start, got)
           snap == Snapshot(known)
           k == [Idle EXCEPT !.got = known.fresh, !.keys = known.new, !.snap = snap]
           j == IF known.fresh = <<>> THEN Idle ELSE SaveOn(t, k)
<1>1. /\ job \in [Threads -> Jobs] /\ got \in Seq(Messages)
      /\ seen \in Seq(Keys) /\ Len(seen) <= MaxSeen
      /\ accepted \subseteq Messages /\ lost \subseteq Messages /\ evicted \subseteq Keys
      /\ troubled \in BOOLEAN
  BY DEF InboundInv, InboundTypes, Jobs
<1>2. /\ job[t].pc = "remember" /\ job' = [job EXCEPT ![t] = j]
      /\ seen' = known.seen /\ accepted' = accepted \union ToSet(known.fresh)
      /\ evicted' = evicted \union known.out
      /\ troubled' = (troubled \/ (known.new # <<>> /\ Persisting # {}))
      /\ UNCHANGED <<world, cursor, file, count, ran, dropped, lost>>
  BY DEF Remember
<1>3. Accounted(known, seen, got, Len(got)) BY <1>1, TakenAccounts
<1> HIDE DEF known
<1>4. /\ known.seen \in Seq(Keys) /\ known.fresh \in Seq(Messages)
      /\ known.new \in Seq(Messages) /\ known.out \subseteq Keys
      /\ Len(known.seen) <= MaxSeen
  BY <1>3 DEF Accounted, Knowns
<1>5. /\ \A x : Contains(known.seen, x) => Contains(seen, x) \/ Contains(known.fresh, x)
      /\ \A x : Contains(seen, x) => Contains(known.seen, x) \/ x \in known.out
      /\ \A x : Contains(known.new, x) =>
           Contains(known.fresh, x) /\ (Contains(known.seen, x) \/ x \in known.out)
      /\ known.new = <<>> => known.seen = seen
      /\ \A i \in 1 .. Len(got) : Contains(known.fresh, got[i]) \/ Contains(seen, got[i])
  BY <1>3 DEF Accounted
<1>6. ASSUME NEW i \in 1 .. Len(known.fresh), NEW m, known.fresh[i] = m, Safe(m)'
      PROVE  /\ Contains(known.seen, m) /\ ~Contains(seen, m) /\ Contains(known.new, m)
             /\ \A h \in 1 .. Len(known.fresh) : known.fresh[h] = m => h = i
  <2>1. Keyed(m) /\ m \notin known.out BY <1>2, <1>6 DEF Safe
  <2> QED BY <1>3, <1>6, <2>1 DEF Accounted
<1>7. /\ snap \in Seq(Keys) /\ \A x : Contains(snap, x) => Contains(known.seen, x)
      /\ snap # <<>> => snap = known.seen /\ known.new # <<>>
  BY <1>4, EmptyHasNone DEF Snapshot
<1> HIDE DEF snap
<1>8. /\ k \in Jobs /\ k.got = known.fresh /\ k.batch = <<>> /\ k.keys = known.new
      /\ k.snap = snap
  BY <1>4, <1>7, IdleJob DEF Jobs
<1> HIDE DEF k
<1>9. /\ j \in Jobs /\ j.pc \in {"append", "empty", "run", "idle"} /\ j.batch = <<>>
      /\ j.pc # "idle" => /\ j.got = known.fresh /\ j.keys = known.new /\ j.snap = snap
                          /\ known.fresh # <<>>
      /\ j.pc = "append" <=> j.keys # <<>>
      /\ j.pc = "empty" => j.snap # <<>>
      /\ j.pc = "run" => t = Loop /\ j.keys = <<>> /\ j.snap = <<>>
      /\ j.pc = "idle" => j = Idle
  <2>1. CASE known.fresh = <<>> BY <2>1, IdleJob
  <2>2. CASE known.fresh # <<>>
    <3>1. j = SaveOn(t, k) BY <2>2
    <3> HIDE DEF j
    <3> QED BY <1>8, <2>2, <3>1, SaveOnFits
  <2> QED BY <2>1, <2>2
<1> HIDE DEF j
<1>10. job'[t] = j BY <1>1, <1>2
<1>11. JobFits(t)' BY <1>9, <1>10, IdleJob DEF JobFits, Saving
<1>12. /\ \A x : x \in ToSet(known.fresh) <=> Contains(known.fresh, x)
       /\ ToSet(known.fresh) \subseteq Messages
  <2>1. ToSet(known.fresh) \subseteq Messages BY <1>4 DEF ToSet
  <2> QED BY <1>4, <2>1, InSet
<1>13. /\ \A x : Contains(seen, x) => x \in accepted' \union {Scrap}
       /\ \A x : Contains(known.fresh, x) => x \in accepted'
       /\ accepted \subseteq accepted'
  BY <1>2, <1>12 DEF InboundInv, KeysOfAccepted
<1>14. /\ job' \in [Threads -> Jobs] /\ \A u \in Threads \ {t} : job'[u] = job[u]
       /\ \A u \in Threads : JobFits(u)'
       /\ BehindIsHeld'
       /\ \A u \in Threads : Asked(u)'
       /\ LinesAreHeld'
  <2>1. j.pc \notin {"answer", "advance"} BY <1>9
  <2>2. ASSUME NEW x, Contains(got, x) PROVE x \in accepted'
    <3>1. x \in Messages /\ x # Scrap BY <1>1, <2>2, ScrapIsKey DEF Contains
    <3>2. Contains(known.fresh, x) \/ Contains(seen, x) BY <1>5, <2>2 DEF Contains
    <3> QED BY <1>13, <3>1, <3>2
  <2> QED BY <1>2, <1>9, <1>11, <1>13, <2>1, <2>2, FeedsStay DEF world
<1>15. InboundTypes'
  <2>1. accepted' \subseteq Messages /\ evicted' \subseteq Keys /\ troubled' \in BOOLEAN
    BY <1>1, <1>2, <1>4, <1>12
  <2> QED BY <1>2, <1>4, <1>14, <2>1 DEF world, file, count, InboundInv, InboundTypes
<1>16. Kept' = Kept
  <2>1. job[t].pc # "rewrite" /\ job'[t].pc # "rewrite" /\ saved' = saved
    BY <1>2, <1>9, <1>10 DEF file
  <2> QED BY <1>14, <2>1, KeptSame
<1>17. KeysOfAccepted'
  <2>1. \A x : Contains(seen', x) => x \in accepted' \union {Scrap}
    BY <1>2, <1>5, <1>13
  <2>2. \A x : Contains(saved', <<x>>) => x \in accepted' \union {Scrap}
    BY <1>2, <1>13 DEF file, InboundInv, KeysOfAccepted
  <2>3. ASSUME NEW u \in Threads
        PROVE  /\ \A x : Contains(job'[u].keys, x) => x \in accepted'
               /\ \A x : Contains(job'[u].snap, x) => x \in accepted' \union {Scrap}
               /\ job'[u].pc \in Saving =>
                    \A x : Contains(job'[u].got, x) => x \in accepted'
    <3>1. CASE u # t
      <4>1. job'[u] = job[u] BY <1>14, <3>1
      <4> QED BY <1>13, <4>1 DEF InboundInv, KeysOfAccepted
    <3>2. CASE u = t /\ j.pc # "idle"
      BY <1>2, <1>5, <1>7, <1>9, <1>10, <1>13, <2>1, <3>2
    <3>3. CASE u = t /\ j.pc = "idle"
      BY <1>9, <1>10, <3>3, EmptyHasNone, IdleJob
    <3> QED BY <3>1, <3>2, <3>3
  <2> QED BY <2>1, <2>2, <2>3 DEF KeysOfAccepted
<1>18. KeysAreKnown'
  <2>1. \A m : Contains(seen, m) \/ m \in evicted => Contains(seen', m) \/ m \in evicted'
    BY <1>2, <1>5
  <2>2. ASSUME NEW u \in Threads, NEW m \in Messages,
               Contains(job'[u].keys, m) \/ Contains(job'[u].snap, m)
        PROVE  Contains(seen', m) \/ m \in evicted'
    <3>1. CASE u # t
      <4>1. job'[u] = job[u] BY <1>14, <3>1
      <4> QED BY <2>1, <2>2, <4>1 DEF InboundInv, KeysAreKnown
    <3>2. CASE u = t /\ j.pc # "idle" BY <1>2, <1>5, <1>7, <1>9, <1>10, <2>2, <3>2
    <3>3. CASE u = t /\ j.pc = "idle"
      BY <1>9, <1>10, <2>2, <3>3, EmptyHasNone, IdleJob
    <3> QED BY <3>1, <3>2, <3>3
  <2> QED BY <1>16, <2>1, <2>2 DEF InboundInv, KeysAreKnown
<1>19. Orderly'
  <2> SUFFICES ASSUME ~troubled' PROVE Orderly' BY DEF Orderly
  <2>0. ~troubled /\ (known.new = <<>> \/ Persisting = {}) BY <1>2
  <2>1. /\ \A u, v \in Persisting : u = v
        /\ open => \E u \in Threads : job[u].pc = "newline"
        /\ \A u \in Threads : job[u].pc = "rewrite" => saved = <<>>
        /\ \A u \in Threads : job[u].snap # <<>> => job[u].snap = seen
        /\ lost \subseteq evicted
    BY <2>0 DEF InboundInv, Orderly
  <2>2. lost' \subseteq evicted' /\ saved' = saved /\ open' = open
    BY <1>2, <2>1 DEF file
  <2>3. \A u \in Threads : job'[u].pc = "rewrite" => saved' = <<>>
    <3> SUFFICES ASSUME NEW u \in Threads, job'[u].pc = "rewrite" PROVE saved = <<>>
      BY <2>2
    <3>1. u # t BY <1>9, <1>10
    <3> QED BY <1>14, <2>1, <3>1
  <2>4. open' => \E u \in Threads : job'[u].pc = "newline"
    <3> SUFFICES ASSUME open PROVE \E u \in Threads : job'[u].pc = "newline" BY <2>2
    <3>1. PICK u \in Threads : job[u].pc = "newline" BY <2>1
    <3>2. u # t BY <1>2, <3>1
    <3> QED BY <1>14, <3>1, <3>2
  <2>5. CASE known.new = <<>>
    <3>1. seen' = seen /\ snap = <<>> BY <1>2, <1>5, <1>7, <2>5
    <3>2. j.pc \in {"run", "idle"} /\ j.snap = <<>>
      BY <1>9, <2>5, <3>1, IdleJob
    <3>3. Persisting' \subseteq Persisting
      <4> SUFFICES ASSUME NEW u \in Threads,
                          job'[u].pc \in {"append", "newline", "empty", "rewrite"}
                   PROVE  u \in Persisting
        BY DEF Persisting
      <4>1. u # t BY <1>10, <3>2
      <4> QED BY <1>14, <4>1 DEF Persisting
    <3>4. ASSUME NEW u \in Threads, job'[u].snap # <<>> PROVE job'[u].snap = seen'
      <4>1. u # t BY <1>10, <3>2, <3>4
      <4> QED BY <1>14, <2>1, <3>1, <3>4, <4>1
    <3> QED BY <2>1, <2>2, <2>3, <2>4, <3>3, <3>4 DEF Orderly
  <2>6. CASE Persisting = {}
    <3>1. \A u \in Persisting' : u = t
      <4> SUFFICES ASSUME NEW u \in Threads, u # t,
                          job'[u].pc \in {"append", "newline", "empty", "rewrite"}
                   PROVE  FALSE
        BY DEF Persisting
      <4>1. u \in Persisting BY <1>14 DEF Persisting
      <4> QED BY <2>6, <4>1
    <3>2. ASSUME NEW u \in Threads, job'[u].snap # <<>> PROVE job'[u].snap = seen'
      <4>1. CASE u = t BY <1>2, <1>7, <1>9, <1>10, <3>2, <4>1, IdleJob
      <4>2. CASE u # t
        BY <1>14, <2>1, <2>6, <3>2, <4>2 DEF InboundInv, JobFits, Saving, Persisting
      <4> QED BY <4>1, <4>2
    <3> QED BY <2>2, <2>3, <2>4, <3>1, <3>2 DEF Orderly
  <2> QED BY <2>0, <2>5, <2>6
<1>20. \A m \in Messages : Safe(m)' => Safe(m) /\ m \notin known.out
  BY <1>2 DEF Safe
<1>21. RanIsSaved'
  <2> SUFFICES ASSUME NEW m \in Messages, Safe(m)', ran[m] > 0
               PROVE  /\ ran[m] = 1
                      /\ m \in Kept /\ Contains(seen', m)
                      /\ job'[Loop].pc \in Saving => ~Contains(job'[Loop].got, m)
    BY <1>2, <1>16 DEF RanIsSaved
  <2>1. /\ ran[m] = 1 /\ m \in Kept /\ Contains(seen, m)
        /\ job[Loop].pc \in Saving => ~Contains(job[Loop].got, m)
    BY <1>20 DEF InboundInv, RanIsSaved
  <2>2. Contains(seen', m) BY <1>2, <1>5, <1>20, <2>1
  <2>3. CASE t # Loop
    <3>1. job'[Loop] = job[Loop] BY <1>14, <2>3, LoopIsThread
    <3> QED BY <2>1, <2>2, <3>1
  <2>4. ASSUME t = Loop, j.pc \in Saving, Contains(known.fresh, m) PROVE FALSE
    <3>1. PICK i \in 1 .. Len(known.fresh) : known.fresh[i] = m BY <2>4 DEF Contains
    <3>2. ~Contains(seen, m) BY <1>6, <3>1
    <3> QED BY <2>1, <3>2
  <2> QED BY <1>9, <1>10, <2>1, <2>2, <2>3, <2>4 DEF Saving
<1>22. LoopWork'
  <2>1. CASE t # Loop
    <3>1. job'[Loop] = job[Loop] BY <1>14, <2>1, LoopIsThread
    <3>2. \A m \in Messages : Safe(m)' /\ Contains(seen, m) => Contains(seen', m)
      BY <1>2, <1>5, <1>20
    <3> QED BY <1>16, <1>20, <3>1, <3>2 DEF InboundInv, LoopWork, Safe
  <2>2. CASE t = Loop
    <3> SUFFICES ASSUME job'[t].pc \in Saving, NEW i \in 1 .. Len(job'[t].got),
                        NEW m, job'[t].got[i] = m, Safe(m)'
                 PROVE  /\ \A h \in 1 .. Len(job'[t].got) : job'[t].got[h] = m => h = i
                        /\ Contains(seen', m)
                        /\ Contains(job'[t].keys, m)
      BY <2>2 DEF LoopWork
    <3>1. job'[t].got = known.fresh /\ job'[t].keys = known.new
      BY <1>9, <1>10 DEF Saving
    <3> QED BY <1>2, <1>6, <3>1
  <2> QED BY <2>1, <2>2
<1>23. FileFits' BY <1>2 DEF file, InboundInv, FileFits
<1> QED BY <1>14, <1>15, <1>17, <1>18, <1>19, <1>21, <1>22, <1>23 DEF InboundInv

-----------------------------------------------------------------------------
(* The world outside, and a restart.                                       *)

\* Only the feeds' own state moves.
LEMMA OutsideKeeps ==
  ASSUME InboundInv, UNCHANGED <<confirmed, memory, file, job, count, history>>,
         InboundTypes', LinesAreHeld'
  PROVE  InboundInv'
<1>1. /\ confirmed' = confirmed /\ cursor' = cursor /\ seen' = seen /\ saved' = saved
      /\ job' = job /\ accepted' = accepted /\ ran' = ran /\ dropped' = dropped
      /\ lost' = lost /\ evicted' = evicted /\ troubled' = troubled /\ open' = open
  BY DEF memory, file, history, fate
<1>2. \A x : Held(x)' <=> Held(x) BY <1>1 DEF Held
<1>3. \A t \in Threads : JobFits(t)' BY <1>1 DEF InboundInv, JobFits
<1>4. BehindIsHeld' BY <1>1, <1>2, BehindStays DEF InboundInv
<1>5. \A t \in Threads : Asked(t)' BY <1>1, <1>2, AskedStays DEF InboundInv
<1>6. Kept' = Kept /\ Persisting' = Persisting BY <1>1 DEF Kept, Persisting
<1>7. KeysOfAccepted' /\ KeysAreKnown' /\ Orderly' /\ FileFits'
  BY <1>1, <1>6 DEF InboundInv, KeysOfAccepted, KeysAreKnown, Orderly, FileFits
<1>8. RanIsSaved' BY <1>1, <1>6 DEF InboundInv, RanIsSaved, Safe
<1>9. LoopWork' BY <1>1, <1>6 DEF InboundInv, LoopWork, Safe
<1> QED BY <1>3, <1>4, <1>5, <1>7, <1>8, <1>9 DEF InboundInv

LEMMA ArriveInv ==
  ASSUME InboundInv, NEW f \in Feeds, Arrive(f)
  PROVE  InboundInv'
<1>1. /\ sent["telegram"] + sent["slack"] < MaxSent
      /\ sent' = [sent EXCEPT ![f] = @ + 1]
      /\ UNCHANGED <<confirmed, inbox, unwritten, memory, file, job, count, history>>
  BY DEF Arrive
<1>2. sent' \in [Feeds -> Nat] /\ sent'["telegram"] + sent'["slack"] <= MaxSent
  <2>1. sent \in [Feeds -> Nat] /\ MaxSent \in Nat
    BY InboundAssumption DEF InboundInv, InboundTypes
  <2>2. CASE f = "telegram" BY <1>1, <2>1, <2>2 DEF Feeds
  <2>3. CASE f = "slack" BY <1>1, <2>1, <2>3 DEF Feeds
  <2> QED BY <2>2, <2>3 DEF Feeds
<1>3. InboundTypes'
  BY <1>1, <1>2 DEF memory, file, count, history, fate, InboundInv, InboundTypes
<1>4. \A x : Held(x)' <=> Held(x) BY <1>1 DEF Held, history
<1>5. LinesAreHeld' BY <1>1, <1>4, LinesStay DEF InboundInv
<1> QED BY <1>1, <1>3, <1>5, OutsideKeeps

LEMMA WriteLineInv ==
  ASSUME InboundInv, NEW l \in Lines, WriteLine(l)
  PROVE  InboundInv'
<1>1. /\ unwritten' = unwritten \ {l} /\ inbox' = Append(inbox, l)
      /\ UNCHANGED <<sent, confirmed, memory, file, job, count, history>>
  BY DEF WriteLine
<1>2. inbox \in Seq(Lines) /\ unwritten \subseteq Lines
  BY DEF InboundInv, InboundTypes
<1>3. /\ Append(inbox, l) \in Seq(Lines)
      /\ \A x : Contains(Append(inbox, l), x) <=> Contains(inbox, x) \/ x = l
  BY <1>2, InAppended
<1>4. InboundTypes'
  BY <1>1, <1>2, <1>3 DEF memory, file, count, history, fate, InboundInv, InboundTypes
<1>5. \A x : Held(x)' <=> Held(x) BY <1>1 DEF Held, history
<1>6. LinesAreHeld'
  <2>1. ASSUME NEW h \in Lines \ unwritten' PROVE Contains(inbox', h) \/ Held(Text(h))'
    <3>1. h = l \/ h \in Lines \ unwritten BY <1>1, <2>1
    <3> QED BY <1>1, <1>3, <1>5, <3>1 DEF InboundInv, LinesAreHeld
  <2> QED BY <2>1 DEF LinesAreHeld
<1> QED BY <1>1, <1>4, <1>6, OutsideKeeps

\* The keys a restart reads.
LEMMA LoadedHas ==
  ASSUME NEW s \in Seq(Seq(Keys))
  PROVE  /\ Loaded(s) \in Seq(Keys)
         /\ \A x : Contains(s, <<x>>) => Contains(Loaded(s), x)
         /\ \A x : Contains(Loaded(s), x) => Contains(s, <<x>>) \/ x = Scrap
<1>1. /\ DOMAIN s = 1 .. Len(s) /\ Len(s) \in Nat
      /\ \A i \in 1 .. Len(s) : s[i] \in Seq(Keys)
  OBVIOUS
<1>2. \A i \in 1 .. Len(s) : (IF Len(s[i]) = 1 THEN s[i][1] ELSE Scrap) \in Keys
  <2> SUFFICES ASSUME NEW i \in 1 .. Len(s), Len(s[i]) = 1 PROVE s[i][1] \in Keys
    BY ScrapIsKey
  <2>1. s[i] \in Seq(Keys) BY <1>1
  <2> QED BY <2>1
<1>3. Loaded(s) \in [1 .. Len(s) -> Keys] BY <1>1, <1>2 DEF Loaded
<1>4. Loaded(s) \in Seq(Keys) /\ Len(Loaded(s)) = Len(s)
  <2>1. ASSUME NEW n \in Nat, NEW f \in [1 .. n -> Keys] PROVE f \in Seq(Keys) /\ Len(f) = n
    OBVIOUS
  <2>2. Len(s) \in Nat OBVIOUS
  <2> QED BY <1>3, <2>1, <2>2
<1>5. \A i \in 1 .. Len(s) : Loaded(s)[i] = IF Len(s[i]) = 1 THEN s[i][1] ELSE Scrap
  BY <1>1 DEF Loaded
<1>6. ASSUME NEW x, Contains(s, <<x>>) PROVE Contains(Loaded(s), x)
  <2>1. PICK i \in 1 .. Len(s) : s[i] = <<x>> BY <1>6 DEF Contains
  <2>2. Len(s[i]) = 1 /\ s[i][1] = x BY <2>1
  <2>3. Loaded(s)[i] = x BY <1>5, <2>2
  <2> QED BY <1>4, <2>3 DEF Contains
<1>7. ASSUME NEW x, Contains(Loaded(s), x), x # Scrap PROVE Contains(s, <<x>>)
  <2>1. PICK i \in 1 .. Len(s) : Loaded(s)[i] = x BY <1>4, <1>7 DEF Contains
  <2>2. Len(s[i]) = 1 /\ s[i][1] = x BY <1>5, <1>7, <2>1
  <2>3. s[i] = <<x>>
    <3>1. s[i] \in Seq(Keys) BY <1>1
    <3> QED BY <2>2, <3>1
  <2> QED BY <2>3 DEF Contains
<1> QED BY <1>4, <1>6, <1>7

LEMMA RestartInv ==
  ASSUME InboundInv, Restart
  PROVE  InboundInv'
<1> DEFINE found == Loaded(saved)
<1>1. /\ restarts < MaxRestarts /\ restarts' = restarts + 1
      /\ cursor' = [f \in Feeds |-> 0] /\ seen' = Newest(found)
      /\ job' = [t \in Threads |-> Idle]
      /\ dropped' = dropped \union
           UNION {ToSet(job[t].got) : t \in {x \in Threads : job[x].pc \in Polling}}
      /\ evicted' = evicted \union (ToSet(found) \ ToSet(seen'))
      /\ troubled' = (troubled \/ open \/ \E t \in Threads : job[t].pc = "rewrite")
      /\ lost' = lost \union ((Kept \union {}) \ Kept')
      /\ UNCHANGED <<world, file, failures, accepted, ran>>
  BY DEF Restart, Losing
<1>2. /\ saved \in Seq(Seq(Keys)) /\ job \in [Threads -> Jobs]
      /\ lost \subseteq Messages /\ dropped \subseteq Messages /\ evicted \subseteq Keys
      /\ troubled \in BOOLEAN /\ open \in BOOLEAN
      /\ restarts \in 0 .. MaxRestarts /\ restarts \in Nat /\ MaxRestarts \in Nat
  BY InboundAssumption DEF InboundInv, InboundTypes
<1>3. /\ found \in Seq(Keys)
      /\ \A x : Contains(saved, <<x>>) => Contains(found, x)
      /\ \A x : Contains(found, x) => Contains(saved, <<x>>) \/ x = Scrap
  BY <1>2, LoadedHas
<1> HIDE DEF found
<1>4. /\ seen' \in Seq(Keys) /\ Len(seen') <= MaxSeen
      /\ \A x : Contains(seen', x) => Contains(found, x)
  BY <1>1, <1>3, NewestStay
<1>5. /\ \A x : x \in ToSet(found) <=> Contains(found, x)
      /\ \A x : x \in ToSet(seen') <=> Contains(seen', x)
      /\ ToSet(found) \subseteq Keys
  <2>1. ToSet(found) \subseteq Keys BY <1>3 DEF ToSet
  <2> QED BY <1>3, <1>4, <2>1, InSet
<1>6. \A t \in Threads : /\ job[t].got \in Seq(Messages)
                         /\ ToSet(job[t].got) \subseteq Messages
                         /\ \A x : x \in ToSet(job[t].got) <=> Contains(job[t].got, x)
  <2> SUFFICES ASSUME NEW t \in Threads
               PROVE  /\ job[t].got \in Seq(Messages)
                      /\ ToSet(job[t].got) \subseteq Messages
                      /\ \A x : x \in ToSet(job[t].got) <=> Contains(job[t].got, x)
    OBVIOUS
  <2>1. job[t].got \in Seq(Messages) BY <1>2 DEF Jobs
  <2>2. ToSet(job[t].got) \subseteq Messages BY <2>1 DEF ToSet
  <2> QED BY <2>1, <2>2, InSet
<1>7. dropped' \subseteq Messages BY <1>1, <1>2, <1>6
<1>8. \A t \in Threads : job'[t] = Idle BY <1>1
<1>9. Kept \subseteq Messages /\ \A m \in Kept : m \in Kept' \/ m \in lost'
  BY <1>1 DEF Kept
<1>10. InboundTypes'
  <2>1. cursor' \in [Feeds -> Nat] BY <1>1
  <2>2. job' \in [Threads -> Jobs] BY <1>1, IdleJob
  <2>3. restarts' \in 0 .. MaxRestarts BY <1>1, <1>2
  <2>4. lost' \subseteq Messages BY <1>1, <1>2, <1>9
  <2>5. evicted' \subseteq Keys BY <1>1, <1>2, <1>5
  <2>6. troubled' \in BOOLEAN BY <1>1, <1>2
  <2> QED
    BY <1>1, <1>4, <1>7, <2>1, <2>2, <2>3, <2>4, <2>5, <2>6
    DEF world, file, InboundInv, InboundTypes
<1>11. \A x : Held(x) => Held(x)'
  <2> SUFFICES ASSUME NEW x, Held(x) PROVE x \in accepted' \union dropped'
    BY DEF Held
  <2>1. CASE x \in accepted \union dropped BY <1>1, <2>1
  <2>2. ASSUME NEW t \in Threads, job[t].pc \in Polling, Contains(job[t].got, x)
        PROVE  x \in dropped'
    BY <1>1, <1>6, <2>2
  <2> QED BY <2>1, <2>2 DEF Held
<1>12. \A t \in Threads : JobFits(t)' BY <1>8, IdleJob DEF JobFits, Saving
<1>13. BehindIsHeld'
  <2>1. \A f \in Feeds : 1 .. cursor'[f] = {} BY <1>1
  <2>2. confirmed' = confirmed BY <1>1 DEF world
  <2> QED BY <1>11, <2>1, <2>2 DEF InboundInv, BehindIsHeld
<1>14. \A t \in Threads : Asked(t)' BY <1>8, IdleJob DEF Asked
<1>15. LinesAreHeld' BY <1>1, <1>11, LinesStay DEF world, InboundInv
<1>16. saved' = saved /\ open' = open BY <1>1 DEF file
<1>17. KeysOfAccepted'
  <2>1. \A x : Contains(saved, <<x>>) => x \in accepted \union {Scrap}
    BY DEF InboundInv, KeysOfAccepted
  <2>2. \A x : Contains(seen', x) => x \in accepted \union {Scrap} BY <1>3, <1>4, <2>1
  <2>3. ASSUME NEW t \in Threads
        PROVE  /\ \A x : ~Contains(job'[t].keys, x)
               /\ \A x : ~Contains(job'[t].snap, x)
               /\ job'[t].pc \notin Saving
    BY <1>8, EmptyHasNone, IdleJob DEF Saving
  <2> QED BY <1>1, <1>16, <2>1, <2>2, <2>3 DEF KeysOfAccepted
<1>18. \A m \in Kept' : m \in Messages /\ Contains(saved, <<m>>)
  BY <1>8, <1>16, IdleJob DEF Kept
<1>19. \A x : Contains(saved, <<x>>) => Contains(seen', x) \/ x \in evicted'
  BY <1>1, <1>3, <1>5
<1>20. KeysAreKnown'
  <2>1. \A t \in Threads : \A m :
          ~Contains(job'[t].keys, m) /\ ~Contains(job'[t].snap, m)
    BY <1>8, EmptyHasNone, IdleJob
  <2> QED BY <1>18, <1>19, <2>1 DEF KeysAreKnown
<1>21. Orderly'
  <2> SUFFICES ASSUME ~troubled' PROVE Orderly' BY DEF Orderly
  <2>1. ~troubled /\ ~open /\ \A t \in Threads : job[t].pc # "rewrite" BY <1>1
  <2>2. \A m \in Kept : Contains(saved, <<m>>) BY <2>1 DEF Kept
  <2>3. Kept \subseteq Kept' BY <1>9, <1>16, <2>2 DEF Kept
  <2>4. lost' \subseteq evicted' BY <1>1, <2>1, <2>3 DEF InboundInv, Orderly
  <2>5. Persisting' = {} BY <1>8, IdleJob DEF Persisting
  <2>6. \A t \in Threads : job'[t].pc # "rewrite" /\ job'[t].snap = <<>>
    BY <1>8, IdleJob
  <2> QED BY <1>16, <2>1, <2>4, <2>5, <2>6 DEF Orderly
<1>22. job'[Loop].pc \notin Saving BY <1>8, IdleJob, LoopIsThread DEF Saving
<1>23. RanIsSaved'
  <2>1. ASSUME NEW m \in Messages, Safe(m)', ran[m] > 0
        PROVE  ran[m] = 1 /\ m \in Kept' /\ Contains(seen', m)
    <3>1. Safe(m) /\ m \notin lost' /\ m \notin evicted' BY <1>1, <2>1 DEF Safe
    <3>2. ran[m] = 1 /\ m \in Kept BY <2>1, <3>1 DEF InboundInv, RanIsSaved
    <3>3. m \in Kept' BY <1>9, <3>1, <3>2
    <3> QED BY <1>18, <1>19, <3>1, <3>2, <3>3
  <2> QED BY <1>1, <1>22, <2>1 DEF RanIsSaved
<1>24. LoopWork' BY <1>22 DEF LoopWork
<1>25. FileFits' BY <1>16 DEF InboundInv, FileFits
<1> QED
  BY <1>10, <1>12, <1>13, <1>14, <1>15, <1>17, <1>20, <1>21, <1>23, <1>24, <1>25
  DEF InboundInv

-----------------------------------------------------------------------------
(* The theorems.                                                           *)

LEMMA InitInv == Init => InboundInv
<1> SUFFICES ASSUME Init PROVE InboundInv OBVIOUS
<1>1. /\ sent = [f \in Feeds |-> 0] /\ cursor = [f \in Feeds |-> 0]
      /\ confirmed = 0 /\ inbox = <<>> /\ unwritten = Lines
      /\ seen = <<>> /\ saved = <<>> /\ open = FALSE /\ failures = 0 /\ restarts = 0
      /\ job = [t \in Threads |-> Idle] /\ accepted = {} /\ dropped = {}
      /\ evicted = {} /\ lost = {} /\ troubled = FALSE
      /\ ran = [m \in Messages |-> 0]
  BY DEF Init
<1>2. \A t \in Threads : job[t] = Idle BY <1>1
<1>3. InboundTypes
  <2>1. /\ sent \in [Feeds -> Nat] /\ sent["telegram"] + sent["slack"] <= MaxSent
        /\ cursor \in [Feeds -> Nat] /\ confirmed \in Nat
    BY <1>1, InboundAssumption DEF Feeds
  <2>2. inbox \in Seq(Lines) /\ unwritten \subseteq Lines BY <1>1
  <2>3. seen \in Seq(Keys) /\ Len(seen) <= MaxSeen /\ saved \in Seq(Seq(Keys))
    BY <1>1, EmptyHasNone, InboundAssumption
  <2>4. job \in [Threads -> Jobs] BY <1>1, IdleJob
  <2>5. failures \in 0 .. MaxFailures /\ restarts \in 0 .. MaxRestarts
    BY <1>1, InboundAssumption
  <2>6. ran \in [Messages -> 0 .. 2] BY <1>1
  <2> QED BY <1>1, <2>1, <2>2, <2>3, <2>4, <2>5, <2>6 DEF InboundTypes
<1>4. \A t \in Threads : JobFits(t) BY <1>2, IdleJob DEF JobFits, Saving
<1>5. BehindIsHeld BY <1>1 DEF BehindIsHeld
<1>6. \A t \in Threads : Asked(t) BY <1>2, IdleJob DEF Asked
<1>7. LinesAreHeld BY <1>1 DEF LinesAreHeld
<1>8. KeysOfAccepted /\ KeysAreKnown /\ Orderly /\ FileFits
  <2>1. \A t \in Threads : /\ job[t].keys = <<>> /\ job[t].snap = <<>>
                           /\ job[t].pc = "idle"
    BY <1>2, IdleJob
  <2>2. Kept = {} /\ Persisting = {} BY <1>1, <2>1, EmptyHasNone DEF Kept, Persisting
  <2>3. KeysOfAccepted /\ KeysAreKnown
    BY <1>1, <2>1, <2>2, EmptyHasNone DEF KeysOfAccepted, KeysAreKnown, Saving
  <2> QED BY <1>1, <2>1, <2>2, <2>3 DEF Orderly, FileFits
<1>9. RanIsSaved BY <1>1 DEF RanIsSaved
<1>10. LoopWork BY <1>2, IdleJob, LoopIsThread DEF LoopWork, Saving
<1> QED BY <1>3, <1>4, <1>5, <1>6, <1>7, <1>8, <1>9, <1>10 DEF InboundInv

LEMMA StepInv ==
  ASSUME InboundInv, [Next]_vars
  PROVE  InboundInv'
<1>1. ASSUME NEW t \in Threads, Poll(t) PROVE InboundInv'
  BY <1>1, AskInv, AnswerInv, RefusedInv, AdvanceInv, ReadLinesInv, RemoveLinesInv,
     PollFailsInv DEF Poll
<1>2. ASSUME NEW t \in Threads, Ingest(t) PROVE InboundInv'
  BY <1>2, RememberInv, AppendKeyInv, EndLineInv, EmptyFileInv, RewriteInv, RunInv DEF Ingest
<1>3. ASSUME NEW r \in Requests, NEW l \in Hooked, Deliver(r, l) PROVE InboundInv'
  BY <1>3, DeliverInv
<1>4. ASSUME NEW f \in Feeds, Arrive(f) PROVE InboundInv' BY <1>4, ArriveInv
<1>5. ASSUME NEW l \in Lines, WriteLine(l) PROVE InboundInv' BY <1>5, WriteLineInv
<1>6. CASE Restart BY <1>6, RestartInv
<1>7. CASE UNCHANGED vars
  <2>1. UNCHANGED <<sent, confirmed, inbox, unwritten, memory, file, job, count, history>>
    BY <1>7 DEF vars, world
  <2>2. InboundTypes'
    BY <2>1 DEF memory, file, count, history, fate, InboundInv, InboundTypes
  <2>3. \A x : Held(x)' <=> Held(x) BY <2>1 DEF Held, history
  <2>4. LinesAreHeld' BY <2>1, <2>3, LinesStay DEF InboundInv
  <2> QED BY <2>1, <2>2, <2>4, OutsideKeeps
<1> QED BY <1>1, <1>2, <1>3, <1>4, <1>5, <1>6, <1>7 DEF Next

\* The inductive invariant holds in every state: whatever a poll has gone beyond is
\* held, and whatever was run is in the file of keys, or its key had to make room, or
\* the file lost it.
THEOREM InboundKeepsInv == Spec => []InboundInv
<1>1. Init => InboundInv BY InitInv
<1>2. InboundInv /\ [Next]_vars => InboundInv' BY StepInv
<1> QED BY <1>1, <1>2, PTL DEF Spec

\* Every variable has its type, and there are never more keys than MaxSeen.
THEOREM InboundTyped == Spec => []TypeOK
<1>1. InboundInv => TypeOK
  <2> SUFFICES ASSUME InboundInv PROVE TypeOK OBVIOUS
  <2>1. InboundTypes BY DEF InboundInv
  <2>2. ASSUME NEW t \in Threads
        PROVE  /\ job[t].pc \in Polling \union {"idle", "append", "newline", "empty",
                                                "rewrite", "run"}
               /\ job[t].feed \in Feeds
               /\ job[t].asked \in Nat /\ job[t].batch \in Seq(Messages)
               /\ job[t].got \in Seq(Messages)
               /\ job[t].keys \in Seq(Messages) /\ job[t].snap \in Seq(Keys)
    <3>1. job[t] \in Jobs BY <2>1 DEF InboundTypes
    <3> QED BY <3>1 DEF Jobs, Saving
  <2> QED BY <2>1, <2>2 DEF InboundTypes, TypeOK
<1> QED BY <1>1, InboundKeepsInv, PTL

\* No message that was sent is passed over: it is still to be fetched, in hand or
\* accepted, or went with a poll that failed or a restart (poll_telegram_once,
\* poll_slack_once, poll_whatsapp_once), however polls cross and restarts come.
THEOREM NoneIsSkipped == Spec => []NoneSkipped
<1>1. InboundInv => NoneSkipped
  <2> SUFFICES ASSUME InboundInv PROVE NoneSkipped OBVIOUS
  <2>1. BehindIsHeld /\ LinesAreHeld BY DEF InboundInv
  <2>2. sent \in [Feeds -> Nat] /\ cursor \in [Feeds -> Nat] /\ confirmed \in Nat
    BY DEF InboundInv, InboundTypes
  <2>3. ASSUME NEW f \in Feeds, NEW n \in 1 .. sent[f]
        PROVE  (n > cursor[f] /\ (f = "telegram" => n > confirmed)) \/ Held(Of(f, n))
    <3>1. CASE ~(n > cursor[f])
      <4>1. n \in 1 .. cursor[f] BY <2>2, <3>1
      <4> QED BY <2>1, <4>1 DEF BehindIsHeld
    <3>2. CASE f = "telegram" /\ ~(n > confirmed)
      <4>1. n \in 1 .. confirmed BY <2>2, <3>2
      <4> QED BY <2>1, <3>2, <4>1 DEF BehindIsHeld
    <3> QED BY <3>1, <3>2
  <2> QED BY <2>1, <2>3 DEF NoneSkipped, LinesAreHeld
<1> QED BY <1>1, InboundKeepsInv, PTL

\* The automation loop runs a message with a key at most once, over crossing polls and
\* restarts, unless its key had to make room or the file lost it; and without a write
\* that failed, two that wrote at a time (persist_seen_inbound_keys) or a stop in the
\* middle of a write, the file loses nothing.
THEOREM RunAtMostOnce == Spec => []RunOnce
<1>1. InboundInv => RunOnce
  <2> SUFFICES ASSUME InboundInv, NEW m \in Messages, Keyed(m), ran[m] > 1, m \notin evicted
               PROVE  m \in lost /\ troubled
    BY DEF RunOnce
  <2>1. ran[m] \in 0 .. 2 BY DEF InboundInv, InboundTypes
  <2>2. m \in lost
    <3> SUFFICES ASSUME m \notin lost PROVE FALSE OBVIOUS
    <3>1. ran[m] > 0 BY <2>1
    <3>2. ran[m] = 1 BY <3>1 DEF InboundInv, RanIsSaved, Safe
    <3> QED BY <3>2
  <2>3. troubled BY <2>2 DEF InboundInv, Orderly
  <2> QED BY <2>2, <2>3
<1> QED BY <1>1, InboundKeepsInv, PTL
=============================================================================
