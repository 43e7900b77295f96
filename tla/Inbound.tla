-------------------------------- MODULE Inbound -------------------------------
(***************************************************************************)
(* Messages that come in (lib.rs, webhook_api.rs, crates/clawork-adapters):*)
(* the automation loop and requests to list the messages poll Telegram, a  *)
(* WhatsApp file and Slack; webhooks are called; what is new by its key is *)
(* accepted, and the loop runs what it accepted.  The keys are kept in a   *)
(* queue and appended to a file, a key and then the end of its line; the   *)
(* file is emptied and written anew now and then, and a restart reads it.  *)
(* All that outside any lock: lines run together, and are written over.    *)
(***************************************************************************)
EXTENDS Integers, Sequences, SequencesExt

CONSTANTS
  Loop,          \* the automation loop, with CLAWORK_INBOUND_AUTORUN
  Requests,      \* requests to list the messages, and webhooks
  Lines,         \* lines written to the WhatsApp file
  Anonymous,     \* those that carry no id
  Hooked,        \* messages WhatsApp delivers to the webhook
  MaxSeen,       \* keys kept (2048)
  CompactEvery,  \* the file is compacted when this divides their number (256)
  MaxSent,       \* bound: messages of Telegram and Slack
  MaxFailures,   \* bound: failures of a feed or of a write
  MaxRestarts    \* bound: restarts

ASSUME InboundAssumption ==
  /\ Loop \notin Requests
  /\ Anonymous \subseteq Lines
  /\ MaxSeen \in Nat \ {0}
  /\ CompactEvery \in Nat \ {0}
  /\ MaxSent \in Nat
  /\ MaxFailures \in Nat
  /\ MaxRestarts \in Nat

VARIABLES
  sent,      \* feed -> number of the last message so far
  confirmed, \* Telegram forgets the messages up to this one
  inbox,     \* lines in the WhatsApp file, in order
  unwritten, \* lines still to come
  cursor,    \* feed -> number of the last message polled
  seen,      \* keys, the oldest first
  saved,     \* lines of the file of keys; a line is what was written into it
  open,      \* the last of them has not got its end
  job,       \* what each thread is doing
  failures,  \* failures so far
  restarts,  \* restarts so far
  accepted,  \* history: messages accepted
  ran,       \* history: message -> how often it was run
  dropped,   \* history: messages in hand of a poll that failed, or never read
  evicted,   \* history: keys that had to make room
  lost,      \* history: keys not written, or in the file and no longer there
  troubled   \* history: a write failed, two wrote keys at a time, or a stop came
             \* before the end of a line or of a compaction

world   == <<sent, confirmed, inbox, unwritten>>
memory  == <<cursor, seen>>
count   == <<failures, restarts>>
file    == <<saved, open>>
fate    == <<evicted, lost, troubled>>
history == <<accepted, ran, dropped, fate>>
vars    == <<world, memory, file, job, count, history>>

Feeds   == {"telegram", "slack"}
Threads == {Loop} \union Requests

-----------------------------------------------------------------------------
(* Messages and keys.                                                      *)

Of(feed, n) == <<feed, n>>
Text(l)     == <<"whatsapp", l>>
Texts(ls)   == [i \in 1 .. Len(ls) |-> Text(ls[i])]

Messages == {Of(f, n) : f \in Feeds, n \in 1 .. MaxSent}
              \union {Text(l) : l \in Lines \union Hooked}

\* The key of a message is its adapter and its id.
Keyed(m) == m \notin {Text(l) : l \in Anonymous}

\* What is left of a line that was cut: the key of no message, like lines that ran
\* together.
Scrap == <<"scrap", 0>>
Keys  == Messages \union {Scrap}

\* The keys a restart finds: one a line.
Loaded(lines) == [i \in DOMAIN lines |-> IF Len(lines[i]) = 1 THEN lines[i][1] ELSE Scrap]

\* The lines a compaction writes.
Written(keys) == [i \in DOMAIN keys |-> <<keys[i]>>]

Larger(a, b) == IF a > b THEN a ELSE b

\* The keys that stay when there are too many.
Newest(keys) == SubSeq(keys, Larger(0, Len(keys) - MaxSeen) + 1, Len(keys))

\* Keys, messages to accept and new keys after one more message: one whose key
\* is known is passed over.  out: keys that had to make room.
Take(known, m) ==
  IF ~Keyed(m) THEN [known EXCEPT !.fresh = Append(@, m)]
  ELSE IF Contains(known.seen, m) THEN known
  ELSE LET all == Append(known.seen, m)
       IN [seen  |-> Newest(all),
           fresh |-> Append(known.fresh, m),
           new   |-> Append(known.new, m),
           out   |-> known.out \union (ToSet(all) \ ToSet(Newest(all)))]

\* After all of them, in order.
Taken(start, messages) ==
  LET known[i \in 0 .. Len(messages)] ==
        IF i = 0 THEN start ELSE Take(known[i - 1], messages[i])
  IN known[Len(messages)]

\* Mutant: the file is compacted to the new keys.
SnapshotOfNew(known) ==
  IF known.new # <<>> /\ Len(known.seen) % CompactEvery = 0 THEN known.new ELSE <<>>

\* What the file is compacted to, if it is time.
Snapshot(known) ==
  IF known.new # <<>> /\ Len(known.seen) % CompactEvery = 0 THEN known.seen ELSE <<>>

-----------------------------------------------------------------------------
(* Control.                                                                *)

Idle == [pc |-> "idle", feed |-> "telegram", asked |-> 0, batch |-> <<>>,
         got |-> <<>>, keys |-> <<>>, snap |-> <<>>]

Polling == {"ask", "answer", "advance", "read", "remove", "remember"}

\* The feeds one after the other, with the WhatsApp file between them.
NextFeed(p) == IF job[p].feed = "telegram" THEN "read" ELSE "remember"

\* The keys are saved, then the file is compacted if it is time, then the loop
\* runs the messages; the others are done.
SaveOn(t, j) ==
  CASE j.keys # <<>>                    -> [j EXCEPT !.pc = "append"]
    [] j.keys = <<>> /\ j.snap # <<>>   -> [j EXCEPT !.pc = "empty"]
    [] j.keys = <<>> /\ j.snap = <<>>   -> IF t = Loop THEN [j EXCEPT !.pc = "run"] ELSE Idle

Persisting == {t \in Threads : job[t].pc \in {"append", "newline", "empty", "rewrite"}}

\* The keys of the file: on a line of their own, or about to be written anew.
Kept ==
  {m \in Messages :
     \/ Contains(saved, <<m>>)
     \/ \E t \in Threads : job[t].pc = "rewrite" /\ Contains(job[t].snap, m)}

\* History: of what was there and these keys, what is not there now.
Losing(keys) == lost' = lost \union ((Kept \union keys) \ Kept')

Failing == failures < MaxFailures /\ failures' = failures + 1

-----------------------------------------------------------------------------
(* poll_adapters_once, and the polls of the adapters.                      *)

\* Mutant: one message too far is asked for.
AskTooFar(p) ==
  /\ job[p].pc \in {"idle", "ask"}
  /\ job' = [job EXCEPT ![p].pc = "answer", ![p].asked = cursor[job[p].feed] + 1]
  /\ UNCHANGED <<world, memory, file, count, history>>

\* A poll begins with Telegram.
Ask(p) ==
  /\ job[p].pc \in {"idle", "ask"}
  /\ job' = [job EXCEPT ![p].pc = "answer", ![p].asked = cursor[job[p].feed]]
  /\ UNCHANGED <<world, memory, file, count, history>>

\* Telegram forgets what it is asked to go beyond; Slack keeps its messages.
Answer(p) ==
  /\ job[p].pc = "answer"
  /\ LET feed == job[p].feed
         gone == IF feed = "telegram" THEN Larger(confirmed, job[p].asked)
                 ELSE job[p].asked
     IN /\ confirmed' = IF feed = "telegram" THEN gone ELSE confirmed
        /\ job' = [job EXCEPT ![p].pc = "advance",
             ![p].batch = [i \in 1 .. sent[feed] - gone |-> Of(feed, gone + i)]]
  /\ UNCHANGED <<sent, inbox, unwritten, memory, file, count, history>>

\* An answer that is not ok counts for an empty one.
Refused(p) ==
  /\ job[p].pc = "answer"
  /\ Failing
  /\ job' = [job EXCEPT ![p].pc = NextFeed(p), ![p].asked = 0]
  /\ UNCHANGED <<world, memory, file, restarts, history>>

\* The cursor is set to what this poll saw, whatever another has set it to;
\* that of Slack only if there was something new.
Advance(p) ==
  /\ job[p].pc = "advance"
  /\ LET feed == job[p].feed
         last == IF job[p].batch = <<>> THEN job[p].asked ELSE Last(job[p].batch)[2]
     IN cursor' = IF feed = "telegram" \/ last > job[p].asked
                  THEN [cursor EXCEPT ![feed] = last] ELSE cursor
  /\ job' = [job EXCEPT ![p].pc = NextFeed(p), ![p].got = @ \o job[p].batch,
                        ![p].asked = 0, ![p].batch = <<>>]
  /\ UNCHANGED <<world, seen, file, count, history>>

ReadLines(p) ==
  /\ job[p].pc = "read"
  /\ job' = [job EXCEPT ![p].pc = IF inbox = <<>> THEN "ask" ELSE "remove",
                        ![p].feed = IF inbox = <<>> THEN "slack" ELSE @,
                        ![p].got = @ \o Texts(inbox)]
  /\ UNCHANGED <<world, memory, file, count, history>>

\* The file is removed with what was written to it since; that it could not be
\* is ignored.
RemoveLines(p) ==
  /\ job[p].pc = "remove"
  /\ \/ /\ inbox' = <<>>
        /\ dropped' = dropped \union ({Text(l) : l \in ToSet(inbox)} \ ToSet(job[p].got))
        /\ UNCHANGED failures
     \/ Failing /\ UNCHANGED <<inbox, dropped>>
  /\ job' = [job EXCEPT ![p].pc = "ask", ![p].feed = "slack"]
  /\ UNCHANGED <<sent, confirmed, unwritten, memory, file, restarts,
                 accepted, ran, fate>>

\* One adapter fails, and so does the poll, with what the others gave it.
PollFails(p) ==
  /\ job[p].pc \in {"answer", "read"}
  /\ Failing
  /\ job' = [job EXCEPT ![p] = Idle]
  /\ dropped' = dropped \union ToSet(job[p].got)
  /\ UNCHANGED <<world, memory, file, restarts, accepted, ran, fate>>

\* A webhook delivers a message as often as it likes.
Deliver(r, l) ==
  /\ job[r].pc = "idle"
  /\ job' = [job EXCEPT ![r].pc = "remember", ![r].got = <<Text(l)>>]
  /\ UNCHANGED <<world, memory, file, count, history>>

-----------------------------------------------------------------------------
(* ingest_inbound_messages_collect.                                        *)

\* Under one lock.
Remember(t) ==
  /\ job[t].pc = "remember"
  /\ LET start == [seen |-> seen, fresh |-> <<>>, new |-> <<>>, out |-> {}]
         known == Taken(start, job[t].got)
     IN /\ seen' = known.seen
        /\ accepted' = accepted \union ToSet(known.fresh)
        /\ evicted' = evicted \union known.out
        /\ troubled' = (troubled \/ (known.new # <<>> /\ Persisting # {}))
        /\ job' = [job EXCEPT ![t] =
             IF known.fresh = <<>> THEN Idle
             ELSE SaveOn(t, [Idle EXCEPT !.got = known.fresh, !.keys = known.new,
                                         !.snap = Snapshot(known)])]
  /\ UNCHANGED <<world, cursor, file, count, ran, dropped, lost>>

\* One key after the other, with whatever happens in between: the file is opened
\* to append, so a key goes where the file ends.  A write that fails is ignored, as
\* is a file that cannot be opened.
AppendKey(t) ==
  /\ job[t].pc = "append"
  /\ LET keys == job[t].keys
         key  == Head(keys)
     IN \/ /\ saved' = IF open THEN [saved EXCEPT ![Len(saved)] = Append(@, key)]
                      ELSE Append(saved, <<key>>)
           /\ open' = TRUE
           /\ job' = [job EXCEPT ![t].pc = "newline", ![t].keys = Tail(keys)]
           /\ Losing({key})
           /\ UNCHANGED <<failures, troubled>>
        \/ \E rest \in {Tail(keys), <<>>} :
             /\ Failing /\ troubled' = TRUE
             /\ job' = [job EXCEPT ![t] = SaveOn(t, [@ EXCEPT !.keys = rest])]
             /\ lost' = lost \union (ToSet(keys) \ ToSet(rest))
             /\ UNCHANGED file
  /\ UNCHANGED <<world, memory, restarts, accepted, ran, dropped, evicted>>

\* The end of its line is another write: what others wrote since is before it.
EndLine(t) ==
  /\ job[t].pc = "newline"
  /\ \/ open' = FALSE /\ UNCHANGED <<failures, troubled>>
     \/ Failing /\ troubled' = TRUE /\ UNCHANGED open
  /\ job' = [job EXCEPT ![t] = SaveOn(t, job[t])]
  /\ UNCHANGED <<world, memory, saved, restarts, accepted, ran, dropped, evicted, lost>>

\* A compaction: the snapshot was taken under the lock; the file is emptied, and
\* then written from its beginning, over whatever was appended in between.
EmptyFile(t) ==
  /\ job[t].pc = "empty"
  /\ \/ /\ saved' = <<>> /\ open' = FALSE
        /\ job' = [job EXCEPT ![t].pc = "rewrite"]
        /\ UNCHANGED <<failures, troubled>>
     \/ /\ Failing /\ troubled' = TRUE
        /\ job' = [job EXCEPT ![t] = SaveOn(t, [@ EXCEPT !.snap = <<>>])]
        /\ UNCHANGED file
  /\ Losing({})
  /\ UNCHANGED <<world, memory, restarts, accepted, ran, dropped, evicted>>

\* Of the lines in between some are beyond it, the first of them perhaps cut.
Rewrite(t) ==
  /\ job[t].pc = "rewrite"
  /\ \/ \E n \in 0 .. Len(saved), cut \in BOOLEAN :
          /\ n = 0 => saved = <<>> /\ ~cut
          /\ LET beyond == SubSeq(saved, n + 1, Len(saved))
                 rest == IF cut THEN <<<<Scrap>>>> \o beyond ELSE beyond
             IN /\ saved' = Written(job[t].snap) \o rest
                /\ open' = (open /\ rest # <<>>)
          /\ UNCHANGED <<failures, troubled>>
     \/ Failing /\ troubled' = TRUE /\ UNCHANGED file
  /\ job' = [job EXCEPT ![t] = SaveOn(t, [@ EXCEPT !.snap = <<>>])]
  /\ Losing({})
  /\ UNCHANGED <<world, memory, restarts, accepted, ran, dropped, evicted>>

\* The loop runs the instructions one after the other.
Run(t) ==
  /\ job[t].pc = "run"
  /\ LET m    == Head(job[t].got)
         rest == Tail(job[t].got)
     IN /\ ran' = [ran EXCEPT ![m] = IF @ = 2 THEN 2 ELSE @ + 1]
        /\ job' = [job EXCEPT ![t] =
             IF rest = <<>> THEN Idle ELSE [job[t] EXCEPT !.got = rest]]
  /\ UNCHANGED <<world, memory, file, count, accepted, dropped, fate>>

-----------------------------------------------------------------------------
(* The world outside, and the application stopping and starting again.     *)

Arrive(feed) ==
  /\ sent["telegram"] + sent["slack"] < MaxSent
  /\ sent' = [sent EXCEPT ![feed] = @ + 1]
  /\ UNCHANGED <<confirmed, inbox, unwritten, memory, file, job, count, history>>

WriteLine(l) ==
  /\ l \in unwritten
  /\ unwritten' = unwritten \ {l}
  /\ inbox' = Append(inbox, l)
  /\ UNCHANGED <<sent, confirmed, memory, file, job, count, history>>

\* What was polled and not yet accepted is gone.
Restart ==
  /\ restarts < MaxRestarts
  /\ restarts' = restarts + 1
  /\ cursor' = [f \in Feeds |-> 0]
  /\ seen' = Newest(Loaded(saved))
  /\ job' = [t \in Threads |-> Idle]
  /\ dropped' = dropped \union
       UNION {ToSet(job[t].got) : t \in {x \in Threads : job[x].pc \in Polling}}
  /\ evicted' = evicted \union (ToSet(Loaded(saved)) \ ToSet(seen'))
  /\ troubled' = (troubled \/ open \/ \E t \in Threads : job[t].pc = "rewrite")
  /\ UNCHANGED <<world, file, failures, accepted, ran>>
  /\ Losing({})

-----------------------------------------------------------------------------

Init ==
  /\ sent = [f \in Feeds |-> 0]
  /\ confirmed = 0
  /\ inbox = <<>>
  /\ unwritten = Lines
  /\ cursor = [f \in Feeds |-> 0]
  /\ seen = <<>>
  /\ saved = <<>>
  /\ open = FALSE
  /\ job = [t \in Threads |-> Idle]
  /\ failures = 0
  /\ restarts = 0
  /\ accepted = {}
  /\ ran = [m \in Messages |-> 0]
  /\ dropped = {}
  /\ evicted = {}
  /\ lost = {}
  /\ troubled = FALSE

Poll(p) ==
  \/ Ask(p) \/ Answer(p) \/ Refused(p) \/ Advance(p)
  \/ ReadLines(p) \/ RemoveLines(p) \/ PollFails(p)

Ingest(t) ==
  \/ Remember(t) \/ AppendKey(t) \/ EndLine(t) \/ EmptyFile(t) \/ Rewrite(t)
  \/ Run(t)

Next ==
  \/ \E t \in Threads : Poll(t) \/ Ingest(t)
  \/ \E r \in Requests, l \in Hooked : Deliver(r, l)
  \/ \E f \in Feeds : Arrive(f)
  \/ \E l \in Lines : WriteLine(l)
  \/ Restart

Spec == Init /\ [][Next]_vars

-----------------------------------------------------------------------------
(* Properties.                                                             *)

\* Every variable has its type, and there are never too many keys.
TypeOK ==
  /\ sent \in [Feeds -> Nat] /\ cursor \in [Feeds -> Nat]
  /\ confirmed \in Nat
  /\ inbox \in Seq(Lines) /\ unwritten \subseteq Lines
  /\ seen \in Seq(Keys) /\ Len(seen) <= MaxSeen
  /\ saved \in Seq(Seq(Keys)) /\ open \in BOOLEAN
  /\ DOMAIN job = Threads
  /\ \A t \in Threads :
       /\ job[t].pc \in Polling \union {"idle", "append", "newline", "empty",
                                         "rewrite", "run"}
       /\ job[t].feed \in Feeds
       /\ job[t].asked \in Nat /\ job[t].batch \in Seq(Messages)
       /\ job[t].got \in Seq(Messages)
       /\ job[t].keys \in Seq(Messages) /\ job[t].snap \in Seq(Keys)
  /\ failures \in 0 .. MaxFailures /\ restarts \in 0 .. MaxRestarts
  /\ accepted \subseteq Messages /\ dropped \subseteq Messages
  /\ ran \in [Messages -> 0 .. 2]
  /\ lost \subseteq Messages /\ evicted \subseteq Keys /\ troubled \in BOOLEAN

\* A poll or a webhook has it, or it was accepted, or went with a poll that failed.
Held(m) ==
  \/ \E t \in Threads : job[t].pc \in Polling /\ Contains(job[t].got, m)
  \/ m \in accepted \union dropped

\* A message that was sent is still to be fetched, in hand, or accepted, unless
\* the poll that held it failed, and a line that was written is in the file or
\* likewise: polls at cross purposes, a cursor that is set back, and restarts
\* lose none.
NoneSkipped ==
  /\ \A f \in Feeds : \A n \in 1 .. sent[f] :
       \/ n > cursor[f] /\ (f = "telegram" => n > confirmed)
       \/ Held(Of(f, n))
  /\ \A l \in Lines \ unwritten : Contains(inbox, l) \/ Held(Text(l))

\* The loop runs no message twice, over restarts and whoever else polls, unless its
\* key had to make room, or the file lost it: and the file loses keys only where a
\* write fails, two write at a time (a line that runs together with another, or a
\* snapshot older than what it overwrites), or the application stops before the end
\* of a line or of a compaction.
RunOnce ==
  \A m \in Messages :
    Keyed(m) /\ ran[m] > 1 => m \in evicted \/ (m \in lost /\ troubled)

\* A message that was accepted is run, however it came in.
AcceptedIsRun ==
  (\A t \in Threads : job[t].pc = "idle") => \A m \in accepted : ran[m] > 0
=============================================================================
