--------------------------- MODULE SignalIngestion ---------------------------
(***************************************************************************)
(* How Telegram messages become records of data/signals.json.              *)
(*                                                                         *)
(*   bot     TelegramBotListener: polls getUpdates, keeps an offset file   *)
(*   live    TelegramChannelClient.listen_forever and                      *)
(*           TelegramSignalListener: handlers of pushed messages           *)
(*   import  TelegramChannelClient.import_history: newest message first    *)
(*                                                                         *)
(* All of them save through SignalStore.save_raw_signal.  Each is a        *)
(* process of its own; every operation on a file reads all of it and then  *)
(* replaces it.                                                            *)
(***************************************************************************)
EXTENDS Naturals, Sequences, FiniteSetsExt

CONSTANTS
  Ingestors,   \* the ones in use, of {"bot", "live", "import"}
  Sources,     \* source names
  SourceOf,    \* Ingestors -> Sources, the name each gives the watched chat
  Overlaps,    \* the sets of ingestors that may be run at the same time
  Faults,      \* the faults that may happen, see FaultKinds
  Torn,        \* an offset file that open("w") emptied and nobody wrote
  MaxPosts     \* bound: messages posted to the chat

(***************************************************************************)
(* crash    a process dies                                                 *)
(* network  getUpdates raises                                              *)
(* disk     the replacement of signals.json or of trade_events.json raises *)
(***************************************************************************)
FaultKinds == {"crash", "network", "disk"}

ASSUME ConstantsAssumption ==
  /\ Ingestors \subseteq {"bot", "live", "import"}
  /\ SourceOf \in [Ingestors -> Sources]
  /\ Overlaps \subseteq SUBSET Ingestors
  /\ Faults \subseteq FaultKinds
  /\ Torn \notin Nat /\ MaxPosts \in Nat

VARIABLES
  together,   \* the ingestors the operator runs at the same time, {} for none
  posts,      \* the messages of the chat: "text", or "other" for nothing to save
  confirmed,  \* the first update Telegram still keeps for the bot
  offset,     \* data/telegram_bot_offset.json: NoOffset, an offset, or Torn
  signals,    \* data/signals.json
  events,     \* the SIGNAL_RECEIVED events of data/trade_events.json
  pc,         \* where each ingestor is
  job,        \* the message in hand, NoMessage for none
  todo,       \* the messages fetched or pushed and not yet handled
  view        \* the copy of a file between its read and its replacement

outside == <<together, posts, confirmed>>
vars == <<outside, offset, signals, events, pc, job, todo, view>>

NoMessage == 0
NoOffset == 0

Steps == {"down", "poll", "batch", "offset", "listen", "iterate", "exists",
          "read", "write", "readEvents", "writeEvents", "readLatency", "writeLatency"}

SignalId == Sources \X Nat
Signal == [id : SignalId, latency : BOOLEAN]
NoView == [signals |-> <<>>, events |-> {}]

Init ==
  /\ together \in Overlaps
  /\ posts = <<>> /\ confirmed = 1
  /\ offset = NoOffset
  /\ signals = <<>> /\ events = {}
  /\ pc = [p \in Ingestors |-> "down"]
  /\ job = [p \in Ingestors |-> NoMessage]
  /\ todo = [p \in Ingestors |-> {}]
  /\ view = [p \in Ingestors |-> NoView]
-----------------------------------------------------------------------------
Goto(p, step) == pc' = [pc EXCEPT ![p] = step]

\* Where each ingestor waits for its next message.
Home(p) == CASE p = "bot" -> "batch" [] p = "live" -> "listen" [] OTHER -> "iterate"

\* The process ends: nothing around the loops catches an exception.
Stop(p) ==
  /\ Goto(p, "down")
  /\ job' = [job EXCEPT ![p] = NoMessage]
  /\ todo' = [todo EXCEPT ![p] = {}]
  /\ view' = [view EXCEPT ![p] = NoView]

\* The message in hand is finished with.
Resume(p) ==
  /\ Goto(p, Home(p))
  /\ job' = [job EXCEPT ![p] = NoMessage]
  /\ view' = [view EXCEPT ![p] = NoView]
  /\ UNCHANGED todo

\* An exception ends the bot and the import; Telethon logs one of a handler.
Raise(p) == IF p = "live" THEN Resume(p) ELSE Stop(p)

Drop(p, m) == todo' = [todo EXCEPT ![p] = @ \ {m}]

\* A message without a text, or of another chat, is not saved.
Handle(p, m) ==
  LET worth == posts[m] = "text"
  IN  /\ Goto(p, IF worth THEN "exists" ELSE Home(p))
      /\ job' = [job EXCEPT ![p] = IF worth THEN m ELSE NoMessage]

Start(p) ==
  /\ pc[p] = "down"
  /\ LET up == {q \in Ingestors : pc[q] # "down"}
     IN  up = {} \/ up \cup {p} \subseteq together
  /\ Goto(p, IF p = "bot" THEN "poll" ELSE Home(p))
  /\ todo' = [todo EXCEPT ![p] = IF p = "import" THEN DOMAIN posts ELSE {}]
  /\ UNCHANGED <<outside, offset, signals, events, job, view>>

\* A new message; Telethon pushes it to a client that is connected.
Post(kind) ==
  /\ Len(posts) < MaxPosts
  /\ posts' = Append(posts, kind)
  /\ todo' = [p \in Ingestors |->
       IF p = "live" /\ pc[p] # "down" THEN todo[p] \cup {Len(posts) + 1} ELSE todo[p]]
  /\ UNCHANGED <<together, confirmed, offset, signals, events, pc, job, view>>
-----------------------------------------------------------------------------
(***************************************************************************)
(* poll_once and its loop.                                                 *)
(***************************************************************************)

\* Mutant: the offset skips one update.
PollSkipping(p) ==
  /\ p = "bot" /\ pc[p] = "poll" /\ offset # Torn
  /\ confirmed' = Max({confirmed, offset})
  /\ todo' = [todo EXCEPT ![p] = {m \in DOMAIN posts : m > confirmed'}]
  /\ Goto(p, IF todo'[p] = {} THEN "poll" ELSE "batch")
  /\ UNCHANGED <<together, posts, offset, signals, events, job, view>>

\* getUpdates: Telegram forgets the updates below the offset it is given.
Poll(p) ==
  /\ p = "bot" /\ pc[p] = "poll" /\ offset # Torn
  /\ confirmed' = Max({confirmed, offset})
  /\ todo' = [todo EXCEPT ![p] = {m \in DOMAIN posts : m >= confirmed'}]
  /\ Goto(p, IF todo'[p] = {} THEN "poll" ELSE "batch")
  /\ UNCHANGED <<together, posts, offset, signals, events, job, view>>

\* A torn offset file is not JSON: json.load raises.
PollTorn(p) ==
  /\ p = "bot" /\ pc[p] = "poll" /\ offset = Torn
  /\ Stop(p)
  /\ UNCHANGED <<outside, offset, signals, events>>

\* The request raises.
PollRaises(p) ==
  /\ p = "bot" /\ pc[p] = "poll" /\ offset # Torn
  /\ "network" \in Faults
  /\ Stop(p)
  /\ UNCHANGED <<outside, offset, signals, events>>

\* _set_offset opens the file for writing, which empties it, ...
TruncateOffset(p) ==
  /\ p = "bot" /\ pc[p] = "batch" /\ todo[p] # {}
  /\ offset' = Torn
  /\ job' = [job EXCEPT ![p] = Min(todo[p])]
  /\ Drop(p, Min(todo[p]))
  /\ Goto(p, "offset")
  /\ UNCHANGED <<outside, signals, events, view>>

\* ... and dumps the offset into it, before the update is handled.
SetOffset(p) ==
  /\ p = "bot" /\ pc[p] = "offset"
  /\ offset' = job[p] + 1
  /\ Handle(p, job[p])
  /\ UNCHANGED <<outside, signals, events, todo, view>>

BatchDone(p) ==
  /\ p = "bot" /\ pc[p] = "batch" /\ todo[p] = {}
  /\ Goto(p, "poll")
  /\ UNCHANGED <<outside, offset, signals, events, job, todo, view>>

\* get_chat() is awaited: the handlers of two messages may finish in any order.
TakePushed(p) ==
  /\ p = "live" /\ pc[p] = "listen"
  /\ \E m \in todo[p] : Drop(p, m) /\ Handle(p, m)
  /\ UNCHANGED <<outside, offset, signals, events, view>>

TakeOlder(p) ==
  /\ p = "import" /\ pc[p] = "iterate" /\ todo[p] # {}
  /\ Drop(p, Max(todo[p])) /\ Handle(p, Max(todo[p]))
  /\ UNCHANGED <<outside, offset, signals, events, view>>

ImportDone(p) ==
  /\ p = "import" /\ pc[p] = "iterate" /\ todo[p] = {}
  /\ Stop(p)
  /\ UNCHANGED <<outside, offset, signals, events>>
-----------------------------------------------------------------------------
(***************************************************************************)
(* save_raw_signal and, for the bot, the update with the latency.          *)
(***************************************************************************)
\* Mutant: source and message id in the wrong order.
IdOfSwapped(p) == <<job[p], SourceOf[p]>>

IdOf(p) == <<SourceOf[p], job[p]>>

StoredIn(s, id) == \E i \in DOMAIN s : s[i].id = id

Duplicate(p) ==
  /\ pc[p] = "exists"
  /\ StoredIn(signals, IdOf(p))
  /\ Resume(p)
  /\ UNCHANGED <<outside, offset, signals, events>>

\* Mutant: nobody asks whether the signal is there already.
NotYetStoredUnchecked(p) ==
  /\ pc[p] = "exists"
  /\ Goto(p, "read")
  /\ UNCHANGED <<outside, offset, signals, events, job, todo, view>>

NotYetStored(p) ==
  /\ pc[p] = "exists"
  /\ ~ StoredIn(signals, IdOf(p))
  /\ Goto(p, "read")
  /\ UNCHANGED <<outside, offset, signals, events, job, todo, view>>

ReadSignals(p) ==
  /\ pc[p] \in {"read", "readLatency"}
  /\ pc[p] = "readLatency" => StoredIn(signals, IdOf(p))
  /\ view' = [view EXCEPT ![p].signals = signals]
  /\ Goto(p, IF pc[p] = "read" THEN "write" ELSE "writeLatency")
  /\ UNCHANGED <<outside, offset, signals, events, job, todo>>

\* Mutant: the event is all that is kept of the message.
SaveRawDropped(p) ==
  /\ pc[p] = "write"
  /\ signals' = view[p].signals
  /\ Goto(p, "readEvents")
  /\ UNCHANGED <<outside, offset, events, job, todo, view>>

SaveRaw(p) ==
  /\ pc[p] = "write"
  /\ signals' = Append(view[p].signals, [id |-> IdOf(p), latency |-> FALSE])
  /\ Goto(p, "readEvents")
  /\ UNCHANGED <<outside, offset, events, job, todo, view>>

ReadEvents(p) ==
  /\ pc[p] = "readEvents"
  /\ view' = [view EXCEPT ![p].events = events]
  /\ Goto(p, "writeEvents")
  /\ UNCHANGED <<outside, offset, signals, events, job, todo>>

\* SIGNAL_RECEIVED; the bot goes on to update_signal.
Announce(p) ==
  /\ pc[p] = "writeEvents"
  /\ events' = view[p].events \cup {IdOf(p)}
  /\ \/ p = "bot" /\ Goto(p, "readLatency") /\ UNCHANGED <<job, todo, view>>
     \/ p # "bot" /\ Resume(p)
  /\ UNCHANGED <<outside, offset, signals>>

\* update_signal changes the first record of the id.
UpdateLatency(p) ==
  /\ pc[p] = "writeLatency"
  /\ LET s == view[p].signals
         first == Min({i \in DOMAIN s : s[i].id = IdOf(p)})
     IN  signals' = [s EXCEPT ![first].latency = TRUE]
  /\ Resume(p)
  /\ UNCHANGED <<outside, offset, events>>

\* update_signal raises: the record is gone.
RecordGone(p) ==
  /\ pc[p] = "readLatency"
  /\ ~ StoredIn(signals, IdOf(p))
  /\ Raise(p)
  /\ UNCHANGED <<outside, offset, signals, events>>

SaveRaises(p) ==
  /\ "disk" \in Faults
  /\ pc[p] \in {"write", "writeEvents", "writeLatency"}
  /\ Raise(p)
  /\ UNCHANGED <<outside, offset, signals, events>>

Crash(p) ==
  /\ "crash" \in Faults /\ pc[p] # "down"
  /\ Stop(p)
  /\ UNCHANGED <<outside, offset, signals, events>>
-----------------------------------------------------------------------------
Fetch(p) ==
  \/ Poll(p) \/ PollTorn(p) \/ TruncateOffset(p) \/ SetOffset(p) \/ BatchDone(p)
  \/ TakePushed(p) \/ TakeOlder(p) \/ ImportDone(p)

Save(p) ==
  \/ Duplicate(p) \/ NotYetStored(p) \/ ReadSignals(p) \/ SaveRaw(p)
  \/ ReadEvents(p) \/ Announce(p) \/ UpdateLatency(p) \/ RecordGone(p)

\* What the code does when nothing fails around it, and what may fail.
Run(p) == Fetch(p) \/ Save(p)

Fail(p) == PollRaises(p) \/ SaveRaises(p) \/ Crash(p)

Next ==
  \/ \E p \in Ingestors : Start(p) \/ Run(p) \/ Fail(p)
  \/ \E kind \in {"text", "other"} : Post(kind)

Spec == Init /\ [][Next]_vars

\* The loop of a process that runs goes on: listen_forever polls again and
\* again, and every request has a timeout.  Nobody has to start a process, and
\* nothing has to fail.
FairSpec == Spec /\ \A p \in Ingestors : WF_vars(Run(p))
-----------------------------------------------------------------------------
(***************************************************************************)
(* Properties.                                                             *)
(***************************************************************************)
TypeOK ==
  /\ together \subseteq Ingestors
  /\ posts \in Seq({"text", "other"}) /\ confirmed \in Nat
  /\ offset \in Nat \cup {Torn}
  /\ signals \in Seq(Signal)
  /\ events \subseteq SignalId
  /\ pc \in [Ingestors -> Steps]
  /\ job \in [Ingestors -> Nat]
  /\ todo \in [Ingestors -> SUBSET Nat]
  /\ view \in [Ingestors -> [signals : Seq(Signal), events : SUBSET SignalId]]

\* A message is stored once, whichever ingestors saw it one after the other,
\* and wherever they were stopped.
UniqueSignals ==
  together = {} => \A i, j \in DOMAIN signals : signals[i].id = signals[j].id => i = j

\* How many records of a message there are.
Copies(s, id) == Cardinality({i \in DOMAIN s : s[i].id = id})

\* Two ingestors that run at the same time may each find a message new and store it,
\* and a stale copy of the file may bring a record back: still there are never more
\* than two records of a message.  (Of three there may be any number: one takes the
\* message out, one puts all its records back, and the third adds one, again and again.)
OneCopyEach ==
  Cardinality(together) <= 2 => \A i \in DOMAIN signals : Copies(signals, signals[i].id) <= 2

Worth == {m \in DOMAIN posts : posts[m] = "text"}
Ids(s) == [i \in DOMAIN s |-> s[i].id]

\* With one ingestor at a time the files are a MessageStore: a record is added for a
\* message worth it that has none, and neither a record nor an event ever goes away,
\* although each step writes a whole file from a copy that was read before.
Promise == INSTANCE MessageStore WITH
  posted    <- Worth,
  stored    <- IF together = {} THEN Ids(signals) ELSE <<>>,
  announced <- IF together = {} THEN events ELSE {}

StoreSpec == Promise!Spec

\* With one ingestor at a time, a SIGNAL_RECEIVED event has its record.
EventHasSignal == together = {} => \A id \in events : StoredIn(signals, id)

Stored(m) == \E i \in DOMAIN signals : signals[i].id[2] = m

Pending(m) ==
  /\ m \in DOMAIN posts /\ posts[m] = "text"
  /\ pc["bot"] # "down"
  /\ offset # Torn /\ offset <= m

\* A message the bot has not acknowledged yet gets stored, unless the bot stops.
PendingStored ==
  \A m \in 1..MaxPosts : Pending(m) ~> (Stored(m) \/ pc["bot"] = "down")

\* docs/manual_e2e_validation.md:113, "Raw message appears in signal store": a
\* message the offset file acknowledges is stored, or still in the bot's hands.
AcknowledgedStored ==
  \A m \in DOMAIN posts :
    posts[m] = "text" /\ offset # Torn /\ m < offset /\ job["bot"] # m => Stored(m)
-----------------------------------------------------------------------------
(***************************************************************************)
(* The inductive invariants behind these properties.                       *)
(***************************************************************************)
\* The steps of save_raw_signal and update_signal.
Saving == {"exists", "read", "write", "readEvents", "writeEvents", "readLatency", "writeLatency"}

\* What an ingestor has in hand was posted.
InHandPosted ==
  \A p \in Ingestors : todo[p] \subseteq DOMAIN posts /\ job[p] \in 0..Len(posts)

OneUp == \A p, q \in Ingestors : pc[p] # "down" /\ pc[q] # "down" => p = q

\* Nobody replaces a file between the read of it and its replacement, ...
CopiesFresh ==
  \A p \in Ingestors :
    /\ pc[p] \in {"write", "writeLatency"} => view[p].signals = signals
    /\ pc[p] = "writeEvents" => view[p].events = events

\* ... so the answer to exists() holds until the record is appended, and the
\* record is there when its event is.
AnswerHolds ==
  \A p \in Ingestors :
    /\ pc[p] \in {"read", "write"} => ~ StoredIn(signals, IdOf(p))
    /\ pc[p] \in {"readEvents", "writeEvents"} => StoredIn(signals, IdOf(p))

AloneInv ==
  /\ UniqueSignals /\ EventHasSignal
  /\ together = {} => OneUp /\ CopiesFresh /\ AnswerHolds

\* What an ingestor saves was posted and is worth it.
WorthInHand ==
  \A p \in Ingestors :
    /\ pc[p] = "offset" => job[p] \in DOMAIN posts
    /\ pc[p] \in Saving => job[p] \in Worth

OnlyTogether ==
  \A p, q \in Ingestors : pc[p] # "down" /\ pc[q] # "down" /\ p # q => {p, q} \subseteq together

\* Two at a time.  Who is about to add a record of a message, who of them has the copy
\* of the file to add it to, and who is about to write a copy back as it is.
Adding(id) == {p \in Ingestors : pc[p] \in {"read", "write"} /\ IdOf(p) = id}
Writing(id) == {p \in Ingestors : pc[p] = "write" /\ IdOf(p) = id}
Carrying(id) ==
  {p \in Ingestors : pc[p] = "writeLatency" \/ (pc[p] = "write" /\ IdOf(p) # id)}

\* There are n records in the file, and c[p] in the copy p has.
Bounded(n, adding, writing, carrying, c) ==
  /\ n <= 2 /\ (adding # {} => n <= 1)
  /\ \A p \in writing : c[p] <= n
  /\ \A p \in carrying : c[p] <= 2 /\ c[p] <= n + 1 /\ n <= c[p] + 1
  /\ \A p, q \in adding : p # q => n = 0
  /\ \A p \in adding, q \in carrying : c[q] <= 1 /\ (n = 1 => c[q] = 1)
  /\ \A p, q \in carrying : c[p] <= c[q] + 1

CopiesBounded(id) ==
  Bounded(Copies(signals, id), Adding(id), Writing(id), Carrying(id),
          [p \in Ingestors |-> Copies(view[p].signals, id)])
=============================================================================
