--------------------------- MODULE CloseExecution ---------------------------
(***************************************************************************)
(* CloseExecutor.close_trade, step by step: the record and the event ahead *)
(* of the request, the request, the bounded polling that verifies it, and  *)
(* the record and event of what was found.                                 *)
(*                                                                         *)
(* Several processes may close the same trade, the market may close it     *)
(* first, and all of them share the two files as in TradeExecution: an     *)
(* operation on a file is a read and a replacement.                        *)
(***************************************************************************)
EXTENDS ExecutionStore, Integers, FiniteSets

CONSTANTS
  Procs,       \* processes that run a close executor
  Trades,      \* the ids of trades
  Worlds       \* the circumstances of a run, see World

(***************************************************************************)
(* crash    a process dies                                                 *)
(* timeout  requests.put or requests.get raises; a close may have happened *)
(* lag      get_trade still shows a trade OPEN that is closed              *)
(* lookup   an answer to get_trade has no "trade"                          *)
(* disk     EventStore.append raises                                       *)
(***************************************************************************)
FaultKinds == {"crash", "timeout", "lag", "lookup", "disk"}

(***************************************************************************)
(* crew     the processes that are used                                    *)
(* faults   the faults that may happen                                     *)
(* trades   the trades that are open at the start                          *)
(* retries  verify_retries                                                 *)
(* calls    bound: calls of close_trade                                    *)
(***************************************************************************)
World == [crew : SUBSET Procs, faults : SUBSET FaultKinds, trades : SUBSET Trades,
          retries : Nat, calls : Nat]

ASSUME ConstantsAssumption ==
  /\ Trades \subseteq Nat \ {NoTrade}
  /\ \A w \in Worlds : w \in World

VARIABLES
  world,     \* fixed at the start
  store,     \* data/execution_state.json
  events,    \* data/trade_events.json
  open,      \* the trades that are open at the broker
  closedBy,  \* which call closed a trade at the broker, 0 for none
  blank,     \* the calls that got an answer to get_trade without a trade
  calls,     \* how many calls of close_trade have begun
  pc,        \* where each process is
  job,       \* the trade and the number of the call in hand
  tries,     \* polls left
  view       \* the copy of a file between its read and its replacement

files == <<store, events>>
vars == <<world, files, open, closedBy, blank, calls, pc, job, tries, view>>

StoreSteps == {"create", "send", "received", "close", "discrepancy", "failed"}
EventSteps == {"requested", "closed", "flag"}
Steps == {"idle", "request", "poll"} \cup StoreSteps \cup EventSteps

EventTypes == {"TRADE_CLOSE_REQUESTED", "TRADE_CLOSED", "DISCREPANCY_DETECTED"}
Event == [type : EventTypes, n : Nat, trade : Trades]

NoJob == [n |-> 0, trade |-> NoTrade]
NoView == [held |-> FALSE, store |-> <<>>, events |-> {}]

Init ==
  /\ store = <<>> /\ events = {}
  /\ world \in Worlds /\ open = world.trades
  /\ closedBy = [t \in Trades |-> 0] /\ blank = {}
  /\ calls = 0
  /\ pc = [p \in Procs |-> "idle"]
  /\ job = [p \in Procs |-> NoJob]
  /\ tries = [p \in Procs |-> 0]
  /\ view = [p \in Procs |-> NoView]

\* close-{trade_id}-{uuid4()}: a fresh id for every call.
CloseId(n) == <<"uuid", n>>
-----------------------------------------------------------------------------
Goto(p, step) == pc' = [pc EXCEPT ![p] = step]

Leave(p) ==
  /\ Goto(p, "idle")
  /\ job' = [job EXCEPT ![p] = NoJob]
  /\ tries' = [tries EXCEPT ![p] = 0]
  /\ view' = [view EXCEPT ![p] = NoView]

\* A call that assert_can_trade refuses raises and changes nothing.
Call(p, t) ==
  /\ pc[p] = "idle"
  /\ calls < world.calls /\ p \in world.crew /\ t \in world.trades
  /\ calls' = calls + 1
  /\ job' = [job EXCEPT ![p] = [n |-> calls + 1, trade |-> t]]
  /\ Goto(p, "create")
  /\ UNCHANGED <<world, files, open, closedBy, blank, tries, view>>

ReadStore(p) ==
  /\ pc[p] \in StoreSteps /\ ~ view[p].held
  /\ pc[p] # "create" => Holds(store, CloseId(job[p].n))
  /\ view' = [view EXCEPT ![p] = [held |-> TRUE, store |-> store, events |-> {}]]
  /\ UNCHANGED <<world, files, open, closedBy, blank, calls, pc, job, tries>>

\* update_close_attempt raises; in the handler the second ValueError replaces
\* the first error on its way to the caller.
RecordMissing(p) ==
  /\ pc[p] \in StoreSteps \ {"create"} /\ ~ view[p].held
  /\ ~ Holds(store, CloseId(job[p].n))
  /\ \/ pc[p] = "failed" /\ Leave(p)
     \/ pc[p] # "failed" /\ Goto(p, "failed") /\ UNCHANGED <<job, tries, view>>
  /\ UNCHANGED <<world, files, open, closedBy, blank, calls>>

ReadEvents(p) ==
  /\ pc[p] \in EventSteps /\ ~ view[p].held
  /\ view' = [view EXCEPT ![p] = [held |-> TRUE, store |-> <<>>, events |-> events]]
  /\ UNCHANGED <<world, files, open, closedBy, blank, calls, pc, job, tries>>

ReplaceStore(p, contents, next) ==
  /\ view[p].held
  /\ store' = contents
  /\ view' = [view EXCEPT ![p] = NoView]
  /\ Goto(p, next)
  /\ UNCHANGED <<world, events, open, closedBy, blank, calls, job, tries>>

Mark(p, step, status, next) ==
  /\ pc[p] = step
  /\ ReplaceStore(p, WithStatus(view[p].store, CloseId(job[p].n), status), next)

WithEvent(p, type) ==
  view[p].events \cup {[type |-> type, n |-> job[p].n, trade |-> job[p].trade]}

AddEvent(p, step, type, next) ==
  /\ pc[p] = step /\ view[p].held
  /\ events' = WithEvent(p, type)
  /\ view' = [view EXCEPT ![p] = NoView]
  /\ Goto(p, next)
  /\ UNCHANGED <<world, store, open, closedBy, blank, calls, job, tries>>

CreateCloseAttempt(p) ==
  /\ pc[p] = "create"
  /\ ReplaceStore(p, Append(view[p].store,
       CloseRecord(job[p].n, CloseId(job[p].n), job[p].trade, 0)), "requested")

AppendRequested(p) == AddEvent(p, "requested", "TRADE_CLOSE_REQUESTED", "send")

\* Mutant: the request goes out before the record says so.
MarkSentLate(p) == Mark(p, "send", "CLOSE_ATTEMPT_STARTED", "request")

MarkSent(p) == Mark(p, "send", "CLOSE_REQUEST_SENT", "request")
-----------------------------------------------------------------------------
\* OandaBroker.close_trade: the broker closes the trade, and the answer arrives
\* or the client times out waiting for it.
BrokerCloses(p) ==
  /\ pc[p] = "request"
  /\ job[p].trade \in open
  /\ open' = open \ {job[p].trade}
  /\ closedBy' = [closedBy EXCEPT ![job[p].trade] = job[p].n]
  /\ \/ Goto(p, "received")
     \/ "timeout" \in world.faults /\ Goto(p, "failed")
  /\ UNCHANGED <<world, files, blank, calls, job, tries, view>>

\* The broker answers without closing (the closing order was canceled).
BrokerDeclines(p) ==
  /\ pc[p] = "request"
  /\ job[p].trade \in open
  /\ Goto(p, "received")
  /\ UNCHANGED <<world, files, open, closedBy, blank, calls, job, tries, view>>

\* close_trade raises: an answer of 400 or more (always so for a trade that is
\* not open), or a request that never got there.
BrokerRefuses(p) ==
  /\ pc[p] = "request"
  /\ Goto(p, "failed")
  /\ UNCHANGED <<world, files, open, closedBy, blank, calls, job, tries, view>>

MarkReceived(p) ==
  /\ pc[p] = "received"
  /\ view[p].held
  /\ store' = WithStatus(view[p].store, CloseId(job[p].n), "CLOSE_RESPONSE_RECEIVED")
  /\ view' = [view EXCEPT ![p] = NoView]
  /\ tries' = [tries EXCEPT ![p] = world.retries]
  /\ Goto(p, "poll")
  /\ UNCHANGED <<world, events, open, closedBy, blank, calls, job>>

\* Mutant: one round too many.
PollOpenOnceMore(p) ==
  /\ pc[p] = "poll" /\ tries[p] >= 0
  /\ job[p].trade \in open \/ "lag" \in world.faults
  /\ tries' = [tries EXCEPT ![p] = @ - 1]
  /\ UNCHANGED <<world, files, open, closedBy, blank, calls, pc, job, view>>

\* One round of _verify_trade_still_open_with_retries.
PollOpen(p) ==
  /\ pc[p] = "poll" /\ tries[p] > 0
  /\ job[p].trade \in open \/ "lag" \in world.faults
  /\ tries' = [tries EXCEPT ![p] = @ - 1]
  /\ UNCHANGED <<world, files, open, closedBy, blank, calls, pc, job, view>>

\* Mutant: an answer is taken for a close, without looking at the trade.
PollTrusts(p) ==
  /\ pc[p] = "poll" /\ tries[p] > 0
  /\ Goto(p, "close")
  /\ UNCHANGED <<world, files, open, closedBy, blank, calls, job, tries, view>>

\* An answer without a trade passes for a trade that is not open.
PollNotOpen(p) ==
  /\ pc[p] = "poll" /\ tries[p] > 0
  /\ \/ job[p].trade \notin open /\ UNCHANGED blank
     \/ "lookup" \in world.faults /\ blank' = blank \cup {job[p].n}
  /\ Goto(p, "close")
  /\ UNCHANGED <<world, files, open, closedBy, calls, job, tries, view>>

PollRaises(p) ==
  /\ pc[p] = "poll" /\ tries[p] > 0
  /\ "timeout" \in world.faults
  /\ Goto(p, "failed")
  /\ UNCHANGED <<world, files, open, closedBy, blank, calls, job, tries, view>>

\* Mutant: the caller is told, the record is not.
StillOpenSilent(p) ==
  /\ pc[p] = "poll" /\ tries[p] = 0
  /\ Leave(p)
  /\ UNCHANGED <<world, files, open, closedBy, blank, calls>>

StillOpen(p) ==
  /\ pc[p] = "poll" /\ tries[p] = 0
  /\ Goto(p, "discrepancy")
  /\ UNCHANGED <<world, files, open, closedBy, blank, calls, job, tries, view>>

MarkDiscrepancy(p) == Mark(p, "discrepancy", "DISCREPANCY", "flag")

\* The RuntimeError raised next is caught by close_trade's own handler.
AppendDiscrepancy(p) == AddEvent(p, "flag", "DISCREPANCY_DETECTED", "failed")

\* Mutant: the event is written and the record is not.
MarkClosedDropped(p) ==
  /\ pc[p] = "close"
  /\ ReplaceStore(p, view[p].store, "closed")

MarkClosed(p) == Mark(p, "close", "CLOSED", "closed")

AppendClosed(p) ==
  /\ pc[p] = "closed" /\ view[p].held
  /\ events' = WithEvent(p, "TRADE_CLOSED")
  /\ Leave(p)
  /\ UNCHANGED <<world, store, open, closedBy, blank, calls>>

MarkException(p) ==
  /\ pc[p] = "failed" /\ view[p].held
  /\ store' = WithStatus(view[p].store, CloseId(job[p].n), "EXCEPTION")
  /\ Leave(p)
  /\ UNCHANGED <<world, events, open, closedBy, blank, calls>>

\* EventStore.append raises: outside the try the caller gets the exception and
\* the record stays as it is, inside it the handler marks the record.
AppendRaises(p) ==
  /\ pc[p] \in EventSteps /\ "disk" \in world.faults
  /\ \/ pc[p] = "requested" /\ Leave(p)
     \/ /\ pc[p] # "requested"
        /\ Goto(p, "failed")
        /\ view' = [view EXCEPT ![p] = NoView]
        /\ UNCHANGED <<job, tries>>
  /\ UNCHANGED <<world, files, open, closedBy, blank, calls>>
-----------------------------------------------------------------------------
\* The process dies and is started again.
Crash(p) ==
  /\ "crash" \in world.faults
  /\ pc[p] # "idle"
  /\ Leave(p)
  /\ UNCHANGED <<world, files, open, closedBy, blank, calls>>

\* A stop loss, a take profit or the open-trade policy of a trade executor.
OthersClose ==
  /\ \E t \in open : open' = open \ {t}
  /\ UNCHANGED <<world, files, closedBy, blank, calls, pc, job, tries, view>>

FileRead(p) == ReadStore(p) \/ RecordMissing(p) \/ ReadEvents(p) \/ AppendRaises(p)

FileWrite(p) ==
  \/ CreateCloseAttempt(p) \/ MarkSent(p) \/ MarkReceived(p) \/ MarkClosed(p)
  \/ MarkDiscrepancy(p) \/ MarkException(p)
  \/ AppendRequested(p) \/ AppendDiscrepancy(p) \/ AppendClosed(p)

Broker(p) == BrokerCloses(p) \/ BrokerDeclines(p) \/ BrokerRefuses(p)

Poll(p) == PollOpen(p) \/ PollNotOpen(p) \/ PollRaises(p) \/ StillOpen(p)

\* The statements of close_trade.
Run(p) == FileRead(p) \/ FileWrite(p) \/ Broker(p) \/ Poll(p)

Next ==
  \/ \E p \in Procs : Run(p) \/ Crash(p)
  \/ \E p \in Procs, t \in Trades : Call(p, t)
  \/ OthersClose

Spec == Init /\ [][Next]_vars

\* close_trade is straight-line code around a loop of verify_retries rounds, and
\* every request has a timeout of 20 s: a call that has begun goes on.
FairSpec == Spec /\ \A p \in Procs : WF_vars(Run(p))
-----------------------------------------------------------------------------
(***************************************************************************)
(* Properties.                                                             *)
(***************************************************************************)
TypeOK ==
  /\ world \in Worlds
  /\ store \in Seq(Record)
  /\ events \subseteq Event
  /\ open \subseteq Trades
  /\ closedBy \in [Trades -> Nat] /\ blank \subseteq Nat
  /\ calls \in Nat
  /\ pc \in [Procs -> Steps]
  /\ job \in [Procs -> [n : Nat, trade : Trades \cup {NoTrade}]]
  /\ tries \in [Procs -> Nat]
  /\ view \in [Procs -> [held : BOOLEAN, store : Seq(Record), events : SUBSET Event]]

\* A call may say CLOSED: its trade is not open, or the broker misled it.
MaySayClosed(n, t) == t \notin open \/ n \in blank

\* No record and no event says CLOSED of a trade that is open, with any number of
\* processes writing back the copies they have read, but that of a call to which
\* the broker itself answered get_trade without a trade.
ClosedMeansClosed ==
  /\ \A i \in DOMAIN store : store[i].status = "CLOSED" =>
       MaySayClosed(store[i].n, store[i].trade)
  /\ \A e \in events : e.type = "TRADE_CLOSED" => MaySayClosed(e.n, e.trade)

Sole(w) == \E p \in Procs : w.crew = {p}
Calm(w) == Sole(w) /\ w.faults \cap {"crash", "disk"} = {}

\* A record of call n for trade t says one of these.
OnRecord(s, n, t, statuses) ==
  \E i \in DOMAIN s : s[i].n = n /\ s[i].trade = t /\ s[i].status \in statuses

\* The statuses of a call whose request may have reached the broker.
SentStatuses == {"CLOSE_REQUEST_SENT", "CLOSE_RESPONSE_RECEIVED", "CLOSED", "DISCREPANCY",
                 "EXCEPTION"}

\* With one process, a close the broker carried out for a call is on record: closed,
\* or in a status that asks for a look at the broker, whatever crashed or timed out.
CloseAccounted ==
  Sole(world) =>
    \A t \in Trades : closedBy[t] # 0 => OnRecord(store, closedBy[t], t, SentStatuses)

\* With one process, a TRADE_CLOSED event has its record, and the record says so.
EventHasRecord ==
  Sole(world) =>
    \A e \in events : e.type = "TRADE_CLOSED" => OnRecord(store, e.n, e.trade, {"CLOSED"})

\* A record of a call gets a final status, if one process runs that does not crash
\* and whose event store can be written.
ClosesSettle ==
  \A i \in UNION {1..w.calls : w \in {v \in Worlds : Calm(v)}} :
    (Calm(world) /\ i \in DOMAIN store) ~> (i \in DOMAIN store /\ store[i].status \in FinalStatuses)
-----------------------------------------------------------------------------
(***************************************************************************)
(* The inductive invariants behind the safety properties (proved in        *)
(* CloseExecutionProofs).  CloseInv holds of any number of processes.      *)
(***************************************************************************)
Working(p) == pc[p] # "idle"

\* Every call in hand has a number of its own, and a process of the crew.
OwnCalls ==
  /\ \A p \in Procs : Working(p) =>
       p \in world.crew /\ job[p].n \in 1..calls /\ job[p].trade \in Trades
  /\ \A p, q \in Procs : Working(p) /\ Working(q) /\ job[p].n = job[q].n => p = q

\* However old a copy of the records is, they carry the ids of their calls, and
\* what it says CLOSED of is not open, as far as the call could know.
RecordsTrue(s) ==
  \A i \in DOMAIN s :
    /\ s[i].n \in 1..calls /\ s[i].id = CloseId(s[i].n)
    /\ s[i].status = "CLOSED" => MaySayClosed(s[i].n, s[i].trade)
    /\ \A p \in Procs : Working(p) /\ job[p].n = s[i].n => job[p].trade = s[i].trade

EventsTrue(l) ==
  \A e \in l :
    e.n \in 1..calls /\ (e.type = "TRADE_CLOSED" => MaySayClosed(e.n, e.trade))

\* What a process may write back: the files as they are, and the copies held.
CopiesTrue ==
  /\ RecordsTrue(store) /\ EventsTrue(events)
  /\ \A p \in Procs : RecordsTrue(view[p].store) /\ EventsTrue(view[p].events)

\* A process that is about to say CLOSED has seen that the trade is not open, and
\* the copy it is about to update has the record of its call.
Found ==
  \A p \in Procs :
    /\ pc[p] \in {"close", "closed"} => MaySayClosed(job[p].n, job[p].trade)
    /\ view[p].held => pc[p] \in StoreSteps \cup EventSteps
    /\ view[p].held /\ pc[p] \in StoreSteps \ {"create"} =>
         Holds(view[p].store, CloseId(job[p].n))

CloseInv == OwnCalls /\ CopiesTrue /\ Found

\* The steps of a call before its request is marked as sent.
Unsent == {"create", "requested", "send"}

\* Nobody else replaces a file between a process's read and its replacement.
ViewsFresh ==
  \A p \in Procs : view[p].held =>
    /\ pc[p] \in StoreSteps => view[p].store = store
    /\ pc[p] \in EventSteps => view[p].events = events

\* What is on record of the call in hand.
CallInHand ==
  \A p \in Procs : Working(p) =>
    /\ pc[p] # "create" => Holds(store, CloseId(job[p].n))
    /\ pc[p] \notin Unsent => OnRecord(store, job[p].n, job[p].trade, SentStatuses)
    /\ pc[p] = "closed" => OnRecord(store, job[p].n, job[p].trade, {"CLOSED"})
    /\ \A e \in events : e.type = "TRADE_CLOSED" => e.n # job[p].n

SoleInv == Sole(world) => ViewsFresh /\ CallInHand /\ CloseAccounted /\ EventHasRecord
=============================================================================
