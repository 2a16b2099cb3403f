--------------------------- MODULE TradeExecution ---------------------------
(***************************************************************************)
(* TradeExecutor.execute_trade, step by step: the idempotency check, the   *)
(* open-trade policy, the record and the event written ahead of the order, *)
(* the order, the answer, its record, its event and the verification.      *)
(*                                                                         *)
(* Processes share two files (ExecutionStore, EventStore) without a lock.  *)
(* Every operation on a file is two steps here, reading all of it into the *)
(* process's view and replacing it, and anything may happen in between.    *)
(* A process may crash anywhere and start again; the broker and the two    *)
(* files survive.                                                          *)
(***************************************************************************)
EXTENDS ExecutionStore, FiniteSets

CONSTANTS
  Procs,         \* processes that run an executor
  Requests,      \* trade requests callers may submit, any number of times
  Symbols,
  SymbolOf,      \* Requests -> Symbols
  SideOf,        \* Requests -> {"buy", "sell"}
  KeyOf,         \* Requests -> Keys, PersistentIdempotencyStore.make_key
  SignalOf,      \* Requests -> Signals \cup {NoSignal}, external_signal_id
  NoSignal,      \* external_signal_id is None
  PolicyOf,      \* Requests -> Policies
  LimitOrders,   \* the requests with an entry_price
  LiveAccount,   \* broker.env = "live"
  Window,        \* window_seconds of the idempotency check
  Settings,      \* the .env files an operator may install
  Faults,        \* the faults that may happen, see FaultKinds
  MaxAttempts,   \* bound: attempts that pass the idempotency check
  MaxTime        \* bound: the clock

B == INSTANCE BrokerBook

Policies == {"REJECT_IF_EXISTS", "CLOSE_EXISTING_FIRST", "ALLOW_ADD"}

(***************************************************************************)
(* crash    a process dies                                                 *)
(* timeout  requests.post raises, whether or not the broker got the order  *)
(* late     as timeout, and the broker processes the order afterwards      *)
(* garbled  the answer is not JSON and _send_order returns its text        *)
(* lookup   get_trade raises, or an answer has no "trade" or no "trades"   *)
(* disk     EventStore.append raises                                       *)
(***************************************************************************)
FaultKinds == {"crash", "timeout", "late", "garbled", "lookup", "disk"}

Setting == [kill : BOOLEAN, allowLive : BOOLEAN]

ASSUME ConstantsAssumption ==
  /\ Requests # {} /\ Settings # {} /\ Settings \subseteq Setting
  /\ SymbolOf \in [Requests -> Symbols]
  /\ SideOf \in [Requests -> B!Sides]
  /\ KeyOf \in [Requests -> Keys]
  /\ SignalOf \in [Requests -> Signals \cup {NoSignal}]
  /\ NoSignal \notin Signals
  /\ PolicyOf \in [Requests -> Policies]
  /\ LimitOrders \subseteq Requests
  /\ LiveAccount \in BOOLEAN
  /\ Window \in Nat /\ MaxAttempts \in Nat /\ MaxTime \in Nat
  /\ Faults \subseteq FaultKinds

VARIABLES
  now,       \* the clock
  dotenv,    \* the .env file
  store,     \* data/execution_state.json: a sequence of records
  events,    \* data/trade_events.json: a set, every event has an id of its own
  book,      \* the account at the broker
  missed,    \* trades an executor took for not open although they were
  attempts,  \* how many attempts passed the idempotency check
  pc,        \* where each process is
  env,       \* os.environ of each process: the .env file when it started
  job,       \* the request, the attempt and the request_id in hand
  reply,     \* the broker's answer: its transactions and tradeOpened.tradeID
  doomed,    \* the trades close_open_trades has still to close
  view       \* the copy of a file between its read and its replacement

files == <<store, events>>
local == <<job, reply, doomed>>
vars == <<now, dotenv, files, book, missed, attempts, pc, env, local, view>>

StoreSteps == {"create", "send", "received", "result", "discrepancy", "failed"}
EventSteps == {"submitted", "outcome", "flag"}
Steps == {"down", "idle", "quote", "listing", "closing", "place", "verify"}
           \cup StoreSteps \cup EventSteps

EventTypes == {"ORDER_SUBMITTED", "ORDER_FILLED", "ORDER_CANCELED",
               "DISCREPANCY_DETECTED"}
Event == [type : EventTypes, n : Nat, trade : Nat]

Transactions == {"create", "fill", "cancel"}

NoJob == [req |-> CHOOSE r \in Requests : TRUE, n |-> 0, id |-> <<"uuid", 0>>]
NoReply == [tx |-> {}, trade |-> NoTrade]
NoView == [held |-> FALSE, store |-> <<>>, events |-> {}]

Init ==
  /\ now = 0
  /\ dotenv \in Settings
  /\ store = <<>> /\ events = {} /\ book = <<>> /\ missed = {} /\ attempts = 0
  /\ pc = [p \in Procs |-> "down"]
  /\ env = [p \in Procs |-> dotenv]
  /\ job = [p \in Procs |-> NoJob]
  /\ reply = [p \in Procs |-> NoReply]
  /\ doomed = [p \in Procs |-> {}]
  /\ view = [p \in Procs |-> NoView]
-----------------------------------------------------------------------------
Goto(p, step) == pc' = [pc EXCEPT ![p] = step]

\* Back to the caller, with a result or an exception: the locals are gone.
LeaveTo(p, step) ==
  /\ Goto(p, step)
  /\ job' = [job EXCEPT ![p] = NoJob]
  /\ reply' = [reply EXCEPT ![p] = NoReply]
  /\ doomed' = [doomed EXCEPT ![p] = {}]
  /\ view' = [view EXCEPT ![p] = NoView]

Leave(p) == LeaveTo(p, "idle")

\* A new process: load_dotenv, then a TradeExecutor.
Start(p) ==
  /\ pc[p] = "down"
  /\ Goto(p, "idle")
  /\ env' = [env EXCEPT ![p] = dotenv]
  /\ UNCHANGED <<now, dotenv, files, book, missed, attempts, local, view>>

\* assert_can_trade.
CanTrade(e) == ~ e.kill /\ (LiveAccount => e.allowLive)

\* Mutant: `or str(uuid.uuid4())` is missing.
RequestIdNoUuid(r, n) == <<"signal", SignalOf[r]>>

RequestId(r, n) ==
  IF SignalOf[r] = NoSignal THEN <<"uuid", n>> ELSE <<"signal", SignalOf[r]>>

\* execute_trade up to the idempotency check.  A request that a control or the
\* check refuses raises and changes nothing, so only the others are steps.
Submit(p, r) ==
  /\ pc[p] = "idle"
  /\ attempts < MaxAttempts
  /\ CanTrade(env[p])
  /\ ~ KeyBlocked(store, KeyOf[r], now, Window)
  /\ attempts' = attempts + 1
  /\ job' = [job EXCEPT ![p] =
       [req |-> r, n |-> attempts + 1, id |-> RequestId(r, attempts + 1)]]
  /\ Goto(p, "quote")
  /\ UNCHANGED <<now, dotenv, files, book, missed, env, reply, doomed, view>>

OpenOnSymbol(p) == B!OpenOn(book, SymbolOf[job[p].req])

\* get_price or a validation raises, or the policy does, or get_open_trades.
Refuse(p) ==
  /\ pc[p] \in {"quote", "listing"}
  /\ Leave(p)
  /\ UNCHANGED <<now, dotenv, files, book, missed, attempts, env>>

\* An answer without "trades" passes for an account without open trades.
Unaware(p) == "lookup" \in Faults /\ missed' = missed \cup OpenOnSymbol(p)

PassPolicy(p) ==
  /\ pc[p] = "quote"
  /\ \/ OpenOnSymbol(p) = {} /\ UNCHANGED missed
     \/ PolicyOf[job[p].req] = "ALLOW_ADD" /\ UNCHANGED missed
     \/ Unaware(p)
  /\ Goto(p, "create")
  /\ UNCHANGED <<now, dotenv, files, book, attempts, env, local, view>>

\* Mutant: the policy goes on without closing anything.
CloseExistingFirstSkipped(p) ==
  /\ pc[p] = "quote"
  /\ OpenOnSymbol(p) # {} /\ PolicyOf[job[p].req] = "CLOSE_EXISTING_FIRST"
  /\ Goto(p, "create")
  /\ UNCHANGED <<now, dotenv, files, book, missed, attempts, env, local, view>>

CloseExistingFirst(p) ==
  /\ pc[p] = "quote"
  /\ OpenOnSymbol(p) # {} /\ PolicyOf[job[p].req] = "CLOSE_EXISTING_FIRST"
  /\ Goto(p, "listing")
  /\ UNCHANGED <<now, dotenv, files, book, missed, attempts, env, local, view>>

\* close_open_trades asks for the open trades again and closes them in turn.
ListExisting(p) ==
  /\ pc[p] = "listing"
  /\ \/ doomed' = [doomed EXCEPT ![p] = OpenOnSymbol(p)] /\ UNCHANGED missed
     \/ doomed' = [doomed EXCEPT ![p] = {}] /\ Unaware(p)
  /\ Goto(p, "closing")
  /\ UNCHANGED <<now, dotenv, files, book, attempts, env, job, reply, view>>

\* Any answer below 400 will do: nobody reads that the close was canceled.
CloseExisting(p) ==
  /\ pc[p] = "closing"
  /\ \E t \in doomed[p] :
        /\ book[t].state = "OPEN"
        /\ \/ book' = B!Moved(book, t, "CLOSED") /\ UNCHANGED missed
           \/ missed' = missed \cup {t} /\ UNCHANGED book
        /\ doomed' = [doomed EXCEPT ![p] = @ \ {t}]
  /\ UNCHANGED <<now, dotenv, files, attempts, pc, env, job, reply, view>>

\* The broker refuses the close (404 when the trade is not open any more) or it
\* times out: the new trade is given up, whatever was closed stays closed.
CloseExistingRaises(p) ==
  /\ pc[p] = "closing"
  /\ \E t \in doomed[p] :
        \/ UNCHANGED book
        \/ "timeout" \in Faults /\ book[t].state = "OPEN"
             /\ book' = B!Moved(book, t, "CLOSED")
  /\ Leave(p)
  /\ UNCHANGED <<now, dotenv, files, missed, attempts, env>>

ExistingClosed(p) ==
  /\ pc[p] = "closing"
  /\ doomed[p] = {}
  /\ Goto(p, "create")
  /\ UNCHANGED <<now, dotenv, files, book, missed, attempts, env, local, view>>
-----------------------------------------------------------------------------
(***************************************************************************)
(* The two halves of every operation on a file.                            *)
(***************************************************************************)
ReadStore(p) ==
  /\ pc[p] \in StoreSteps /\ ~ view[p].held
  /\ pc[p] # "create" => Holds(store, job[p].id)
  /\ view' = [view EXCEPT ![p] = [held |-> TRUE, store |-> store, events |-> {}]]
  /\ UNCHANGED <<now, dotenv, files, book, missed, attempts, pc, env, local>>

\* update_attempt finds no record of the request_id and raises; the handler's
\* own update is guarded.
RecordMissing(p) ==
  /\ pc[p] \in StoreSteps \ {"create"} /\ ~ view[p].held
  /\ ~ Holds(store, job[p].id)
  /\ \/ pc[p] = "failed" /\ Leave(p)
     \/ pc[p] # "failed" /\ Goto(p, "failed") /\ UNCHANGED <<local, view>>
  /\ UNCHANGED <<now, dotenv, files, book, missed, attempts, env>>

ReadEvents(p) ==
  /\ pc[p] \in EventSteps /\ ~ view[p].held
  /\ view' = [view EXCEPT ![p] = [held |-> TRUE, store |-> <<>>, events |-> events]]
  /\ UNCHANGED <<now, dotenv, files, book, missed, attempts, pc, env, local>>

ReplaceStore(p, contents, next) ==
  /\ view[p].held
  /\ store' = contents
  /\ view' = [view EXCEPT ![p] = NoView]
  /\ Goto(p, next)
  /\ UNCHANGED <<now, dotenv, events, book, missed, attempts, env, local>>

AddEvent(p, type, next) ==
  /\ view[p].held
  /\ events' = view[p].events \cup
       {[type |-> type, n |-> job[p].n, trade |-> reply[p].trade]}
  /\ view' = [view EXCEPT ![p] = NoView]
  /\ Goto(p, next)
  /\ UNCHANGED <<now, dotenv, store, book, missed, attempts, env, local>>

\* Mutant: no ORDER_SUBMITTED event.
CreateAttemptUnannounced(p) ==
  /\ pc[p] = "create"
  /\ ReplaceStore(p, Append(view[p].store,
       AttemptRecord(job[p].n, job[p].id, KeyOf[job[p].req], now)), "send")

CreateAttempt(p) ==
  /\ pc[p] = "create"
  /\ ReplaceStore(p, Append(view[p].store,
       AttemptRecord(job[p].n, job[p].id, KeyOf[job[p].req], now)), "submitted")

AppendSubmitted(p) ==
  /\ pc[p] = "submitted"
  /\ AddEvent(p, "ORDER_SUBMITTED", "send")

MarkSent(p) ==
  /\ pc[p] = "send"
  /\ ReplaceStore(p, WithStatus(view[p].store, job[p].id, "BROKER_REQUEST_SENT"),
       "place")
-----------------------------------------------------------------------------
(***************************************************************************)
(* place_order.                                                            *)
(***************************************************************************)
OrderIn(p, state) ==
  LET r == job[p].req
  IN  [n |-> job[p].n, key |-> KeyOf[r], symbol |-> SymbolOf[r],
       side |-> SideOf[r], state |-> state, at |-> now]

\* Mutant: an order that timed out is sent again.
AnswerRetried(p, tx, trade) ==
  \/ /\ Goto(p, "received")
     /\ reply' = [reply EXCEPT ![p] = [tx |-> tx, trade |-> trade]]
  \/ "timeout" \in Faults /\ UNCHANGED <<pc, reply>>

\* The answer arrives, is lost, or arrives as something else than JSON.
Answer(p, tx, trade) ==
  \/ /\ Goto(p, "received")
     /\ reply' = [reply EXCEPT ![p] = [tx |-> tx, trade |-> trade]]
  \/ "garbled" \in Faults /\ Goto(p, "received") /\ UNCHANGED reply
  \/ "timeout" \in Faults /\ Goto(p, "failed") /\ UNCHANGED reply

Placed(p) ==
  /\ pc[p] = "place"
  /\ UNCHANGED <<now, dotenv, files, missed, attempts, env, job, doomed, view>>

OrderFilled(p) ==
  /\ Placed(p)
  /\ book' = Append(book, OrderIn(p, "OPEN"))
  /\ Answer(p, {"create", "fill"}, Len(book) + 1)

OrderNetted(p) ==
  /\ Placed(p)
  /\ \E t \in B!Against(book, SymbolOf[job[p].req], SideOf[job[p].req]) :
        book' = Append(B!Moved(book, t, "CLOSED"), OrderIn(p, "NETTED"))
  /\ Answer(p, {"create", "fill"}, NoTrade)

OrderCanceled(p) ==
  /\ Placed(p)
  /\ book' = Append(book, OrderIn(p, "CANCELED"))
  /\ Answer(p, {"create", "cancel"}, NoTrade)

OrderRests(p) ==
  /\ Placed(p)
  /\ job[p].req \in LimitOrders
  /\ book' = Append(book, OrderIn(p, "PENDING"))
  /\ Answer(p, {"create"}, NoTrade)

\* Mutant: the exception is not caught and the record not marked.
OrderRefusedUncaught(p) ==
  /\ Placed(p)
  /\ Goto(p, "idle")
  /\ UNCHANGED <<book, reply>>

\* _send_order raises: the broker refused the order, or it never got there.
OrderRefused(p) ==
  /\ Placed(p)
  /\ Goto(p, "failed")
  /\ UNCHANGED <<book, reply>>

OrderLate(p) ==
  /\ Placed(p)
  /\ "late" \in Faults
  /\ book' = Append(book, OrderIn(p, "LATE"))
  /\ Goto(p, "failed")
  /\ UNCHANGED reply

PlaceOrder(p) ==
  OrderFilled(p) \/ OrderNetted(p) \/ OrderCanceled(p) \/ OrderRests(p)
    \/ OrderRefused(p) \/ OrderLate(p)
-----------------------------------------------------------------------------
\* _parse_oanda_response: a fill wins over a cancel, a cancel over a create.
Parsed(tx) ==
  IF "fill" \in tx THEN "FILLED"
  ELSE IF "cancel" \in tx THEN "CANCELED"
  ELSE IF "create" \in tx THEN "PENDING" ELSE "UNKNOWN"

MarkReceived(p) ==
  /\ pc[p] = "received"
  /\ ReplaceStore(p,
       WithStatus(view[p].store, job[p].id, "BROKER_RESPONSE_RECEIVED"), "result")

\* Only a fill and a cancel have an event.
MarkResult(p) ==
  /\ pc[p] = "result"
  /\ ReplaceStore(p,
       WithResult(view[p].store, job[p].id, Parsed(reply[p].tx), reply[p].trade),
       IF Parsed(reply[p].tx) \in {"FILLED", "CANCELED"} THEN "outcome" ELSE "verify")

AppendOutcome(p) ==
  /\ pc[p] = "outcome"
  /\ AddEvent(p, IF Parsed(reply[p].tx) = "FILLED" THEN "ORDER_FILLED"
                 ELSE "ORDER_CANCELED", "verify")

\* EventStore.append raises: outside the try the caller gets the exception and
\* the record stays as it is, inside it the handler marks the record.
AppendRaises(p) ==
  /\ pc[p] \in EventSteps /\ "disk" \in Faults
  /\ \/ pc[p] = "submitted" /\ Leave(p)
     \/ /\ pc[p] # "submitted"
        /\ Goto(p, "failed")
        /\ view' = [view EXCEPT ![p] = NoView]
        /\ UNCHANGED local
  /\ UNCHANGED <<now, dotenv, files, book, missed, attempts, env>>

\* BrokerReconciler.verify_execution.  The broker's trade always has the symbol
\* of its order, so the third discrepancy of the code cannot occur.
Verified(p) ==
  /\ pc[p] = "verify"
  /\ Parsed(reply[p].tx) = "FILLED" => reply[p].trade # NoTrade
  /\ Leave(p)
  /\ UNCHANGED <<now, dotenv, files, book, missed, attempts, env>>

Discrepancy(p) ==
  /\ pc[p] = "verify"
  /\ Parsed(reply[p].tx) = "FILLED"
  /\ reply[p].trade = NoTrade \/ "lookup" \in Faults
  /\ Goto(p, "discrepancy")
  /\ UNCHANGED <<now, dotenv, files, book, missed, attempts, env, local, view>>

\* Mutant: the answer is processed again after a failed verification.
LookupRaisesRetried(p) ==
  /\ pc[p] = "verify"
  /\ Parsed(reply[p].tx) = "FILLED" /\ reply[p].trade # NoTrade
  /\ "lookup" \in Faults
  /\ Goto(p, "received")
  /\ UNCHANGED <<now, dotenv, files, book, missed, attempts, env, local, view>>

LookupRaises(p) ==
  /\ pc[p] = "verify"
  /\ Parsed(reply[p].tx) = "FILLED" /\ reply[p].trade # NoTrade
  /\ "lookup" \in Faults
  /\ Goto(p, "failed")
  /\ UNCHANGED <<now, dotenv, files, book, missed, attempts, env, local, view>>

MarkDiscrepancy(p) ==
  /\ pc[p] = "discrepancy"
  /\ ReplaceStore(p, WithStatus(view[p].store, job[p].id, "DISCREPANCY"), "flag")

\* The RuntimeError raised next is caught by execute_trade's own handler.
AppendDiscrepancy(p) ==
  /\ pc[p] = "flag"
  /\ AddEvent(p, "DISCREPANCY_DETECTED", "failed")

\* The handler: the record becomes EXCEPTION and the error goes to the caller.
MarkException(p) ==
  /\ pc[p] = "failed"
  /\ view[p].held
  /\ store' = WithStatus(view[p].store, job[p].id, "EXCEPTION")
  /\ Leave(p)
  /\ UNCHANGED <<now, dotenv, events, book, missed, attempts, env>>
-----------------------------------------------------------------------------
Crash(p) ==
  /\ "crash" \in Faults
  /\ pc[p] # "down"
  /\ LeaveTo(p, "down")
  /\ UNCHANGED <<now, dotenv, files, book, missed, attempts, env>>

\* The operator edits the .env file; no running process sees it.
EditSettings ==
  /\ dotenv' \in Settings
  /\ UNCHANGED <<now, files, book, missed, attempts, pc, env, local, view>>

Tick ==
  /\ now < MaxTime
  /\ now' = now + 1
  /\ UNCHANGED <<dotenv, files, book, missed, attempts, pc, env, local, view>>

BrokerActs ==
  /\ \E t \in DOMAIN book :
        \E state \in B!BrokerMove(book, t) : book' = B!Moved(book, t, state)
  /\ UNCHANGED <<now, dotenv, files, missed, attempts, pc, env, local, view>>

Policy(p) ==
  Refuse(p) \/ PassPolicy(p) \/ CloseExistingFirst(p) \/ ListExisting(p)
    \/ CloseExisting(p) \/ CloseExistingRaises(p) \/ ExistingClosed(p)

FileWrite(p) ==
  \/ CreateAttempt(p) \/ MarkSent(p) \/ MarkReceived(p) \/ MarkResult(p)
  \/ MarkDiscrepancy(p) \/ MarkException(p)
  \/ AppendSubmitted(p) \/ AppendOutcome(p) \/ AppendDiscrepancy(p)

FileRead(p) == ReadStore(p) \/ RecordMissing(p) \/ ReadEvents(p) \/ AppendRaises(p)

Verify(p) == Verified(p) \/ Discrepancy(p) \/ LookupRaises(p)

\* The statements of execute_trade after the idempotency check.
Run(p) == Policy(p) \/ FileRead(p) \/ FileWrite(p) \/ PlaceOrder(p) \/ Verify(p)

Next ==
  \/ \E p \in Procs : Start(p) \/ Run(p) \/ Crash(p)
  \/ \E p \in Procs, r \in Requests : Submit(p, r)
  \/ EditSettings \/ Tick \/ BrokerActs

Spec == Init /\ [][Next]_vars

\* A process that is inside execute_trade goes on: it is straight-line code and
\* every request to the broker has a timeout of 20 s.  Nothing is assumed of the
\* callers, of crashes, of the clock or of the broker.
FairSpec == Spec /\ \A p \in Procs : WF_vars(Run(p))
-----------------------------------------------------------------------------
(***************************************************************************)
(* Properties.                                                             *)
(***************************************************************************)
TypeOK ==
  /\ now \in Nat /\ attempts \in Nat
  /\ dotenv \in Setting
  /\ env \in [Procs -> Setting]
  /\ store \in Seq(Record)
  /\ events \subseteq Event
  /\ book \in Seq(B!Order) /\ missed \subseteq Nat
  /\ pc \in [Procs -> Steps]
  /\ job \in [Procs -> [req : Requests, n : Nat, id : RequestIds]]
  /\ reply \in [Procs -> [tx : SUBSET Transactions, trade : Nat]]
  /\ doomed \in [Procs -> SUBSET Nat]
  /\ view \in [Procs -> [held : BOOLEAN, store : Seq(Record), events : SUBSET Event]]

\* The deployment in which one process at a time runs the executor.
SoleProcess == \A p, q \in Procs : p = q

\* Every order the broker ever got was announced: its attempt has a record with
\* its key and an ORDER_SUBMITTED event, whatever crashed since and wherever.
OrderAudited ==
  \A t \in DOMAIN book :
    /\ \E i \in DOMAIN store : store[i].n = book[t].n /\ store[i].key = book[t].key
    /\ \E e \in events : e.type = "ORDER_SUBMITTED" /\ e.n = book[t].n

\* Two orders with one idempotency key: the second was sent more than Window
\* after the first one's record was made, through crashes and restarts.
NoDuplicateInWindow ==
  \A t, u \in DOMAIN book : \A i \in DOMAIN store :
    t < u /\ book[t].key = book[u].key /\ store[i].n = book[t].n
      => book[u].at > store[i].created + Window

\* The record is the only one with its request_id.
Unambiguous(s, i) == \A j \in DOMAIN s : s[j].id = s[i].id => j = i

OrdersOf(n) == {t \in DOMAIN book : book[t].n = n}

\* What a record says of its order is so at the broker, with any number of
\* processes: the trade is that of its own order, and an order it calls FILLED or
\* CANCELED is.
RecordsNeverLie ==
  \A i \in DOMAIN store : Unambiguous(store, i) =>
    LET r == store[i]
        mine == OrdersOf(r.n)
    IN  /\ r.trade # NoTrade => r.trade \in mine
        /\ r.status = "CANCELED" => \A t \in mine : book[t].state = "CANCELED"
        /\ r.status = "FILLED" =>
             \E t \in mine : book[t].state \in {"OPEN", "CLOSED", "NETTED"}

\* The statuses that do not pass for settled.
Surfacing == {"BROKER_REQUEST_SENT", "BROKER_RESPONSE_RECEIVED", "PENDING", "UNKNOWN",
              "EXCEPTION"}

\* What StartupReconciler reports.
UnknownOpenTrades == {t \in DOMAIN book : book[t].state = "OPEN"} \ KnownTrades(store)

\* An open trade its record does not name leaves the record in such a status,
\* wherever the attempt was stopped, and the reconciler reports the trade.
OpenTradesSurface ==
  \A i \in DOMAIN store : Unambiguous(store, i) =>
    \A t \in OrdersOf(store[i].n) : book[t].state = "OPEN" /\ t # store[i].trade =>
      store[i].status \in Surfacing /\ t \in UnknownOpenTrades

\* A settled record is settled for good and keeps the trade it names.
SettledForGood ==
  [][\A i \in DOMAIN store :
       Unambiguous(store, i) /\ store[i].status \notin UnfinishedStatuses =>
         /\ i \in DOMAIN store'
         /\ Unambiguous(store', i) =>
              /\ store'[i].status \notin UnfinishedStatuses
              /\ store'[i].trade = store[i].trade]_store

\* The executor implements OrderAuthority: records are grants, orders are placed
\* on them.
Authority == INSTANCE OrderAuthority WITH
  Names <- 1..MaxAttempts,
  clock <- now,
  granted <- {[n |-> store[i].n, key |-> store[i].key, at |-> store[i].created] :
                i \in DOMAIN store},
  placed <- [t \in DOMAIN book |-> book[t].n]

AuthoritySpec == Authority!Spec

\* With no request that may add to a position, a trade is opened next to an open
\* one on its symbol only if the broker misled an executor about the older one: it
\* left it out of a list, or answered its close without closing it.
OneOpenTrade ==
  \A t, u \in DOMAIN book :
    /\ book[t].state = "OPEN" /\ book[u].state = "OPEN"
    /\ book[t].symbol = book[u].symbol
    /\ t < u
    => t \in missed

Quiet == \A p \in Procs : pc[p] \in {"idle", "down"}

\* docs/production_readiness.md:24: when no attempt is under way the reconciler
\* finds neither an unfinished attempt nor an open trade it does not know.
NoUnexplainedDrift == Quiet => Unfinished(store) = {} /\ UnknownOpenTrades = {}

\* Every record gets a final status.
AttemptsSettle ==
  \A i \in 1..MaxAttempts :
    (i \in DOMAIN store) ~> (i \in DOMAIN store /\ store[i].status \in FinalStatuses)

\* docs/production_readiness.md:9: BOT_KILL_SWITCH=true blocks execution, so no
\* request gets past the controls while it is set.
KillSwitchBlocks == [][dotenv.kill => attempts' = attempts]_vars
-----------------------------------------------------------------------------
(***************************************************************************)
(* The inductive invariant behind OrderAudited, NoDuplicateInWindow and    *)
(* AuthoritySpec for a sole process (proved in TradeExecutionProofs).      *)
(***************************************************************************)
BeforeRecord == {"quote", "listing", "closing", "create"}
BeforeEvent == BeforeRecord \cup {"submitted"}
BeforeOrder == BeforeEvent \cup {"send", "place"}

Working(p) == pc[p] \notin {"down", "idle"}

\* Nobody else replaces a file between a process's read and its replacement.
ViewsFresh ==
  \A p \in Procs : view[p].held =>
    /\ pc[p] \in StoreSteps \cup EventSteps
    /\ pc[p] \in StoreSteps => view[p].store = store
    /\ pc[p] \in EventSteps => view[p].events = events

\* Records and orders are in the order of their attempts, and the attempt in
\* hand is the last one.
InOrder ==
  /\ attempts <= MaxAttempts
  /\ \A p \in Procs : Working(p) => job[p].n = attempts /\ attempts >= 1
  /\ \A i \in DOMAIN store : store[i].n \in 1..attempts /\ store[i].created <= now
  /\ \A t \in DOMAIN book : book[t].n \in 1..attempts
  /\ \A i, j \in DOMAIN store : i < j => store[i].n < store[j].n
  /\ \A t, u \in DOMAIN book : t < u => book[t].n < book[u].n

\* What has and what has not been done for the attempt in hand.
AttemptInHand ==
  \A p \in Procs :
    /\ pc[p] \in BeforeRecord =>
         \A i \in DOMAIN store :
           /\ store[i].n # job[p].n
           /\ store[i].key = KeyOf[job[p].req] => now > store[i].created + Window
    /\ Working(p) /\ pc[p] \notin BeforeRecord =>
         \E i \in DOMAIN store :
           store[i].n = job[p].n /\ store[i].key = KeyOf[job[p].req]
    /\ Working(p) /\ pc[p] \notin BeforeEvent =>
         \E e \in events : e.type = "ORDER_SUBMITTED" /\ e.n = job[p].n
    /\ pc[p] \in BeforeOrder => \A t \in DOMAIN book : book[t].n # job[p].n

\* Records of one key are more than Window apart, and an order is not older
\* than its record.
Spaced ==
  /\ \A i, j \in DOMAIN store :
       i < j /\ store[i].key = store[j].key => store[j].created > store[i].created + Window
  /\ \A t \in DOMAIN book, i \in DOMAIN store :
       store[i].n = book[t].n => book[t].at >= store[i].created

IInv == ViewsFresh /\ InOrder /\ AttemptInHand /\ OrderAudited /\ Spaced
-----------------------------------------------------------------------------
(***************************************************************************)
(* The inductive invariants behind the properties of the records and of    *)
(* the open trades (proved in TradeExecutionProofs).                       *)
(***************************************************************************)
Executed == {"OPEN", "CLOSED", "NETTED"}
Live == {"OPEN", "PENDING", "LATE"}

\* What a record says of its order is so in a book, and stays so.
Truthful(r, b) ==
  /\ r.trade # NoTrade => r.trade \in DOMAIN b /\ b[r.trade].n = r.n
  /\ r.status = "CANCELED" => \E t \in DOMAIN b : b[t].n = r.n /\ b[t].state = "CANCELED"
  /\ r.status = "FILLED" => \E t \in DOMAIN b : b[t].n = r.n /\ b[t].state \in Executed

Honest(s, b) == \A i \in DOMAIN s : Unambiguous(s, i) => Truthful(s[i], b)

\* What a process would write on its record for the answer in hand.
Told(p) == [n |-> job[p].n, trade |-> reply[p].trade, status |-> Parsed(reply[p].tx)]

\* An attempt has a number of its own and places one order, the answer to which
\* is not there before.
OrderEach ==
  /\ \A p \in Procs : Working(p) => job[p].n \in 1..attempts
  /\ \A p, q \in Procs : Working(p) /\ Working(q) /\ job[p].n = job[q].n => p = q
  /\ \A t \in DOMAIN book : book[t].n \in 1..attempts
  /\ \A t, u \in DOMAIN book : book[t].n = book[u].n => t = u
  /\ \A p \in Procs :
       /\ pc[p] \in BeforeOrder => \A t \in DOMAIN book : book[t].n # job[p].n
       /\ pc[p] \in BeforeOrder \cup {"down", "idle"} => reply[p] = NoReply

\* A copy is held between the two halves of an operation only, and one that is to
\* be updated has the record the update is for.
CopyInUse ==
  \A p \in Procs : view[p].held =>
    /\ pc[p] \in StoreSteps \cup EventSteps
    /\ pc[p] \in StoreSteps \ {"create"} => Holds(view[p].store, job[p].id)

\* The copies a process holds are as honest as the file, and so is its answer.
TruthInv ==
  /\ OrderEach
  /\ Honest(store, book)
  /\ \A p \in Procs : Honest(view[p].store, book) /\ Truthful(Told(p), book)

\* No caller gives an id of its own, so every attempt has a fresh one.
UuidsOnly == \A r \in Requests : SignalOf[r] = NoSignal

Fresh(s) == \A i \in DOMAIN s : s[i].id = <<"uuid", s[i].n>>

IdsInv ==
  /\ Fresh(store)
  /\ \A p \in Procs :
       Fresh(view[p].store) /\ (Working(p) => job[p].id = <<"uuid", job[p].n>>)

\* What is known of the record of the attempt in hand.
Unsettled == {"submitted", "send", "place", "received", "result"}

Known(p, r) ==
  /\ pc[p] \in Unsettled => r.status \in OpenUnfinished /\ r.trade = NoTrade
  /\ pc[p] \in {"place", "received", "result"} => r.status \in Surfacing
  /\ pc[p] \in {"outcome", "verify", "discrepancy"} => r.trade = reply[p].trade
  /\ pc[p] = "discrepancy" => Parsed(reply[p].tx) = "FILLED"

RecordInHand ==
  \A p \in Procs, i \in DOMAIN store :
    Working(p) /\ store[i].n = job[p].n =>
      store[i].id = job[p].id /\ (Unambiguous(store, i) => Known(p, store[i]))

\* An order that is or may become an open trade is the record's trade, or the
\* record does not pass for settled.
Surfaced(r, b) ==
  \A t \in DOMAIN b : b[t].n = r.n /\ b[t].state \in Live /\ t # r.trade =>
    r.status \in Surfacing

SurfaceInv ==
  /\ RecordInHand
  /\ \A i \in DOMAIN store : Unambiguous(store, i) => Surfaced(store[i], book)
  /\ \A p \in Procs : Surfaced(Told(p), book)

\* A record names a trade of its own request_id only.
NamedInv ==
  \A i \in DOMAIN store : store[i].trade # NoTrade =>
    /\ store[i].trade \in DOMAIN book
    /\ \A j \in DOMAIN store :
         store[j].n = book[store[i].trade].n => store[j].id = store[i].id

\* No order can become an open trade after its answer.
OrdersAtOnce == LimitOrders = {} /\ "late" \notin Faults
NeverAdds == \A r \in Requests : PolicyOf[r] # "ALLOW_ADD"

\* Past the policy only missed trades are open on the symbol; while the old
\* trades are being closed, what else is open is on the list.
OneInv ==
  /\ \A t \in DOMAIN book : book[t].state \notin {"PENDING", "LATE"}
  /\ \A p \in Procs :
       /\ pc[p] = "closing" => OpenOnSymbol(p) \subseteq doomed[p] \cup missed
       /\ pc[p] \in {"create", "submitted", "send", "place"} =>
            OpenOnSymbol(p) \subseteq missed
  /\ OneOpenTrade

\* An unfinished record is that of an attempt under way, and an open trade that
\* no record names is in the answer in hand.
DriftInv ==
  /\ \A t \in DOMAIN book : book[t].state \notin {"PENDING", "LATE"}
  /\ \A i \in DOMAIN store : store[i].status \in UnfinishedStatuses =>
       \E p \in Procs : pc[p] \in Unsettled \cup {"failed"} /\ job[p].n = store[i].n
  /\ \A t \in DOMAIN book :
       book[t].state = "OPEN" /\ (\A i \in DOMAIN store : store[i].trade # t) =>
         \E p \in Procs :
           pc[p] \in {"received", "result"} /\ job[p].n = book[t].n /\ reply[p].trade = t
=============================================================================
