------------------------ MODULE CloseExecutionProofs ------------------------
(***************************************************************************)
(* Theorems about CloseExecution for all values of its constants.          *)
(***************************************************************************)
EXTENDS CloseExecution, ExecutionStoreProofs, TLAPS

-----------------------------------------------------------------------------
(***************************************************************************)
(* Type correctness.  A process that is inside a call holds one of the     *)
(* trades, which the type alone does not say.                              *)
(***************************************************************************)
Views == [held : BOOLEAN, store : Seq(Record), events : SUBSET Event]
JobsTyped == [n : Nat, trade : Trades \cup {NoTrade}]

InHand == \A p \in Procs : Working(p) => job[p].n \in 1..calls /\ job[p].trade \in Trades

TypeInv == TypeOK /\ InHand

LEMMA ValueTypes ==
  /\ NoJob \in JobsTyped /\ NoView \in Views
  /\ \A n \in Nat : CloseId(n) \in RequestIds
  /\ Trades \subseteq Nat
<1>1. NoJob \in JobsTyped
  BY DEF NoJob, JobsTyped
<1>2. NoView \in Views
  BY DEF NoView, Views
<1>3. \A n \in Nat : CloseId(n) \in RequestIds
  BY DEF CloseId, RequestIds
<1>. QED  BY <1>1, <1>2, <1>3, ConstantsAssumption

\* The world of a run is one of World.
LEMMA WorldType ==
  ASSUME TypeOK
  PROVE  /\ world.retries \in Nat /\ world.calls \in Nat
         /\ world.trades \subseteq Trades /\ world.crew \subseteq Procs
BY ConstantsAssumption DEF TypeOK, World

LEMMA InitType == Init => TypeInv
<1> SUFFICES ASSUME Init PROVE TypeInv
  OBVIOUS
<1>1. world.trades \subseteq Trades
  BY ConstantsAssumption DEF Init, World
<1>2. TypeOK
  BY <1>1, ValueTypes DEF Init, TypeOK, JobsTyped, Views, Steps
<1>. QED  BY <1>2 DEF Init, TypeInv, InHand, Working

\* The call ends: the process forgets everything.
LEMMA LeaveType ==
  ASSUME TypeInv, NEW p \in Procs, Leave(p), store' \in Seq(Record), events' \subseteq Event,
         UNCHANGED <<world, open, closedBy, blank, calls>>
  PROVE  TypeInv'
<1>1. pc' = [pc EXCEPT ![p] = "idle"] /\ pc' \in [Procs -> Steps]
  BY DEF Leave, Goto, TypeInv, TypeOK, Steps
<1>2. job' \in [Procs -> JobsTyped] /\ view' \in [Procs -> Views] /\ tries' \in [Procs -> Nat]
  BY ValueTypes DEF Leave, TypeInv, TypeOK, JobsTyped, Views
<1>3. InHand'
  BY <1>1 DEF Leave, TypeInv, TypeOK, InHand, Working
<1>. QED  BY <1>1, <1>2, <1>3 DEF TypeInv, TypeOK, JobsTyped, Views

\* A step inside a call.
LEMMA InsideType ==
  ASSUME TypeInv, NEW p \in Procs, Working(p), NEW step \in Steps,
         pc' = [pc EXCEPT ![p] = step], UNCHANGED <<world, calls, job>>,
         store' \in Seq(Record), events' \subseteq Event, open' \subseteq open,
         closedBy' \in [Trades -> Nat], blank' \subseteq Nat, tries' \in [Procs -> Nat],
         view' = view \/ view' = [view EXCEPT ![p] = NoView]
  PROVE  TypeInv'
<1>1. pc' \in [Procs -> Steps] /\ view' \in [Procs -> Views] /\ open' \subseteq Trades
  BY ValueTypes DEF TypeInv, TypeOK, Views
<1>2. InHand'
  BY DEF TypeInv, TypeOK, InHand, Working
<1>. QED  BY <1>1, <1>2 DEF TypeInv, TypeOK, Views

LEMMA ReplaceStoreType ==
  ASSUME TypeInv, NEW p \in Procs, Working(p), NEW s \in Seq(Record), NEW step \in Steps,
         ReplaceStore(p, s, step)
  PROVE  TypeInv'
BY InsideType DEF ReplaceStore, Goto, TypeInv, TypeOK

\* An event of the call in hand is an event.
LEMMA WithEventType ==
  ASSUME TypeInv, NEW p \in Procs, Working(p), NEW type \in EventTypes
  PROVE  WithEvent(p, type) \subseteq Event
<1>1. view[p].events \subseteq Event
  BY DEF TypeInv, TypeOK
<1>2. job[p].n \in Nat /\ job[p].trade \in Trades
  BY DEF TypeInv, TypeOK, InHand
<1>. QED  BY <1>1, <1>2 DEF WithEvent, Event

LEMMA AddEventType ==
  ASSUME TypeInv, NEW p \in Procs, NEW here, here # "idle", NEW type \in EventTypes,
         NEW step \in Steps, AddEvent(p, here, type, step)
  PROVE  TypeInv'
<1>1. Working(p)
  BY DEF AddEvent, Working
<1>2. WithEvent(p, type) \subseteq Event
  BY <1>1, WithEventType
<1>. QED  BY <1>1, <1>2, InsideType DEF AddEvent, Goto, TypeInv, TypeOK

LEMMA FileType ==
  ASSUME TypeInv, NEW p \in Procs, FileRead(p) \/ FileWrite(p)
  PROVE  TypeInv'
<1> USE DEF Steps, StoreSteps, EventSteps
<1>a. /\ view[p].store \in Seq(Record) /\ job[p].n \in Nat
      /\ store \in Seq(Record) /\ events \subseteq Event /\ open \subseteq open
      /\ closedBy \in [Trades -> Nat] /\ blank \subseteq Nat /\ tries \in [Procs -> Nat]
      /\ world.retries \in Nat
  BY WorldType DEF TypeInv, TypeOK
<1>b. \A st \in Statuses :
         WithStatus(view[p].store, CloseId(job[p].n), st) \in Seq(Record)
  BY <1>a, WithStatusType
<1>c. {"CLOSE_REQUEST_SENT", "CLOSE_RESPONSE_RECEIVED", "CLOSED", "DISCREPANCY",
       "EXCEPTION"} \subseteq Statuses
  BY DEF Statuses, UnfinishedStatuses, CloseUnfinished, FinalStatuses
<1>1. CASE ReadStore(p) \/ ReadEvents(p)
  <2>1. view' \in [Procs -> Views]
    <3>1. /\ [held |-> TRUE, store |-> store, events |-> {}] \in Views
          /\ [held |-> TRUE, store |-> <<>>, events |-> events] \in Views
      BY <1>a DEF Views
    <3>2. view \in [Procs -> Views]
      BY DEF TypeInv, TypeOK, Views
    <3> HIDE DEF Views
    <3>. QED  BY <1>1, <3>1, <3>2 DEF ReadStore, ReadEvents
  <2>. QED
    BY <1>1, <2>1
    DEF ReadStore, ReadEvents, files, TypeInv, TypeOK, Views, InHand, Working
<1>2. CASE RecordMissing(p)
  <2>1. CASE Leave(p)
    BY <1>2, <1>a, <2>1, LeaveType DEF RecordMissing, files
  <2>2. CASE Goto(p, "failed") /\ UNCHANGED <<job, tries, view>>
    <3>1. Working(p) /\ pc' = [pc EXCEPT ![p] = "failed"]
          /\ UNCHANGED <<world, calls, job, store, events, open, closedBy, blank, tries, view>>
      BY <1>2, <2>2 DEF RecordMissing, files, Goto, Working
    <3>. QED  BY <1>a, <3>1, InsideType
  <2>. QED  BY <1>2, <2>1, <2>2 DEF RecordMissing
<1>3. CASE AppendRaises(p)
  <2>1. CASE Leave(p)
    BY <1>3, <1>a, <2>1, LeaveType DEF AppendRaises, files
  <2>2. CASE Goto(p, "failed") /\ view' = [view EXCEPT ![p] = NoView] /\ UNCHANGED <<job, tries>>
    BY <1>3, <1>a, <2>2, InsideType DEF AppendRaises, files, Goto, Working
  <2>. QED  BY <1>3, <2>1, <2>2 DEF AppendRaises
<1>4. CASE CreateCloseAttempt(p)
  <2>1. Working(p)
    BY <1>4 DEF CreateCloseAttempt, Working
  <2>2. job[p].trade \in Nat
    BY <2>1, ValueTypes DEF TypeInv, InHand
  <2>3. Append(view[p].store, CloseRecord(job[p].n, CloseId(job[p].n), job[p].trade, 0))
          \in Seq(Record)
    BY <1>a, <2>2, ValueTypes, CloseRecordType
  <2>. QED  BY <1>4, <2>1, <2>3, ReplaceStoreType DEF CreateCloseAttempt
<1>5. CASE MarkSent(p) \/ MarkClosed(p) \/ MarkDiscrepancy(p)
  <2>1. Working(p)
    BY <1>5 DEF MarkSent, MarkClosed, MarkDiscrepancy, Mark, Working
  <2>. QED
    BY <1>5, <1>b, <1>c, <2>1, ReplaceStoreType
    DEF MarkSent, MarkClosed, MarkDiscrepancy, Mark
<1>6. CASE MarkReceived(p)
  <2>1. store' \in Seq(Record)
    BY <1>6, <1>b, <1>c DEF MarkReceived
  <2>2. tries' \in [Procs -> Nat]
    BY <1>6, <1>a DEF MarkReceived
  <2>. QED
    BY <1>6, <1>a, <2>1, <2>2, InsideType DEF MarkReceived, Goto, Working
<1>7. CASE MarkException(p)
  <2>1. store' \in Seq(Record)
    BY <1>7, <1>b, <1>c DEF MarkException
  <2>. QED  BY <1>7, <1>a, <2>1, LeaveType DEF MarkException
<1>8. CASE AppendRequested(p) \/ AppendDiscrepancy(p)
  BY <1>8, AddEventType DEF AppendRequested, AppendDiscrepancy, EventTypes
<1>9. CASE AppendClosed(p)
  <2>1. events' \subseteq Event
    BY <1>9, WithEventType DEF AppendClosed, Working, EventTypes
  <2>. QED  BY <1>9, <1>a, <2>1, LeaveType DEF AppendClosed
<1>. QED
  BY <1>1, <1>2, <1>3, <1>4, <1>5, <1>6, <1>7, <1>8, <1>9 DEF FileRead, FileWrite

LEMMA NextType == TypeInv /\ [Next]_vars => TypeInv'
<1> SUFFICES ASSUME TypeInv, [Next]_vars PROVE TypeInv'
  OBVIOUS
<1>a. /\ store \in Seq(Record) /\ events \subseteq Event /\ open \subseteq open
      /\ closedBy \in [Trades -> Nat] /\ blank \subseteq Nat /\ tries \in [Procs -> Nat]
      /\ calls \in Nat
      /\ world.trades \subseteq Trades
  BY WorldType DEF TypeInv, TypeOK
<1>1. ASSUME NEW p \in Procs, FileRead(p) \/ FileWrite(p) PROVE TypeInv'
  BY <1>1, FileType
<1>2. ASSUME NEW p \in Procs, Broker(p) PROVE TypeInv'
  <2>1. Working(p) /\ "received" \in Steps /\ "failed" \in Steps
    BY <1>2 DEF Broker, BrokerCloses, BrokerDeclines, BrokerRefuses, Working, Steps, StoreSteps
  <2>2. closedBy' \in [Trades -> Nat] /\ open' \subseteq open
    BY <1>2, <1>a
    DEF Broker, BrokerCloses, BrokerDeclines, BrokerRefuses, TypeInv, TypeOK
  <2>. QED
    BY <1>2, <1>a, <2>1, <2>2, InsideType
    DEF Broker, BrokerCloses, BrokerDeclines, BrokerRefuses, files, Goto
<1>3. ASSUME NEW p \in Procs, Poll(p) PROVE TypeInv'
  <2>1. Working(p) /\ {"poll", "close", "failed", "discrepancy"} \subseteq Steps
    BY <1>3 DEF Poll, PollOpen, PollNotOpen, PollRaises, StillOpen, Working, Steps, StoreSteps
  <2>2. tries' \in [Procs -> Nat]
    BY <1>3, <1>a DEF Poll, PollOpen, PollNotOpen, PollRaises, StillOpen
  <2>3. blank' \subseteq Nat
    <3>1. job[p].n \in Nat
      BY DEF TypeInv, TypeOK
    <3>. QED
      BY <1>3, <1>a, <3>1 DEF Poll, PollOpen, PollNotOpen, PollRaises, StillOpen
  <2>4. \E step \in {"poll", "close", "failed", "discrepancy"} :
           pc' = [pc EXCEPT ![p] = step]
    BY <1>3 DEF Poll, PollOpen, PollNotOpen, PollRaises, StillOpen, Goto, TypeInv, TypeOK
  <2>. QED
    BY <1>3, <1>a, <2>1, <2>2, <2>3, <2>4, InsideType
    DEF Poll, PollOpen, PollNotOpen, PollRaises, StillOpen, files
<1>4. ASSUME NEW p \in Procs, Crash(p) PROVE TypeInv'
  BY <1>4, <1>a, LeaveType DEF Crash, files
<1>5. ASSUME NEW p \in Procs, NEW t \in Trades, Call(p, t) PROVE TypeInv'
  <2>1. job' \in [Procs -> JobsTyped]
    BY <1>5, <1>a DEF Call, TypeInv, TypeOK, JobsTyped
  <2>2. pc' \in [Procs -> Steps]
    BY <1>5 DEF Call, Goto, TypeInv, TypeOK, Steps, StoreSteps
  <2>3. InHand'
    BY <1>5, <1>a DEF Call, Goto, TypeInv, TypeOK, InHand, Working
  <2>. QED  BY <1>5, <1>a, <2>1, <2>2, <2>3 DEF Call, files, TypeInv, TypeOK, JobsTyped
<1>6. CASE OthersClose
  BY <1>6 DEF OthersClose, files, TypeInv, TypeOK, InHand, Working
<1>7. CASE UNCHANGED vars
  BY <1>7 DEF vars, files, TypeInv, TypeOK, InHand, Working
<1>. QED
  BY <1>1, <1>2, <1>3, <1>4, <1>5, <1>6, <1>7 DEF Next, Run

LEMMA TypeInvariant == Spec => []TypeInv
<1>. QED  BY InitType, NextType, PTL DEF Spec

\* Every variable always has its type, for any number of processes and any faults.
THEOREM TypeCorrect == Spec => []TypeOK
<1>1. TypeInv => TypeOK
  BY DEF TypeInv
<1>. QED  BY <1>1, TypeInvariant, PTL
-----------------------------------------------------------------------------
(***************************************************************************)
(* Nothing says CLOSED of a trade that is open, but what a call says that  *)
(* the broker misled.                                                      *)
(***************************************************************************)
LEMMA InitClose == Init => CloseInv
BY DEF Init, CloseInv, OwnCalls, CopiesTrue, RecordsTrue, EventsTrue, Found, Working, NoView

\* Ids tell calls apart.
LEMMA IdsDiffer == \A m, n : CloseId(m) = CloseId(n) => m = n
BY DEF CloseId

\* A step of a call that leaves the files alone.
LEMMA QuietClose ==
  ASSUME TypeInv, CloseInv, NEW p \in Procs, NEW step, Working(p),
         pc' = [pc EXCEPT ![p] = step], UNCHANGED <<world, store, events, calls, job>>,
         open' \subseteq open, blank \subseteq blank',
         view' = view \/ view' = [view EXCEPT ![p] = NoView], ~ view'[p].held,
         step \in {"close", "closed"} => job[p].trade \notin open' \/ job[p].n \in blank'
  PROVE  CloseInv'
<1>1. pc \in [Procs -> Steps] /\ view \in [Procs -> Views]
  BY DEF TypeInv, TypeOK, Views
<1>2. OwnCalls'
  BY DEF CloseInv, OwnCalls, Working
<1>3. CopiesTrue'
  BY <1>1 DEF CloseInv, CopiesTrue, RecordsTrue, EventsTrue, Working, NoView, MaySayClosed
<1>4. Found'
  BY <1>1 DEF CloseInv, Found, NoView, MaySayClosed
<1>. QED  BY <1>2, <1>3, <1>4 DEF CloseInv

\* The end of a call.  The files may have been written in the same step.
LEMMA LeaveClose ==
  ASSUME TypeInv, CloseInv, NEW p \in Procs, Leave(p),
         UNCHANGED <<world, calls, open, blank>>, RecordsTrue(store'), EventsTrue(events')
  PROVE  CloseInv'
<1>1. pc \in [Procs -> Steps] /\ view \in [Procs -> Views] /\ job \in [Procs -> JobsTyped]
  BY DEF TypeInv, TypeOK, Views, JobsTyped
<1>2. OwnCalls'
  BY <1>1 DEF CloseInv, OwnCalls, Working, Leave, Goto
<1>3. CopiesTrue'
  BY <1>1 DEF CloseInv, CopiesTrue, RecordsTrue, EventsTrue, Working, NoView, Leave, Goto,
      MaySayClosed
<1>4. Found'
  BY <1>1 DEF CloseInv, Found, NoView, Leave, Goto, MaySayClosed
<1>. QED  BY <1>2, <1>3, <1>4 DEF CloseInv

\* A file is replaced, and the call goes on.
LEMMA WriteClose ==
  ASSUME TypeInv, CloseInv, NEW p \in Procs, NEW step, Working(p),
         pc' = [pc EXCEPT ![p] = step], view' = [view EXCEPT ![p] = NoView],
         UNCHANGED <<world, calls, open, blank, job>>, RecordsTrue(store'), EventsTrue(events'),
         step = "closed" => pc[p] = "close", step # "close"
  PROVE  CloseInv'
<1>1. pc \in [Procs -> Steps] /\ view \in [Procs -> Views]
  BY DEF TypeInv, TypeOK, Views
<1>2. OwnCalls'
  BY DEF CloseInv, OwnCalls, Working
<1>3. CopiesTrue'
  BY <1>1 DEF CloseInv, CopiesTrue, RecordsTrue, EventsTrue, Working, NoView, MaySayClosed
<1>4. Found'
  BY <1>1 DEF CloseInv, Found, NoView, MaySayClosed
<1>. QED  BY <1>2, <1>3, <1>4 DEF CloseInv

\* Whatever copy is updated, only the record of the call in hand changes, and it
\* is said to be CLOSED only after the trade was found not to be open.
LEMMA UpdateTrue ==
  ASSUME TypeInv, CloseInv, NEW p \in Procs, view[p].held, pc[p] \in StoreSteps \ {"create"},
         NEW st, st = "CLOSED" => pc[p] = "close"
  PROVE  RecordsTrue(WithStatus(view[p].store, CloseId(job[p].n), st))
<1> DEFINE s == view[p].store
           k == First(s, CloseId(job[p].n))
<1>1. s \in Seq(Record)
  BY DEF TypeInv, TypeOK
<1>2. k \in DOMAIN s /\ s[k].id = CloseId(job[p].n)
  BY <1>1, FirstFound DEF CloseInv, Found
<1>3. RecordsTrue(s)
  BY DEF CloseInv, CopiesTrue
<1>4. s[k].n = job[p].n /\ s[k].trade = job[p].trade
  BY <1>2, <1>3, IdsDiffer DEF RecordsTrue, Working, StoreSteps
<1>5. st = "CLOSED" => MaySayClosed(s[k].n, s[k].trade)
  BY <1>4 DEF CloseInv, Found
<1>. QED  BY <1>1, <1>3, <1>5, StatusUpdate DEF RecordsTrue

\* The event of the call in hand.
LEMMA EventTrue ==
  ASSUME TypeInv, CloseInv, NEW p \in Procs, Working(p),
         NEW type, type = "TRADE_CLOSED" => pc[p] = "closed"
  PROVE  EventsTrue(WithEvent(p, type))
BY DEF CloseInv, CopiesTrue, EventsTrue, Found, WithEvent, OwnCalls

LEMMA CreateTrue ==
  ASSUME TypeInv, CloseInv, NEW p \in Procs, pc[p] = "create"
  PROVE  RecordsTrue(Append(view[p].store,
           CloseRecord(job[p].n, CloseId(job[p].n), job[p].trade, 0)))
<1> DEFINE r == CloseRecord(job[p].n, CloseId(job[p].n), job[p].trade, 0)
<1>1. /\ Working(p) /\ job[p].n \in 1..calls /\ job[p].n \in Nat
      /\ job[p].trade \in Nat /\ view[p].store \in Seq(Record)
  BY ValueTypes DEF TypeInv, TypeOK, InHand, Working
<1>2. r \in Record
  BY <1>1, ValueTypes, CloseRecordType
<1>3. r.n = job[p].n /\ r.id = CloseId(job[p].n) /\ r.status # "CLOSED"
      /\ r.trade = job[p].trade
  BY DEF CloseRecord
<1>4. \A q \in Procs : Working(q) /\ job[q].n = r.n => job[q].trade = r.trade
  BY <1>1, <1>3 DEF CloseInv, OwnCalls
<1>. QED
  BY <1>1, <1>2, <1>3, <1>4, AppendRecord DEF CloseInv, CopiesTrue, RecordsTrue

LEMMA FilesTrue == CloseInv => RecordsTrue(store) /\ EventsTrue(events)
BY DEF CloseInv, CopiesTrue

LEMMA WritesClose ==
  ASSUME TypeInv, CloseInv, NEW p \in Procs, FileWrite(p)
  PROVE  CloseInv'
<1> USE FilesTrue DEF Working, StoreSteps
<1>1. CASE CreateCloseAttempt(p)
  BY <1>1, CreateTrue, WriteClose DEF CreateCloseAttempt, ReplaceStore, Goto
<1>2. CASE MarkSent(p)
  BY <1>2, UpdateTrue, WriteClose DEF MarkSent, Mark, ReplaceStore, Goto
<1>3. CASE MarkReceived(p)
  BY <1>3, UpdateTrue, WriteClose DEF MarkReceived, Goto
<1>4. CASE MarkClosed(p)
  BY <1>4, UpdateTrue, WriteClose DEF MarkClosed, Mark, ReplaceStore, Goto
<1>5. CASE MarkDiscrepancy(p)
  BY <1>5, UpdateTrue, WriteClose DEF MarkDiscrepancy, Mark, ReplaceStore, Goto
<1>6. CASE MarkException(p)
  BY <1>6, UpdateTrue, LeaveClose DEF MarkException
<1>7. CASE AppendRequested(p)
  BY <1>7, EventTrue, WriteClose DEF AppendRequested, AddEvent, Goto
<1>8. CASE AppendDiscrepancy(p)
  BY <1>8, EventTrue, WriteClose DEF AppendDiscrepancy, AddEvent, Goto
<1>9. CASE AppendClosed(p)
  BY <1>9, EventTrue, LeaveClose DEF AppendClosed
<1>. QED
  BY <1>1, <1>2, <1>3, <1>4, <1>5, <1>6, <1>7, <1>8, <1>9 DEF FileWrite

LEMMA ReadsClose ==
  ASSUME TypeInv, CloseInv, NEW p \in Procs, FileRead(p)
  PROVE  CloseInv'
<1>1. CASE ReadStore(p) \/ ReadEvents(p)
  <2>1. /\ UNCHANGED <<world, store, events, open, blank, calls, pc, job>>
        /\ \A q \in Procs : q # p => view'[q] = view[q]
    BY <1>1 DEF ReadStore, ReadEvents, files, TypeInv, TypeOK
  <2>2. \/ view'[p].store = store /\ view'[p].events = {}
        \/ view'[p].store = <<>> /\ view'[p].events = events
    BY <1>1 DEF ReadStore, ReadEvents, TypeInv, TypeOK
  <2>3. OwnCalls'
    BY <2>1 DEF CloseInv, OwnCalls, Working
  <2>4. CopiesTrue'
    BY <2>1, <2>2 DEF CloseInv, CopiesTrue, RecordsTrue, EventsTrue, Working, MaySayClosed
  <2>5. /\ pc[p] \in StoreSteps \cup EventSteps
        /\ pc[p] \in StoreSteps \ {"create"} => Holds(view'[p].store, CloseId(job[p].n))
    BY <1>1 DEF ReadStore, ReadEvents, StoreSteps, EventSteps, TypeInv, TypeOK
  <2>6. Found'
    BY <2>1, <2>5 DEF CloseInv, Found, Holds, MaySayClosed
  <2>. QED  BY <2>3, <2>4, <2>6 DEF CloseInv
<1>2. CASE RecordMissing(p)
  <2>1. CASE Leave(p)
    BY <1>2, <2>1, FilesTrue, LeaveClose DEF RecordMissing, files
  <2>2. CASE Goto(p, "failed") /\ UNCHANGED <<job, tries, view>>
    <3>1. /\ Working(p) /\ pc' = [pc EXCEPT ![p] = "failed"] /\ ~ view'[p].held
          /\ UNCHANGED <<world, calls, job, store, events, open, blank, view>>
      BY <1>2, <2>2 DEF RecordMissing, files, Goto, Working, StoreSteps
    <3>. QED  BY <3>1, QuietClose
  <2>. QED  BY <1>2, <2>1, <2>2 DEF RecordMissing
<1>3. CASE AppendRaises(p)
  <2>1. CASE Leave(p)
    BY <1>3, <2>1, FilesTrue, LeaveClose DEF AppendRaises, files
  <2>2. CASE Goto(p, "failed") /\ view' = [view EXCEPT ![p] = NoView] /\ UNCHANGED <<job, tries>>
    <3>1. ~ view'[p].held
      BY <2>2 DEF NoView, TypeInv, TypeOK
    <3>. QED
      BY <1>3, <2>2, <3>1, QuietClose DEF AppendRaises, files, Goto, Working, EventSteps
  <2>. QED  BY <1>3, <2>1, <2>2 DEF AppendRaises
<1>. QED  BY <1>1, <1>2, <1>3 DEF FileRead

LEMMA NextClose == TypeInv /\ CloseInv /\ [Next]_vars => CloseInv'
<1> SUFFICES ASSUME TypeInv, CloseInv, [Next]_vars PROVE CloseInv'
  OBVIOUS
<1>1. ASSUME NEW p \in Procs, FileRead(p) \/ FileWrite(p) PROVE CloseInv'
  BY <1>1, ReadsClose, WritesClose
<1>2. ASSUME NEW p \in Procs, Broker(p) PROVE CloseInv'
  <2>1. pc[p] = "request" /\ view' = view /\ Working(p) /\ ~ view'[p].held
    BY <1>2
    DEF Broker, BrokerCloses, BrokerDeclines, BrokerRefuses, Working, CloseInv, Found,
        StoreSteps, EventSteps
  <2>. QED
    BY <1>2, <2>1, QuietClose
    DEF Broker, BrokerCloses, BrokerDeclines, BrokerRefuses, files, Goto
<1>3. ASSUME NEW p \in Procs, Poll(p) PROVE CloseInv'
  <2>1. pc[p] = "poll" /\ view' = view /\ Working(p) /\ ~ view'[p].held
    BY <1>3
    DEF Poll, PollOpen, PollNotOpen, PollRaises, StillOpen, Working, CloseInv, Found,
        StoreSteps, EventSteps
  <2>2. PICK step \in {"poll", "close", "failed", "discrepancy"} :
           /\ pc' = [pc EXCEPT ![p] = step]
           /\ step = "close" => job[p].trade \notin open \/ job[p].n \in blank'
           /\ blank \subseteq blank'
    BY <1>3, <2>1 DEF Poll, PollOpen, PollNotOpen, PollRaises, StillOpen, Goto, TypeInv, TypeOK
  <2>. QED
    BY <1>3, <2>1, <2>2, QuietClose
    DEF Poll, PollOpen, PollNotOpen, PollRaises, StillOpen, files
<1>4. ASSUME NEW p \in Procs, Crash(p) PROVE CloseInv'
  BY <1>4, FilesTrue, LeaveClose DEF Crash, files
<1>5. ASSUME NEW p \in Procs, NEW t \in Trades, Call(p, t) PROVE CloseInv'
  <2>1. /\ pc[p] = "idle" /\ pc'[p] = "create" /\ job'[p].n = calls + 1 /\ job'[p].trade = t
        /\ \A q \in Procs : q # p => pc'[q] = pc[q] /\ job'[q] = job[q]
        /\ calls' = calls + 1 /\ calls \in Nat /\ p \in world.crew
        /\ UNCHANGED <<world, store, events, open, blank, view>>
    BY <1>5 DEF Call, Goto, files, TypeInv, TypeOK
  <2>2. OwnCalls'
    BY <2>1 DEF CloseInv, OwnCalls, Working
  <2>3. CopiesTrue'
    BY <2>1 DEF CloseInv, CopiesTrue, RecordsTrue, EventsTrue, Working, MaySayClosed
  <2>4. Found'
    BY <2>1 DEF CloseInv, Found, StoreSteps, EventSteps, MaySayClosed
  <2>. QED  BY <2>2, <2>3, <2>4 DEF CloseInv
<1>6. CASE OthersClose
  BY <1>6
  DEF OthersClose, files, CloseInv, OwnCalls, CopiesTrue, RecordsTrue, EventsTrue, Found, Working,
      MaySayClosed
<1>7. CASE UNCHANGED vars
  BY <1>7
  DEF vars, files, CloseInv, OwnCalls, CopiesTrue, RecordsTrue, EventsTrue, Found, Working,
      MaySayClosed
<1>. QED
  BY <1>1, <1>2, <1>3, <1>4, <1>5, <1>6, <1>7 DEF Next, Run

LEMMA CloseInvariant == Spec => []CloseInv
<1>1. TypeInv /\ CloseInv /\ [Next]_vars => CloseInv'
  BY NextClose
<1>. QED  BY <1>1, InitClose, TypeInvariant, PTL DEF Spec

\* With any number of processes, crashes and stale copies written back, neither a
\* record nor an event says CLOSED of a trade that is open, unless the broker
\* answered get_trade without a trade to the very call that says so.
THEOREM ClosedIsClosed == Spec => []ClosedMeansClosed
<1>1. CloseInv => ClosedMeansClosed
  BY DEF CloseInv, CopiesTrue, RecordsTrue, EventsTrue, ClosedMeansClosed
<1>. QED  BY <1>1, CloseInvariant, PTL
-----------------------------------------------------------------------------
(***************************************************************************)
(* One process: what the broker did for a call, and what an event says of  *)
(* it, is on record.                                                       *)
(***************************************************************************)
LEMMA InitSole == Init => SoleInv
BY DEF Init, SoleInv, ViewsFresh, CallInHand, CloseAccounted, EventHasRecord, Working, NoView

\* Nobody but the process of the crew is inside a call.
LEMMA Alone ==
  ASSUME CloseInv, Sole(world), NEW p \in Procs, Working(p), NEW q \in Procs, Working(q)
  PROVE  q = p
BY DEF CloseInv, OwnCalls, Sole

\* What is on record stays on record when the call in hand updates its own record.
LEMMA UpdateRecorded ==
  ASSUME TypeInv, CloseInv, NEW p \in Procs, view[p].held, pc[p] \in StoreSteps \ {"create"},
         view[p].store = store, NEW st \in SentStatuses
  PROVE  LET t == WithStatus(store, CloseId(job[p].n), st)
         IN  /\ Holds(t, CloseId(job[p].n))
             /\ OnRecord(t, job[p].n, job[p].trade, {st})
             /\ \A n, tr : OnRecord(store, n, tr, SentStatuses) => OnRecord(t, n, tr, SentStatuses)
             /\ \A n, tr : OnRecord(store, n, tr, {"CLOSED"}) /\ n # job[p].n
                  => OnRecord(t, n, tr, {"CLOSED"})
<1> DEFINE t == WithStatus(store, CloseId(job[p].n), st)
           k == First(store, CloseId(job[p].n))
<1>1. store \in Seq(Record) /\ Holds(store, CloseId(job[p].n))
  BY DEF TypeInv, TypeOK, CloseInv, Found
<1>2. k \in DOMAIN store /\ store[k].id = CloseId(job[p].n)
  BY <1>1, FirstFound
<1>3. store[k].n = job[p].n /\ store[k].trade = job[p].trade
  BY <1>2, IdsDiffer DEF CloseInv, CopiesTrue, RecordsTrue, Working, StoreSteps
<1>4. /\ DOMAIN t = DOMAIN store
      /\ \A i \in DOMAIN store :
           /\ t[i].n = store[i].n /\ t[i].id = store[i].id /\ t[i].trade = store[i].trade
           /\ t[i].status = IF i = k THEN st ELSE store[i].status
  BY <1>1, StatusUpdate
<1> HIDE DEF t, k
<1>5. Holds(t, CloseId(job[p].n))
  BY <1>2, <1>4 DEF Holds
<1>6. OnRecord(t, job[p].n, job[p].trade, {st})
  BY <1>2, <1>3, <1>4 DEF OnRecord
<1>7. ASSUME NEW n, NEW tr, OnRecord(store, n, tr, SentStatuses)
      PROVE  OnRecord(t, n, tr, SentStatuses)
  BY <1>4, <1>7 DEF OnRecord
<1>8. ASSUME NEW n, NEW tr, OnRecord(store, n, tr, {"CLOSED"}), n # job[p].n
      PROVE  OnRecord(t, n, tr, {"CLOSED"})
  BY <1>3, <1>4, <1>8 DEF OnRecord
<1>. QED  BY <1>5, <1>6, <1>7, <1>8 DEF t

\* A step of a call that leaves the files alone.  A close at the broker is that
\* of a call whose record says it was sent.
LEMMA QuietSole ==
  ASSUME TypeInv, CloseInv, SoleInv, Sole(world), NEW p \in Procs, Working(p),
         NEW step, pc' = [pc EXCEPT ![p] = step],
         UNCHANGED <<world, store, events, job>>, ~ view'[p].held,
         \A q \in Procs : q # p => view'[q] = view[q],
         \/ closedBy' = closedBy
         \/ pc[p] = "request" /\ closedBy' = [closedBy EXCEPT ![job[p].trade] = job[p].n],
         pc[p] \notin Unsent \/ (pc[p] # "create" /\ step \in Unsent), step # "closed"
  PROVE  SoleInv'
<1>1. pc \in [Procs -> Steps] /\ closedBy \in [Trades -> Nat]
  BY DEF TypeInv, TypeOK
<1>2. \A q \in Procs : Working(q) => q = p
  BY Alone
<1>3. \A q \in Procs : q # p => ~ view[q].held
  BY <1>2 DEF CloseInv, Found, Working, StoreSteps, EventSteps
<1>4. ViewsFresh'
  BY <1>3 DEF ViewsFresh
<1>5. CallInHand'
  BY <1>1, <1>2 DEF SoleInv, CallInHand, Working, Unsent
<1>6. CloseAccounted'
  BY <1>1 DEF SoleInv, CallInHand, CloseAccounted, Unsent, Working
<1>7. EventHasRecord'
  BY DEF SoleInv, EventHasRecord
<1>. QED  BY <1>4, <1>5, <1>6, <1>7 DEF SoleInv

\* The end of a call.
LEMMA LeaveSole ==
  ASSUME TypeInv, CloseInv, SoleInv, Sole(world), NEW p \in Procs, Working(p), Leave(p),
         UNCHANGED <<world, closedBy>>,
         \A n, tr : OnRecord(store, n, tr, SentStatuses) => OnRecord(store', n, tr, SentStatuses),
         \A e \in events' : e.type = "TRADE_CLOSED" => OnRecord(store', e.n, e.trade, {"CLOSED"})
  PROVE  SoleInv'
<1>1. \A q \in Procs : pc'[q] = "idle"
  BY Alone DEF Working, Leave, Goto, TypeInv, TypeOK
<1>2. ViewsFresh' /\ CallInHand'
  BY <1>1 DEF ViewsFresh, CallInHand, Working, StoreSteps, EventSteps
<1>3. CloseAccounted' /\ EventHasRecord'
  BY DEF SoleInv, CloseAccounted, EventHasRecord
<1>. QED  BY <1>2, <1>3 DEF SoleInv

\* The record of the call in hand is updated, and the call goes on.
LEMMA UpdateSole ==
  ASSUME TypeInv, CloseInv, SoleInv, Sole(world), NEW p \in Procs, view[p].held,
         pc[p] \in StoreSteps \ {"create"}, NEW st \in SentStatuses,
         store' = WithStatus(view[p].store, CloseId(job[p].n), st),
         NEW step, pc' = [pc EXCEPT ![p] = step], view' = [view EXCEPT ![p] = NoView],
         UNCHANGED <<world, events, closedBy, job>>, step = "closed" => st = "CLOSED"
  PROVE  SoleInv'
<1>1. pc \in [Procs -> Steps] /\ view \in [Procs -> Views]
  BY DEF TypeInv, TypeOK, Views
<1>2. Working(p) /\ \A q \in Procs : Working(q) => q = p
  BY Alone DEF Working, StoreSteps
<1>3. \A q \in Procs : ~ view'[q].held
  BY <1>1, <1>2 DEF CloseInv, Found, Working, StoreSteps, EventSteps, NoView
<1>4. view[p].store = store
  BY DEF SoleInv, ViewsFresh
<1>5. /\ Holds(store', CloseId(job[p].n))
      /\ OnRecord(store', job[p].n, job[p].trade, {st})
      /\ \A n, tr : OnRecord(store, n, tr, SentStatuses) => OnRecord(store', n, tr, SentStatuses)
      /\ \A n, tr : OnRecord(store, n, tr, {"CLOSED"}) /\ n # job[p].n
           => OnRecord(store', n, tr, {"CLOSED"})
  BY <1>4, UpdateRecorded
<1>6. OnRecord(store', job[p].n, job[p].trade, SentStatuses)
  BY <1>5 DEF OnRecord
<1>7. \A e \in events : e.type = "TRADE_CLOSED" => e.n # job[p].n
  BY <1>2 DEF SoleInv, CallInHand
<1>8. ViewsFresh'
  BY <1>3 DEF ViewsFresh
<1>9. CallInHand'
  BY <1>1, <1>2, <1>5, <1>6, <1>7 DEF CallInHand, Working
<1>10. CloseAccounted'
  BY <1>5 DEF SoleInv, CloseAccounted
<1>11. EventHasRecord'
  BY <1>5, <1>7 DEF SoleInv, EventHasRecord
<1>. QED  BY <1>8, <1>9, <1>10, <1>11 DEF SoleInv

\* An event that is not TRADE_CLOSED.
LEMMA AppendSole ==
  ASSUME TypeInv, CloseInv, SoleInv, Sole(world), NEW p \in Procs, NEW here, NEW type,
         NEW next, AddEvent(p, here, type, next), type # "TRADE_CLOSED",
         \/ here = "requested" /\ next = "send"
         \/ here = "flag" /\ next = "failed"
  PROVE  SoleInv'
<1>1. pc \in [Procs -> Steps] /\ view \in [Procs -> Views]
  BY DEF TypeInv, TypeOK, Views
<1>2. /\ pc[p] = here /\ pc' = [pc EXCEPT ![p] = next] /\ view' = [view EXCEPT ![p] = NoView]
      /\ UNCHANGED <<world, store, closedBy, job>> /\ events' = WithEvent(p, type)
  BY DEF AddEvent, Goto
<1>3. Working(p) /\ \A q \in Procs : Working(q) => q = p
  BY <1>2, Alone DEF Working
<1>4. \A q \in Procs : ~ view'[q].held
  BY <1>1, <1>2, <1>3 DEF CloseInv, Found, Working, StoreSteps, EventSteps, NoView
<1>5. \A e \in events' : e \in events \/ e.type # "TRADE_CLOSED"
  BY <1>2 DEF AddEvent, SoleInv, ViewsFresh, EventSteps, WithEvent
<1>6. ViewsFresh'
  BY <1>4 DEF ViewsFresh
<1>7. CallInHand'
  BY <1>1, <1>2, <1>3, <1>5 DEF SoleInv, CallInHand, Working, Unsent
<1>8. CloseAccounted' /\ EventHasRecord'
  BY <1>2, <1>5 DEF SoleInv, CloseAccounted, EventHasRecord
<1>. QED  BY <1>6, <1>7, <1>8 DEF SoleInv

\* The record of a new call.
LEMMA CreateSole ==
  ASSUME TypeInv, CloseInv, SoleInv, Sole(world), NEW p \in Procs, CreateCloseAttempt(p)
  PROVE  SoleInv'
<1> DEFINE r == CloseRecord(job[p].n, CloseId(job[p].n), job[p].trade, 0)
<1>1. pc \in [Procs -> Steps] /\ view \in [Procs -> Views] /\ store \in Seq(Record)
  BY DEF TypeInv, TypeOK, Views
<1>2. /\ pc[p] = "create" /\ pc' = [pc EXCEPT ![p] = "requested"]
      /\ view' = [view EXCEPT ![p] = NoView] /\ UNCHANGED <<world, events, closedBy, job>>
      /\ store' = Append(store, r)
  BY DEF CreateCloseAttempt, ReplaceStore, Goto, SoleInv, ViewsFresh, StoreSteps
<1>3. Working(p) /\ \A q \in Procs : Working(q) => q = p
  BY <1>2, Alone DEF Working
<1>4. \A q \in Procs : ~ view'[q].held
  BY <1>1, <1>2, <1>3 DEF CloseInv, Found, Working, StoreSteps, EventSteps, NoView
<1>5. r \in Record /\ r.id = CloseId(job[p].n)
  <2>1. job[p].n \in Nat /\ job[p].trade \in Nat
    BY <1>3, ValueTypes DEF TypeInv, TypeOK, InHand
  <2>2. r \in Record
    BY <1>1, <2>1, ValueTypes, CloseRecordType
  <2>. QED  BY <2>2 DEF CloseRecord
<1> HIDE DEF r
<1>6. /\ Len(store) \in Nat /\ DOMAIN store = 1..Len(store)
      /\ DOMAIN store' = 1..(Len(store) + 1)
      /\ \A i \in 1..Len(store) : store'[i] = store[i]
      /\ store'[Len(store) + 1] = r
  BY <1>1, <1>2, <1>5, AppendRecord
<1>7. Holds(store', CloseId(job[p].n))
  BY <1>5, <1>6 DEF Holds
<1>8. \A n, tr, sts : OnRecord(store, n, tr, sts) => OnRecord(store', n, tr, sts)
  BY <1>6 DEF OnRecord
<1>9. ViewsFresh'
  BY <1>4 DEF ViewsFresh
<1>10. CallInHand'
  BY <1>1, <1>2, <1>3, <1>7 DEF SoleInv, CallInHand, Working, Unsent
<1>11. CloseAccounted' /\ EventHasRecord'
  BY <1>2, <1>8 DEF SoleInv, CloseAccounted, EventHasRecord
<1>. QED  BY <1>9, <1>10, <1>11 DEF SoleInv

LEMMA WritesSole ==
  ASSUME TypeInv, CloseInv, SoleInv, Sole(world), NEW p \in Procs, FileWrite(p)
  PROVE  SoleInv'
<1> USE DEF StoreSteps, SentStatuses
<1>1. CASE CreateCloseAttempt(p)
  BY <1>1, CreateSole
<1>2. CASE MarkSent(p)
  BY <1>2, UpdateSole DEF MarkSent, Mark, ReplaceStore, Goto
<1>3. CASE MarkReceived(p)
  BY <1>3, UpdateSole DEF MarkReceived, Goto
<1>4. CASE MarkClosed(p)
  BY <1>4, UpdateSole DEF MarkClosed, Mark, ReplaceStore, Goto
<1>5. CASE MarkDiscrepancy(p)
  BY <1>5, UpdateSole DEF MarkDiscrepancy, Mark, ReplaceStore, Goto
<1>6. CASE MarkException(p)
  <2>1. /\ pc[p] = "failed" /\ view[p].held /\ Working(p) /\ view[p].store = store
        /\ store' = WithStatus(store, CloseId(job[p].n), "EXCEPTION")
        /\ events' = events /\ Leave(p) /\ UNCHANGED <<world, closedBy>>
    BY <1>6 DEF MarkException, SoleInv, ViewsFresh, Working
  <2>2. /\ \A n, tr : OnRecord(store, n, tr, SentStatuses) => OnRecord(store', n, tr, SentStatuses)
        /\ \A n, tr : OnRecord(store, n, tr, {"CLOSED"}) /\ n # job[p].n
             => OnRecord(store', n, tr, {"CLOSED"})
    BY <2>1, UpdateRecorded
  <2>3. \A e \in events' : e.type = "TRADE_CLOSED" => OnRecord(store', e.n, e.trade, {"CLOSED"})
    BY <2>1, <2>2 DEF SoleInv, CallInHand, EventHasRecord
  <2> HIDE DEF SentStatuses
  <2>. QED  BY <2>1, <2>2, <2>3, LeaveSole
<1>7. CASE AppendRequested(p)
  BY <1>7, AppendSole DEF AppendRequested
<1>8. CASE AppendDiscrepancy(p)
  BY <1>8, AppendSole DEF AppendDiscrepancy
<1>9. CASE AppendClosed(p)
  <2>1. /\ pc[p] = "closed" /\ Working(p) /\ store' = store /\ Leave(p)
        /\ UNCHANGED <<world, closedBy>> /\ events' = WithEvent(p, "TRADE_CLOSED")
        /\ view[p].events = events
    BY <1>9 DEF AppendClosed, SoleInv, ViewsFresh, Working, EventSteps
  <2>2. OnRecord(store, job[p].n, job[p].trade, {"CLOSED"})
    BY <2>1 DEF SoleInv, CallInHand
  <2>3. \A e \in events' : e.type = "TRADE_CLOSED" => OnRecord(store', e.n, e.trade, {"CLOSED"})
    BY <2>1, <2>2 DEF SoleInv, EventHasRecord, WithEvent
  <2>. QED  BY <2>1, <2>3, LeaveSole
<1>. QED
  BY <1>1, <1>2, <1>3, <1>4, <1>5, <1>6, <1>7, <1>8, <1>9 DEF FileWrite

LEMMA SoleEvents ==
  ASSUME SoleInv, Sole(world)
  PROVE  \A e \in events : e.type = "TRADE_CLOSED" => OnRecord(store, e.n, e.trade, {"CLOSED"})
BY DEF SoleInv, EventHasRecord

\* A copy read now is fresh; and a process never misses its own record.
LEMMA ReadsSole ==
  ASSUME TypeInv, CloseInv, SoleInv, Sole(world), NEW p \in Procs, FileRead(p)
  PROVE  SoleInv'
<1>1. CASE ReadStore(p) \/ ReadEvents(p)
  <2>1. /\ UNCHANGED <<world, store, events, closedBy, pc, job>>
        /\ \A q \in Procs : q # p => view'[q] = view[q]
        /\ pc[p] \in StoreSteps => view'[p].store = store
        /\ pc[p] \in EventSteps => view'[p].events = events
    BY <1>1 DEF ReadStore, ReadEvents, files, TypeInv, TypeOK, StoreSteps, EventSteps
  <2>. QED
    BY <2>1 DEF SoleInv, ViewsFresh, CallInHand, CloseAccounted, EventHasRecord, Working
<1>2. CASE RecordMissing(p)
  BY <1>2 DEF RecordMissing, SoleInv, CallInHand, Working, StoreSteps
<1>3. CASE AppendRaises(p)
  <2>1. pc[p] \in EventSteps /\ Working(p) /\ UNCHANGED <<world, store, events, closedBy>>
    BY <1>3 DEF AppendRaises, files, Working, EventSteps
  <2>2. CASE pc[p] = "requested"
    BY <1>3, <2>1, <2>2, SoleEvents, LeaveSole DEF AppendRaises
  <2>3. CASE pc[p] # "requested"
    <3>1. /\ pc' = [pc EXCEPT ![p] = "failed"] /\ view' = [view EXCEPT ![p] = NoView]
          /\ job' = job
      BY <1>3, <2>3 DEF AppendRaises, Goto
    <3>2. ~ view'[p].held /\ \A q \in Procs : q # p => view'[q] = view[q]
      BY <3>1 DEF NoView, TypeInv, TypeOK
    <3>3. pc[p] \notin Unsent
      BY <2>1, <2>3 DEF EventSteps, Unsent
    <3>. QED  BY <2>1, <3>1, <3>2, <3>3, QuietSole
  <2>. QED  BY <2>2, <2>3
<1>. QED  BY <1>1, <1>2, <1>3 DEF FileRead

\* The environment of a run is chosen once.
LEMMA WorldFixed == [Next]_vars => world' = world
<1>1. ASSUME NEW p \in Procs, FileRead(p) PROVE world' = world
  BY <1>1 DEF FileRead, files, ReadStore, RecordMissing, ReadEvents, AppendRaises
<1>2. ASSUME NEW p \in Procs, FileWrite(p) PROVE world' = world
  BY <1>2
  DEF FileWrite, CreateCloseAttempt, MarkSent, MarkReceived, MarkClosed, MarkDiscrepancy,
      MarkException, AppendRequested, AppendDiscrepancy, AppendClosed, Mark, ReplaceStore,
      AddEvent
<1>3. ASSUME NEW p \in Procs, Broker(p) \/ Poll(p) PROVE world' = world
  BY <1>3
  DEF Broker, Poll, files, BrokerCloses, BrokerDeclines, BrokerRefuses, PollOpen, PollNotOpen,
      PollRaises, StillOpen
<1>. QED
  BY <1>1, <1>2, <1>3 DEF Next, Run, vars, Call, Crash, OthersClose

LEMMA NextSole == TypeInv /\ CloseInv /\ SoleInv /\ [Next]_vars => SoleInv'
<1> SUFFICES ASSUME TypeInv, CloseInv, SoleInv, [Next]_vars, Sole(world) PROVE SoleInv'
  BY WorldFixed DEF SoleInv, Sole
<1>1. ASSUME NEW p \in Procs, FileRead(p) \/ FileWrite(p) PROVE SoleInv'
  BY <1>1, ReadsSole, WritesSole
<1>2. ASSUME NEW p \in Procs, Broker(p) PROVE SoleInv'
  <2>1. /\ pc[p] = "request" /\ view' = view /\ Working(p) /\ ~ view'[p].held
        /\ pc[p] \notin Unsent
    BY <1>2
    DEF Broker, BrokerCloses, BrokerDeclines, BrokerRefuses, Working, CloseInv, Found,
        StoreSteps, EventSteps, Unsent
  <2>. QED
    BY <1>2, <2>1, QuietSole
    DEF Broker, BrokerCloses, BrokerDeclines, BrokerRefuses, files, Goto
<1>3. ASSUME NEW p \in Procs, Poll(p) PROVE SoleInv'
  <2>1. /\ pc[p] = "poll" /\ view' = view /\ Working(p) /\ ~ view'[p].held
        /\ pc[p] \notin Unsent
    BY <1>3
    DEF Poll, PollOpen, PollNotOpen, PollRaises, StillOpen, Working, CloseInv, Found,
        StoreSteps, EventSteps, Unsent
  <2>2. PICK step \in {"poll", "close", "failed", "discrepancy"} :
           pc' = [pc EXCEPT ![p] = step]
    BY <1>3, <2>1 DEF Poll, PollOpen, PollNotOpen, PollRaises, StillOpen, Goto, TypeInv, TypeOK
  <2>. QED
    BY <1>3, <2>1, <2>2, QuietSole
    DEF Poll, PollOpen, PollNotOpen, PollRaises, StillOpen, files
<1>4. ASSUME NEW p \in Procs, Crash(p) PROVE SoleInv'
  BY <1>4, SoleEvents, LeaveSole DEF Crash, files, Working
<1>5. ASSUME NEW p \in Procs, NEW t \in Trades, Call(p, t) PROVE SoleInv'
  <2>1. /\ pc[p] = "idle" /\ pc'[p] = "create" /\ job'[p].n = calls + 1
        /\ \A q \in Procs : q # p => pc'[q] = pc[q] /\ job'[q] = job[q]
        /\ calls \in Nat /\ p \in world.crew
        /\ UNCHANGED <<world, store, events, closedBy, view>>
    BY <1>5 DEF Call, Goto, files, TypeInv, TypeOK
  <2>2. \A q \in Procs : q # p => ~ Working(q)
    BY <2>1 DEF CloseInv, OwnCalls, Sole
  <2>3. ViewsFresh'
    BY <2>1 DEF SoleInv, ViewsFresh, CloseInv, Found, StoreSteps, EventSteps
  <2>4. \A e \in events : e.n # calls + 1
    BY <2>1 DEF CloseInv, CopiesTrue, EventsTrue
  <2>5. CallInHand'
    BY <2>1, <2>2, <2>4 DEF CallInHand, Working, Unsent
  <2>6. CloseAccounted' /\ EventHasRecord'
    BY <2>1 DEF SoleInv, CloseAccounted, EventHasRecord
  <2>. QED  BY <2>3, <2>5, <2>6 DEF SoleInv
<1>6. CASE OthersClose
  BY <1>6
  DEF OthersClose, files, SoleInv, ViewsFresh, CallInHand, CloseAccounted, EventHasRecord, Working
<1>7. CASE UNCHANGED vars
  BY <1>7
  DEF vars, files, SoleInv, ViewsFresh, CallInHand, CloseAccounted, EventHasRecord, Working
<1>. QED
  BY <1>1, <1>2, <1>3, <1>4, <1>5, <1>6, <1>7 DEF Next, Run

LEMMA SoleInvariant == Spec => []SoleInv
<1>1. TypeInv /\ CloseInv /\ SoleInv /\ [Next]_vars => SoleInv'
  BY NextSole
<1>. QED  BY <1>1, InitSole, TypeInvariant, CloseInvariant, PTL DEF Spec

\* One process: wherever it crashed, timed out or raised, a close the broker
\* carried out for a call is on record, closed or asking for a look.
THEOREM EveryCloseAccounted == Spec => []CloseAccounted
<1>1. SoleInv => CloseAccounted
  BY DEF SoleInv, CloseAccounted
<1>. QED  BY <1>1, SoleInvariant, PTL

\* One process: a TRADE_CLOSED event never contradicts the record of its call.
THEOREM EveryEventRecorded == Spec => []EventHasRecord
<1>1. SoleInv => EventHasRecord
  BY DEF SoleInv, EventHasRecord
<1>. QED  BY <1>1, SoleInvariant, PTL
=============================================================================
