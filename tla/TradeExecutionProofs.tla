------------------------ MODULE TradeExecutionProofs ------------------------
(***************************************************************************)
(* Theorems about TradeExecution for all values of its constants: first    *)
(* types, audit, duplicates and the refinement of OrderAuthority; then     *)
(* what the records say of the orders, for any number of processes, and    *)
(* what is true of records and open trades when a sole process runs.       *)
(***************************************************************************)
EXTENDS TradeExecution, ExecutionStoreProofs, TLAPS

-----------------------------------------------------------------------------
\* Type correctness of what the file operations write, and of the constants.
LEMMA ConstantTypes ==
  /\ NoJob \in [req : Requests, n : Nat, id : RequestIds]
  /\ NoReply \in [tx : SUBSET Transactions, trade : Nat]
  /\ NoView \in [held : BOOLEAN, store : Seq(Record), events : SUBSET Event]
  /\ \A r \in Requests, n \in Nat : RequestId(r, n) \in RequestIds
  /\ \A tx : Parsed(tx) \in Statuses
<1>1. NoJob \in [req : Requests, n : Nat, id : RequestIds]
  BY ConstantsAssumption DEF NoJob, RequestIds
<1>2. NoReply \in [tx : SUBSET Transactions, trade : Nat]
  BY DEF NoReply, NoTrade
<1>3. NoView \in [held : BOOLEAN, store : Seq(Record), events : SUBSET Event]
  BY DEF NoView
<1>4. \A r \in Requests, n \in Nat : RequestId(r, n) \in RequestIds
  BY ConstantsAssumption DEF RequestId, RequestIds
<1>5. \A tx : Parsed(tx) \in Statuses
  BY DEF Parsed, Statuses, FinalStatuses
<1>. QED  BY <1>1, <1>2, <1>3, <1>4, <1>5

\* A broker's move, and a new order, keep the book a book.
LEMMA BookType ==
  ASSUME NEW b \in Seq(B!Order)
  PROVE  \A t : \A st \in B!OrderStates : B!Moved(b, t, st) \in Seq(B!Order)
<1>1. SUFFICES ASSUME NEW t, NEW st \in B!OrderStates
               PROVE  B!Moved(b, t, st) \in Seq(B!Order)
  OBVIOUS
<1> DEFINE c == B!Moved(b, t, st)
<1>2. c = [i \in DOMAIN b |-> IF i = t THEN [b[t] EXCEPT !.state = st] ELSE b[i]]
  BY DEF B!Moved
<1>3. \A i \in DOMAIN b : b[i] \in B!Order
  OBVIOUS
<1>4. \A i \in DOMAIN b : c[i] \in B!Order
  BY <1>2, <1>3 DEF B!Order
<1>5. c \in [1..Len(b) -> B!Order]
  BY <1>2, <1>4
<1>. QED  BY <1>5

LEMMA OrderInType ==
  ASSUME TypeOK, NEW p \in Procs, NEW st \in B!OrderStates
  PROVE  OrderIn(p, st) \in B!Order
BY ConstantsAssumption DEF TypeOK, OrderIn, B!Order
-----------------------------------------------------------------------------
(***************************************************************************)
(* Type correctness.                                                       *)
(***************************************************************************)
LEMMA InitType == Init => TypeOK
BY ConstantTypes, ConstantsAssumption DEF Init, TypeOK, Steps, NoTrade

\* The shapes the actions are built from.
LEMMA LeaveType ==
  ASSUME TypeOK, NEW p \in Procs, NEW step \in Steps, LeaveTo(p, step),
         store' = store, events' = events, book' \in Seq(B!Order),
         UNCHANGED <<now, dotenv, missed, attempts, env>>
  PROVE  TypeOK'
<1>1. /\ pc' \in [Procs -> Steps]
      /\ doomed' \in [Procs -> SUBSET Nat]
  BY DEF TypeOK, LeaveTo, Goto
<1>2. /\ job' \in [Procs -> [req : Requests, n : Nat, id : RequestIds]]
      /\ reply' \in [Procs -> [tx : SUBSET Transactions, trade : Nat]]
  BY ConstantTypes DEF TypeOK, LeaveTo
<1>3. view' \in [Procs -> [held : BOOLEAN, store : Seq(Record), events : SUBSET Event]]
  BY ConstantTypes DEF TypeOK, LeaveTo
<1>. QED  BY <1>1, <1>2, <1>3 DEF TypeOK

LEMMA ReplaceStoreType ==
  ASSUME TypeOK, NEW p \in Procs, NEW s \in Seq(Record), NEW step \in Steps,
         ReplaceStore(p, s, step)
  PROVE  TypeOK'
<1>1. view' \in [Procs -> [held : BOOLEAN, store : Seq(Record), events : SUBSET Event]]
  BY ConstantTypes DEF TypeOK, ReplaceStore
<1>. QED  BY <1>1 DEF TypeOK, ReplaceStore, Goto, local

LEMMA AddEventType ==
  ASSUME TypeOK, NEW p \in Procs, NEW type \in EventTypes, NEW step \in Steps,
         AddEvent(p, type, step)
  PROVE  TypeOK'
<1>1. view' \in [Procs -> [held : BOOLEAN, store : Seq(Record), events : SUBSET Event]]
  BY ConstantTypes DEF TypeOK, AddEvent
<1>2. [type |-> type, n |-> job[p].n, trade |-> reply[p].trade] \in Event
  BY DEF TypeOK, Event
<1>3. events' \subseteq Event
  BY <1>2 DEF TypeOK, AddEvent
<1>. QED  BY <1>1, <1>3 DEF TypeOK, AddEvent, Goto, local

LEMMA PlacedType ==
  ASSUME TypeOK, NEW p \in Procs, Placed(p), book' \in Seq(B!Order),
         NEW tx \in SUBSET Transactions, NEW trade \in Nat,
         \/ Answer(p, tx, trade)
         \/ Goto(p, "failed") /\ UNCHANGED reply
  PROVE  TypeOK'
<1>1. pc' \in [Procs -> Steps]
  BY DEF TypeOK, Answer, Goto, Steps, StoreSteps
<1>2. reply' \in [Procs -> [tx : SUBSET Transactions, trade : Nat]]
  BY DEF TypeOK, Answer
<1>. QED  BY <1>1, <1>2 DEF TypeOK, Placed, files

LEMMA NextType == TypeOK /\ [Next]_vars => TypeOK'
<1> SUFFICES ASSUME TypeOK, [Next]_vars
             PROVE  TypeOK'
  OBVIOUS
<1> USE ConstantTypes
<1>a. ASSUME NEW st \in B!OrderStates, NEW p \in Procs
      PROVE  Append(book, OrderIn(p, st)) \in Seq(B!Order)
  BY OrderInType DEF TypeOK
<1>b. ASSUME NEW p \in Procs
      PROVE  /\ view[p].store \in Seq(Record)
             /\ job[p].n \in Nat /\ job[p].id \in RequestIds /\ job[p].req \in Requests
             /\ reply[p].trade \in Nat /\ now \in Nat
  BY DEF TypeOK
<1>c. \A t : \A st \in B!OrderStates : B!Moved(book, t, st) \in Seq(B!Order)
  BY BookType DEF TypeOK
<1>1. ASSUME NEW p \in Procs, Start(p) PROVE TypeOK'
  BY <1>1 DEF Start, TypeOK, Steps, StoreSteps, EventSteps, files, local, Goto
<1>2. ASSUME NEW p \in Procs, Refuse(p) PROVE TypeOK'
  BY <1>2, LeaveType DEF Refuse, Leave, TypeOK, Steps, files
<1>d. ASSUME NEW p \in Procs PROVE OpenOnSymbol(p) \subseteq Nat
  BY DEF OpenOnSymbol, B!OpenOn, TypeOK
<1>3. ASSUME NEW p \in Procs, PassPolicy(p) PROVE TypeOK'
  <2>1. missed' \subseteq Nat
    BY <1>3, <1>d DEF PassPolicy, Unaware, TypeOK
  <2>. QED
    BY <1>3, <2>1
    DEF PassPolicy, TypeOK, Steps, StoreSteps, EventSteps, files, local, Goto
<1>4. ASSUME NEW p \in Procs, CloseExistingFirst(p) PROVE TypeOK'
  BY <1>4 DEF CloseExistingFirst, TypeOK, Steps, StoreSteps, EventSteps, files, local, Goto
<1>5. ASSUME NEW p \in Procs, ListExisting(p) PROVE TypeOK'
  <2>1. missed' \subseteq Nat
    BY <1>5, <1>d DEF ListExisting, Unaware, TypeOK
  <2>2. doomed' \in [Procs -> SUBSET Nat]
    BY <1>5, <1>d DEF ListExisting, TypeOK
  <2>. QED
    BY <1>5, <2>1, <2>2 DEF ListExisting, TypeOK, Steps, files, Goto
<1>6. ASSUME NEW p \in Procs, CloseExisting(p) PROVE TypeOK'
  <2>1. PICK t \in doomed[p] :
          /\ book' = book \/ book' = B!Moved(book, t, "CLOSED")
          /\ missed' = missed \/ missed' = missed \cup {t}
          /\ doomed' = [doomed EXCEPT ![p] = @ \ {t}]
    BY <1>6 DEF CloseExisting
  <2>2. book' \in Seq(B!Order)
    BY <1>c, <2>1 DEF B!OrderStates, TypeOK
  <2>3. doomed' \in [Procs -> SUBSET Nat] /\ missed' \subseteq Nat
    BY <2>1 DEF TypeOK
  <2>. QED  BY <1>6, <2>2, <2>3 DEF CloseExisting, TypeOK, files
<1>7. ASSUME NEW p \in Procs, CloseExistingRaises(p) PROVE TypeOK'
  <2>1. book' \in Seq(B!Order)
    BY <1>7, <1>c DEF CloseExistingRaises, B!OrderStates, TypeOK
  <2>. QED  BY <1>7, <2>1, LeaveType DEF CloseExistingRaises, Leave, Steps, files
<1>8. ASSUME NEW p \in Procs, ExistingClosed(p) PROVE TypeOK'
  BY <1>8 DEF ExistingClosed, TypeOK, Steps, StoreSteps, EventSteps, files, local, Goto
<1>9. ASSUME NEW p \in Procs, ReadStore(p) PROVE TypeOK'
  <2>1. view' \in [Procs -> [held : BOOLEAN, store : Seq(Record), events : SUBSET Event]]
    BY <1>9 DEF ReadStore, TypeOK
  <2>. QED  BY <1>9, <2>1 DEF ReadStore, TypeOK, files, local
<1>10. ASSUME NEW p \in Procs, RecordMissing(p) PROVE TypeOK'
  <2>1. CASE Leave(p)
    BY <1>10, <2>1, LeaveType DEF RecordMissing, Leave, TypeOK, Steps, files
  <2>2. CASE Goto(p, "failed") /\ UNCHANGED <<local, view>>
    BY <1>10, <2>2 DEF RecordMissing, TypeOK, Steps, StoreSteps, EventSteps, files, local, Goto
  <2>. QED  BY <1>10, <2>1, <2>2 DEF RecordMissing
<1>11. ASSUME NEW p \in Procs, ReadEvents(p) PROVE TypeOK'
  <2>1. view' \in [Procs -> [held : BOOLEAN, store : Seq(Record), events : SUBSET Event]]
    BY <1>11 DEF ReadEvents, TypeOK
  <2>. QED  BY <1>11, <2>1 DEF ReadEvents, TypeOK, files, local
<1>12. ASSUME NEW p \in Procs, CreateAttempt(p) PROVE TypeOK'
  <2>1. KeyOf[job[p].req] \in Keys
    BY <1>b, ConstantsAssumption
  <2>. QED
    BY <1>12, <1>b, <2>1, AttemptRecordType, ReplaceStoreType
    DEF CreateAttempt, Steps, EventSteps
<1>13. ASSUME NEW p \in Procs, AppendSubmitted(p) PROVE TypeOK'
  BY <1>13, AddEventType DEF AppendSubmitted, EventTypes, Steps, StoreSteps, EventSteps
<1>14. ASSUME NEW p \in Procs, MarkSent(p) PROVE TypeOK'
  BY <1>14, <1>b, WithStatusType, ReplaceStoreType
  DEF MarkSent, Statuses, UnfinishedStatuses, OpenUnfinished, FinalStatuses, Steps,
      StoreSteps, EventSteps
<1>15. ASSUME NEW p \in Procs, OrderFilled(p) PROVE TypeOK'
  <2>1. Len(book) + 1 \in Nat
    BY DEF TypeOK
  <2>. QED
    BY <1>15, <1>a, <2>1, PlacedType DEF OrderFilled, B!OrderStates, Transactions
<1>16. ASSUME NEW p \in Procs, OrderNetted(p) PROVE TypeOK'
  <2>1. PICK t \in B!Against(book, SymbolOf[job[p].req], SideOf[job[p].req]) :
           book' = Append(B!Moved(book, t, "CLOSED"), OrderIn(p, "NETTED"))
    BY <1>16 DEF OrderNetted
  <2>2. book' \in Seq(B!Order)
    BY <1>c, <2>1, OrderInType DEF B!OrderStates
  <2>. QED
    BY <1>16, <2>2, PlacedType DEF OrderNetted, Transactions, NoTrade
<1>17. ASSUME NEW p \in Procs, OrderCanceled(p) PROVE TypeOK'
  BY <1>17, <1>a, PlacedType DEF OrderCanceled, B!OrderStates, Transactions, NoTrade
<1>18. ASSUME NEW p \in Procs, OrderRests(p) PROVE TypeOK'
  BY <1>18, <1>a, PlacedType DEF OrderRests, B!OrderStates, Transactions, NoTrade
<1>19. ASSUME NEW p \in Procs, OrderRefused(p) PROVE TypeOK'
  <2>1. book' \in Seq(B!Order)
    BY <1>19 DEF OrderRefused, TypeOK
  <2>. QED  BY <1>19, <2>1, PlacedType DEF OrderRefused
<1>20. ASSUME NEW p \in Procs, OrderLate(p) PROVE TypeOK'
  <2>1. book' \in Seq(B!Order)
    BY <1>20, <1>a DEF OrderLate, B!OrderStates
  <2>. QED  BY <1>20, <2>1, PlacedType DEF OrderLate
<1>21. ASSUME NEW p \in Procs, MarkReceived(p) PROVE TypeOK'
  BY <1>21, <1>b, WithStatusType, ReplaceStoreType
  DEF MarkReceived, Statuses, UnfinishedStatuses, OpenUnfinished, FinalStatuses, Steps,
      StoreSteps, EventSteps
<1>22. ASSUME NEW p \in Procs, MarkResult(p) PROVE TypeOK'
  <2>1. WithResult(view[p].store, job[p].id, Parsed(reply[p].tx), reply[p].trade)
          \in Seq(Record)
    BY <1>b, WithResultType
  <2>. QED
    BY <1>22, <2>1, ReplaceStoreType DEF MarkResult, Steps, EventSteps
<1>23. ASSUME NEW p \in Procs, AppendOutcome(p) PROVE TypeOK'
  BY <1>23, AddEventType DEF AppendOutcome, EventTypes, Steps, StoreSteps, EventSteps
<1>24. ASSUME NEW p \in Procs, AppendRaises(p) PROVE TypeOK'
  <2>1. CASE Leave(p)
    BY <1>24, <2>1, LeaveType DEF AppendRaises, Leave, TypeOK, Steps, files
  <2>2. CASE /\ Goto(p, "failed")
             /\ view' = [view EXCEPT ![p] = NoView]
             /\ UNCHANGED local
    <3>1. view' \in [Procs -> [held : BOOLEAN, store : Seq(Record), events : SUBSET Event]]
      BY <2>2 DEF TypeOK
    <3>. QED  BY <1>24, <2>2, <3>1 DEF AppendRaises, TypeOK, Steps, StoreSteps, EventSteps, files, local, Goto
  <2>. QED  BY <1>24, <2>1, <2>2 DEF AppendRaises
<1>25. ASSUME NEW p \in Procs, Verified(p) PROVE TypeOK'
  BY <1>25, LeaveType DEF Verified, Leave, TypeOK, Steps, files
<1>26. ASSUME NEW p \in Procs, Discrepancy(p) PROVE TypeOK'
  BY <1>26 DEF Discrepancy, TypeOK, Steps, StoreSteps, EventSteps, files, local, Goto
<1>27. ASSUME NEW p \in Procs, LookupRaises(p) PROVE TypeOK'
  BY <1>27 DEF LookupRaises, TypeOK, Steps, StoreSteps, EventSteps, files, local, Goto
<1>28. ASSUME NEW p \in Procs, MarkDiscrepancy(p) PROVE TypeOK'
  BY <1>28, <1>b, WithStatusType, ReplaceStoreType
  DEF MarkDiscrepancy, Statuses, UnfinishedStatuses, OpenUnfinished, FinalStatuses, Steps,
      StoreSteps, EventSteps
<1>29. ASSUME NEW p \in Procs, AppendDiscrepancy(p) PROVE TypeOK'
  BY <1>29, AddEventType DEF AppendDiscrepancy, EventTypes, Steps, StoreSteps, EventSteps
<1>30. ASSUME NEW p \in Procs, MarkException(p) PROVE TypeOK'
  <2>1. store' \in Seq(Record)
    BY <1>30, <1>b, WithStatusType DEF MarkException, Statuses, FinalStatuses
  <2>2. /\ pc' \in [Procs -> Steps]
        /\ doomed' \in [Procs -> SUBSET Nat]
    BY <1>30 DEF MarkException, Leave, LeaveTo, Goto, TypeOK, Steps
  <2>3. /\ job' \in [Procs -> [req : Requests, n : Nat, id : RequestIds]]
        /\ reply' \in [Procs -> [tx : SUBSET Transactions, trade : Nat]]
    BY <1>30 DEF MarkException, Leave, LeaveTo, TypeOK
  <2>4. view' \in [Procs -> [held : BOOLEAN, store : Seq(Record), events : SUBSET Event]]
    BY <1>30 DEF MarkException, Leave, LeaveTo, TypeOK
  <2>. QED  BY <1>30, <2>1, <2>2, <2>3, <2>4 DEF MarkException, TypeOK
<1>31. ASSUME NEW p \in Procs, Crash(p) PROVE TypeOK'
  BY <1>31, LeaveType DEF Crash, Leave, TypeOK, Steps, files
<1>32. ASSUME NEW p \in Procs, NEW r \in Requests, Submit(p, r) PROVE TypeOK'
  <2>1. RequestId(r, attempts + 1) \in RequestIds /\ attempts + 1 \in Nat
    BY DEF TypeOK
  <2>2. job' \in [Procs -> [req : Requests, n : Nat, id : RequestIds]]
    BY <1>32, <2>1 DEF Submit, TypeOK
  <2>. QED  BY <1>32, <2>1, <2>2 DEF Submit, TypeOK, Goto, Steps, files
<1>33. CASE EditSettings
  BY <1>33, ConstantsAssumption DEF EditSettings, TypeOK, files, local
<1>34. CASE Tick
  BY <1>34 DEF Tick, TypeOK, files, local
<1>35. CASE BrokerActs
  <2>1. book' \in Seq(B!Order)
    BY <1>35, <1>c DEF BrokerActs, B!BrokerMove, B!OrderStates
  <2>. QED  BY <1>35, <2>1 DEF BrokerActs, TypeOK, files, local
<1>36. CASE UNCHANGED vars
  BY <1>36 DEF vars, TypeOK, files, local
<1>. QED
  BY <1>1, <1>2, <1>3, <1>4, <1>5, <1>6, <1>7, <1>8, <1>9, <1>10, <1>11, <1>12,
     <1>13, <1>14, <1>15, <1>16, <1>17, <1>18, <1>19, <1>20, <1>21, <1>22, <1>23, <1>24,
     <1>25, <1>26, <1>27, <1>28, <1>29, <1>30, <1>31, <1>32, <1>33, <1>34, <1>35, <1>36
  DEF Next, Run, Policy, FileRead, FileWrite, PlaceOrder, Verify

\* Every variable always has its type, for any number of processes and any
\* faults.
THEOREM TypeCorrect == Spec => []TypeOK
<1>. QED  BY InitType, NextType, PTL DEF Spec
-----------------------------------------------------------------------------
(***************************************************************************)
(* A sole process: every order is announced, and no key is used twice in   *)
(* the window.                                                             *)
(***************************************************************************)

\* The same attempts, whatever is known of them by now.
SameAttempts(s, t) ==
  /\ DOMAIN t = DOMAIN s
  /\ \A i \in DOMAIN s : t[i].n = s[i].n /\ t[i].key = s[i].key
                            /\ t[i].created = s[i].created

\* The same orders, whatever became of them.
SameOrders(b, c) ==
  /\ DOMAIN c = DOMAIN b
  /\ \A t \in DOMAIN b : c[t].n = b[t].n /\ c[t].key = b[t].key /\ c[t].at = b[t].at

\* update_attempt touches neither the key nor the creation of any record.
LEMMA UpdateKeepsAttempts ==
  ASSUME NEW s \in Seq(Record), NEW id, NEW st, NEW tr
  PROVE  /\ SameAttempts(s, WithStatus(s, id, st))
         /\ SameAttempts(s, WithResult(s, id, st, tr))
<1> DEFINE k == First(s, id)
           t == WithStatus(s, id, st)
           u == WithResult(s, id, st, tr)
<1>1. t = [i \in DOMAIN s |-> IF i = k THEN [s[k] EXCEPT !.status = st] ELSE s[i]]
  BY DEF WithStatus
<1>2. u = [i \in DOMAIN s |->
             IF i = k THEN [[s[k] EXCEPT !.status = st] EXCEPT !.trade = tr] ELSE s[i]]
  BY DEF WithResult
<1>3. \A i \in DOMAIN s : s[i] \in Record
  OBVIOUS
<1>4. SameAttempts(s, t)
  BY <1>1, <1>3 DEF SameAttempts, Record
<1>5. SameAttempts(s, u)
  BY <1>2, <1>3 DEF SameAttempts, Record
<1>. QED  BY <1>4, <1>5

LEMMA MoveKeepsOrders ==
  ASSUME NEW b \in Seq(B!Order), NEW t, NEW st
  PROVE  SameOrders(b, B!Moved(b, t, st))
<1> DEFINE c == B!Moved(b, t, st)
<1>1. c = [i \in DOMAIN b |-> IF i = t THEN [b[t] EXCEPT !.state = st] ELSE b[i]]
  BY DEF B!Moved
<1>2. \A i \in DOMAIN b : b[i] \in B!Order
  OBVIOUS
<1>. QED  BY <1>1, <1>2 DEF SameOrders, B!Order

\* A step within one phase of an attempt, of the process or of its environment.
LEMMA PhaseStep ==
  ASSUME TypeOK, IInv, SoleProcess, NEW p \in Procs, NEW step \in Steps,
         SameAttempts(store, store'), SameOrders(book, book'), events \subseteq events',
         now' = now, attempts' = attempts, job' = job,
         pc' = [pc EXCEPT ![p] = step], ~ view'[p].held,
         Working(p), step \notin {"down", "idle"},
         pc[p] \in BeforeRecord <=> step \in BeforeRecord,
         pc[p] \in BeforeEvent => step \in BeforeEvent,
         step \in BeforeOrder => pc[p] \in BeforeOrder
  PROVE  IInv'
<1>1. \A q \in Procs : q = p
  BY DEF SoleProcess
<1>2. pc'[p] = step
  BY DEF TypeOK
<1>3. ViewsFresh'
  BY <1>1 DEF ViewsFresh
<1>4. InOrder'
  BY <1>1 DEF IInv, InOrder, SameAttempts, SameOrders, Working
<1>5. AttemptInHand'
  BY <1>1, <1>2 DEF IInv, AttemptInHand, SameAttempts, SameOrders, Working
<1>6. OrderAudited'
  BY DEF IInv, OrderAudited, SameAttempts, SameOrders
<1>7. Spaced'
  BY DEF IInv, Spaced, SameAttempts, SameOrders
<1>. QED  BY <1>3, <1>4, <1>5, <1>6, <1>7 DEF IInv

\* The process comes to rest.
LEMMA RestStep ==
  ASSUME TypeOK, IInv, SoleProcess, NEW p \in Procs, NEW step \in {"down", "idle"},
         SameAttempts(store, store'), SameOrders(book, book'), events' = events,
         now' = now, attempts' = attempts,
         pc' = [pc EXCEPT ![p] = step], ~ view'[p].held
  PROVE  IInv'
<1>1. \A q \in Procs : q = p
  BY DEF SoleProcess
<1>2. pc'[p] = step
  BY DEF TypeOK
<1>3. ViewsFresh'
  BY <1>1 DEF ViewsFresh
<1>4. InOrder'
  BY <1>1, <1>2 DEF IInv, InOrder, SameAttempts, SameOrders, Working
<1>5. AttemptInHand'
  BY <1>1, <1>2 DEF IInv, AttemptInHand, Working, BeforeRecord, BeforeOrder, BeforeEvent
<1>6. OrderAudited'
  BY DEF IInv, OrderAudited, SameAttempts, SameOrders
<1>7. Spaced'
  BY DEF IInv, Spaced, SameAttempts, SameOrders
<1>. QED  BY <1>3, <1>4, <1>5, <1>6, <1>7 DEF IInv

\* An order reaches the broker.
LEMMA OrderStep ==
  ASSUME TypeOK, IInv, SoleProcess, NEW p \in Procs, Placed(p),
         NEW b \in Seq(B!Order), SameOrders(book, b), NEW st \in B!OrderStates,
         book' = Append(b, OrderIn(p, st)),
         NEW step \in {"received", "failed"}, pc' = [pc EXCEPT ![p] = step]
  PROVE  IInv'
<1>1. \A q \in Procs : q = p
  BY DEF SoleProcess
<1>2. pc'[p] = step /\ pc[p] = "place" /\ Working(p)
  BY DEF TypeOK, Placed, Working
<1>3. /\ store' = store /\ events' = events /\ now' = now /\ attempts' = attempts
      /\ job' = job /\ view' = view
  BY DEF Placed, files
<1>4. DOMAIN book = 1..Len(book) /\ DOMAIN b = 1..Len(b) /\ Len(b) = Len(book)
  BY DEF TypeOK, SameOrders
<1>5. /\ DOMAIN book' = 1..(Len(book) + 1)
      /\ \A t \in 1..Len(book) : book'[t] = b[t]
      /\ book'[Len(book) + 1] = OrderIn(p, st)
  BY <1>4, OrderInType DEF TypeOK
<1>6. job[p].n = attempts /\ attempts \in Nat /\ attempts >= 1
  BY <1>2 DEF IInv, InOrder, TypeOK
<1>7. PICK i \in DOMAIN store :
         store[i].n = job[p].n /\ store[i].key = KeyOf[job[p].req]
  BY <1>2 DEF IInv, AttemptInHand, BeforeRecord, Working
<1>8. \E e \in events : e.type = "ORDER_SUBMITTED" /\ e.n = job[p].n
  BY <1>2 DEF IInv, AttemptInHand, BeforeRecord, BeforeEvent, Working
<1>9. \A t \in DOMAIN book : book[t].n # job[p].n
  BY <1>2 DEF IInv, AttemptInHand, BeforeOrder
<1>10. ViewsFresh'
  BY <1>1, <1>2, <1>3 DEF IInv, ViewsFresh, StoreSteps, EventSteps
<1>11. InOrder'
  <2>1. \A t \in DOMAIN book' : book'[t].n \in 1..attempts
    BY <1>4, <1>5, <1>6 DEF IInv, InOrder, SameOrders, OrderIn
  <2>2. \A t \in 1..Len(book) : book[t].n < attempts
    BY <1>4, <1>6, <1>9 DEF IInv, InOrder, TypeOK
  <2>3. ASSUME NEW t \in DOMAIN book', NEW u \in DOMAIN book', t < u
        PROVE  book'[t].n < book'[u].n
    <3>1. t \in 1..Len(book)
      BY <1>5, <2>3 DEF TypeOK
    <3>2. CASE u \in 1..Len(book)
      BY <1>4, <1>5, <2>3, <3>1, <3>2 DEF IInv, InOrder, SameOrders
    <3>3. CASE u = Len(book) + 1
      <4>1. book'[t].n = book[t].n
        BY <1>4, <1>5, <3>1 DEF SameOrders
      <4>2. book'[u].n = attempts
        BY <1>5, <1>6, <3>3 DEF OrderIn
      <4>. QED  BY <2>2, <3>1, <4>1, <4>2
    <3>. QED  BY <1>5, <3>2, <3>3 DEF TypeOK
  <2>. QED
    BY <1>1, <1>2, <1>3, <2>1, <2>3 DEF IInv, InOrder, Working
<1>12. AttemptInHand'
  BY <1>1, <1>2, <1>3, <1>7, <1>8
  DEF AttemptInHand, Working, BeforeRecord, BeforeEvent, BeforeOrder
<1>13. OrderAudited'
  <2>1. ASSUME NEW t \in DOMAIN book'
        PROVE  /\ \E k \in DOMAIN store : store[k].n = book'[t].n /\ store[k].key = book'[t].key
               /\ \E e \in events : e.type = "ORDER_SUBMITTED" /\ e.n = book'[t].n
    <3>1. CASE t \in 1..Len(book)
      BY <1>4, <1>5, <3>1 DEF IInv, OrderAudited, SameOrders
    <3>2. CASE t = Len(book) + 1
      <4>1. book'[t].n = job[p].n /\ book'[t].key = KeyOf[job[p].req]
        BY <1>5, <3>2 DEF OrderIn
      <4>. QED  BY <1>7, <1>8, <4>1
    <3>. QED  BY <1>5, <2>1, <3>1, <3>2
  <2>. QED  BY <1>3, <2>1 DEF OrderAudited
<1>14. Spaced'
  <2>1. ASSUME NEW t \in DOMAIN book', NEW k \in DOMAIN store, store[k].n = book'[t].n
        PROVE  book'[t].at >= store[k].created
    <3>1. CASE t \in 1..Len(book)
      BY <1>4, <1>5, <2>1, <3>1 DEF IInv, Spaced, SameOrders
    <3>2. CASE t = Len(book) + 1
      <4>1. book'[t].at = now
        BY <1>5, <3>2 DEF OrderIn
      <4>2. store[k] \in Record /\ store[k].created <= now
        BY DEF IInv, InOrder, TypeOK
      <4>. QED  BY <4>1, <4>2 DEF TypeOK, Record
    <3>. QED  BY <1>5, <3>1, <3>2 DEF TypeOK
  <2>. QED  BY <1>3, <2>1 DEF IInv, Spaced
<1>. QED  BY <1>10, <1>11, <1>12, <1>13, <1>14 DEF IInv

\* update_attempt: the file is replaced by what was read of it, updated.
LEMMA UpdateStep ==
  ASSUME TypeOK, IInv, SoleProcess, NEW p \in Procs, NEW contents, NEW next \in Steps,
         ReplaceStore(p, contents, next), SameAttempts(view[p].store, contents),
         pc[p] \in StoreSteps \ {"create"}, next \notin {"down", "idle"} \cup BeforeRecord,
         pc[p] \in BeforeEvent => next \in BeforeEvent,
         next \in BeforeOrder => pc[p] \in BeforeOrder
  PROVE  IInv'
<1>1. view[p].store = store
  BY DEF IInv, ViewsFresh, ReplaceStore
<1>2. SameOrders(book, book') /\ events \subseteq events' /\ now' = now
      /\ attempts' = attempts /\ job' = job
  BY DEF ReplaceStore, SameOrders, local
<1>3. pc' = [pc EXCEPT ![p] = next] /\ ~ view'[p].held
  BY DEF ReplaceStore, Goto, TypeOK, NoView
<1>4. Working(p) /\ pc[p] \notin BeforeRecord
  BY DEF Working, StoreSteps, BeforeRecord
<1>. QED  BY <1>1, <1>2, <1>3, <1>4, PhaseStep DEF ReplaceStore

\* EventStore.append after the order is announced.
LEMMA EventStep ==
  ASSUME TypeOK, IInv, SoleProcess, NEW p \in Procs, NEW type, NEW next \in Steps,
         AddEvent(p, type, next), pc[p] \in {"outcome", "flag"},
         next \notin {"down", "idle"} \cup BeforeOrder
  PROVE  IInv'
<1>1. view[p].events = events
  BY DEF IInv, ViewsFresh, AddEvent, EventSteps
<1>2. SameOrders(book, book') /\ events \subseteq events' /\ now' = now
      /\ attempts' = attempts /\ job' = job /\ SameAttempts(store, store')
  BY <1>1 DEF AddEvent, SameOrders, SameAttempts, local
<1>3. pc' = [pc EXCEPT ![p] = next] /\ ~ view'[p].held
  BY DEF AddEvent, Goto, TypeOK, NoView
<1>4. Working(p) /\ pc[p] \notin BeforeOrder /\ next \notin BeforeEvent
      /\ next \notin BeforeRecord /\ pc[p] \notin BeforeRecord /\ pc[p] \notin BeforeEvent
  BY DEF Working, BeforeRecord, BeforeEvent, BeforeOrder
<1>. QED  BY <1>2, <1>3, <1>4, PhaseStep

\* A step that leaves the files, the clock and the process's view alone.
LEMMA QuietStep ==
  ASSUME TypeOK, IInv, SoleProcess, NEW p \in Procs, NEW step \in Steps,
         UNCHANGED <<now, files, attempts, job>>, SameOrders(book, book'),
         pc' = [pc EXCEPT ![p] = step], view' = view \/ ~ view'[p].held,
         pc[p] \notin StoreSteps \cup EventSteps \/ ~ view'[p].held,
         Working(p), step \notin {"down", "idle"},
         pc[p] \in BeforeRecord <=> step \in BeforeRecord,
         pc[p] \in BeforeEvent => step \in BeforeEvent,
         step \in BeforeOrder => pc[p] \in BeforeOrder
  PROVE  IInv'
<1>1. ~ view'[p].held
  BY DEF IInv, ViewsFresh
<1>2. SameAttempts(store, store') /\ events \subseteq events' /\ now' = now
      /\ attempts' = attempts /\ job' = job
  BY DEF SameAttempts, files
<1>. QED  BY <1>1, <1>2, PhaseStep

\* create_attempt of a sole process: the record of the attempt in hand, whose
\* key has none in the window.
LEMMA CreateStep ==
  ASSUME TypeOK, IInv, SoleProcess, NEW p \in Procs, CreateAttempt(p)
  PROVE  IInv'
<1> DEFINE r == AttemptRecord(job[p].n, job[p].id, KeyOf[job[p].req], now)
<1>1. \A q \in Procs : q = p
  BY DEF SoleProcess
<1>2. /\ pc[p] = "create" /\ pc'[p] = "submitted" /\ ~ view'[p].held
      /\ events' = events /\ book' = book /\ now' = now /\ attempts' = attempts
      /\ job' = job
  BY DEF CreateAttempt, ReplaceStore, Goto, TypeOK, NoView, local
<1>3. view[p].store = store
  BY <1>2 DEF CreateAttempt, ReplaceStore, IInv, ViewsFresh, StoreSteps
<1>4. r \in Record
  <2>1. job[p] \in [req : Requests, n : Nat, id : RequestIds] /\ now \in Nat
    BY DEF TypeOK
  <2>2. KeyOf[job[p].req] \in Keys
    BY <2>1, ConstantsAssumption
  <2>3. store \in Seq(Record)
    BY DEF TypeOK
  <2>. QED  BY <2>1, <2>2, <2>3, AttemptRecordType
<1>5. /\ store' = Append(store, r)
      /\ DOMAIN store = 1..Len(store)
      /\ DOMAIN store' = 1..(Len(store) + 1)
      /\ \A i \in 1..Len(store) : store'[i] = store[i]
      /\ store'[Len(store) + 1] = r
  BY <1>3, <1>4 DEF CreateAttempt, ReplaceStore, TypeOK
<1>6. /\ job[p].n = attempts /\ attempts \in Nat /\ attempts >= 1 /\ now \in Nat
      /\ Working(p) /\ Len(store) \in Nat
  <2>1. Working(p)
    BY <1>2 DEF Working
  <2>2. Len(store) \in Nat /\ attempts \in Nat /\ now \in Nat
    BY DEF TypeOK
  <2>. QED  BY <2>1, <2>2 DEF IInv, InOrder
<1>7. r.n = attempts /\ r.key = KeyOf[job[p].req] /\ r.created = now
  BY <1>6 DEF AttemptRecord
<1>8. \A i \in 1..Len(store) :
        /\ store[i].n < attempts
        /\ store[i].key = r.key => now > store[i].created + Window
  <2>1. ASSUME NEW i \in 1..Len(store)
        PROVE  /\ store[i].n \in 1..attempts /\ store[i].n # attempts
               /\ store[i].key = r.key => now > store[i].created + Window
    BY <1>2, <1>5, <1>6, <1>7 DEF IInv, InOrder, AttemptInHand, BeforeRecord
  <2>. QED  BY <1>6, <2>1
<1>9. ViewsFresh'
  BY <1>1, <1>2 DEF ViewsFresh
<1>10. InOrder'
  <2>1. \A i \in DOMAIN store' : store'[i].n \in 1..attempts /\ store'[i].created <= now
    BY <1>5, <1>6, <1>7 DEF IInv, InOrder
  <2>2. ASSUME NEW i \in DOMAIN store', NEW j \in DOMAIN store', i < j
        PROVE  store'[i].n < store'[j].n
    <3>1. i \in 1..Len(store)
      BY <1>5, <1>6, <2>2
    <3>2. CASE j \in 1..Len(store)
      BY <1>5, <2>2, <3>1, <3>2 DEF IInv, InOrder
    <3>3. CASE j = Len(store) + 1
      BY <1>5, <1>7, <1>8, <3>1, <3>3
    <3>. QED  BY <1>5, <1>6, <3>2, <3>3
  <2>. QED  BY <1>1, <1>2, <1>6, <2>1, <2>2 DEF IInv, InOrder
<1>11. AttemptInHand'
  <2>1. \E i \in DOMAIN store' :
           store'[i].n = job[p].n /\ store'[i].key = KeyOf[job[p].req]
    BY <1>5, <1>6, <1>7
  <2>2. \A t \in DOMAIN book : book[t].n # job[p].n
    BY <1>2 DEF IInv, AttemptInHand, BeforeOrder, BeforeEvent, BeforeRecord
  <2>. QED
    BY <1>1, <1>2, <2>1, <2>2 DEF AttemptInHand, BeforeRecord, BeforeEvent, Working
<1>12. OrderAudited'
  BY <1>2, <1>5, <1>6 DEF IInv, OrderAudited
<1>13. Spaced'
  <2>1. ASSUME NEW i \in DOMAIN store', NEW j \in DOMAIN store', i < j,
               store'[i].key = store'[j].key
        PROVE  store'[j].created > store'[i].created + Window
    <3>1. i \in 1..Len(store)
      BY <1>5, <1>6, <2>1
    <3>2. CASE j \in 1..Len(store)
      BY <1>5, <2>1, <3>1, <3>2 DEF IInv, Spaced
    <3>3. CASE j = Len(store) + 1
      BY <1>5, <1>7, <1>8, <2>1, <3>1, <3>3
    <3>. QED  BY <1>5, <1>6, <3>2, <3>3
  <2>2. ASSUME NEW t \in DOMAIN book, NEW i \in DOMAIN store', store'[i].n = book[t].n
        PROVE  book[t].at >= store'[i].created
    <3>1. book[t].n # attempts
      BY <1>2, <1>6 DEF IInv, AttemptInHand, BeforeOrder, BeforeEvent, BeforeRecord
    <3>2. i \in 1..Len(store)
      BY <1>5, <1>6, <1>7, <2>2, <3>1
    <3>. QED  BY <1>5, <2>2, <3>2 DEF IInv, Spaced
  <2>. QED  BY <1>2, <2>1, <2>2 DEF Spaced
<1>. QED  BY <1>9, <1>10, <1>11, <1>12, <1>13 DEF IInv

LEMMA InitInv == Init => IInv
BY ConstantsAssumption
DEF Init, IInv, ViewsFresh, InOrder, AttemptInHand, OrderAudited, Spaced, NoView,
    Working, BeforeRecord, BeforeEvent, BeforeOrder

\* The steps up to the order.
LEMMA PolicySteps ==
  ASSUME TypeOK, IInv, SoleProcess, NEW p \in Procs, Policy(p)
  PROVE  IInv'
<1> USE DEF SameOrders
<1>1. CASE Refuse(p)
  BY <1>1, RestStep
  DEF Refuse, Leave, LeaveTo, Goto, NoView, SameAttempts, files, TypeOK
<1>2. CASE PassPolicy(p)
  <2>1. pc' = [pc EXCEPT ![p] = "create"] /\ pc[p] = "quote"
    BY <1>2 DEF PassPolicy, Goto
  <2>2. UNCHANGED <<now, files, attempts, job, view>> /\ SameOrders(book, book')
    BY <1>2 DEF PassPolicy, local, files
  <2>. QED
    BY <2>1, <2>2, QuietStep
    DEF Working, Steps, StoreSteps, EventSteps, BeforeRecord, BeforeEvent, BeforeOrder
<1>3. CASE CloseExistingFirst(p)
  <2>1. pc' = [pc EXCEPT ![p] = "listing"] /\ pc[p] = "quote"
    BY <1>3 DEF CloseExistingFirst, Goto
  <2>2. UNCHANGED <<now, files, attempts, job, view>> /\ SameOrders(book, book')
    BY <1>3 DEF CloseExistingFirst, local, files
  <2>. QED
    BY <2>1, <2>2, QuietStep
    DEF Working, Steps, StoreSteps, EventSteps, BeforeRecord, BeforeEvent, BeforeOrder
<1>4. CASE ListExisting(p)
  <2>1. pc' = [pc EXCEPT ![p] = "closing"] /\ pc[p] = "listing"
    BY <1>4 DEF ListExisting, Goto
  <2>2. UNCHANGED <<now, files, attempts, job, view>> /\ SameOrders(book, book')
    BY <1>4 DEF ListExisting, local, files
  <2>. QED
    BY <2>1, <2>2, QuietStep
    DEF Working, Steps, StoreSteps, EventSteps, BeforeRecord, BeforeEvent, BeforeOrder
<1>5. CASE CloseExisting(p)
  <2>0. \A t : SameOrders(book, B!Moved(book, t, "CLOSED"))
    BY MoveKeepsOrders DEF TypeOK
  <2>1. SameOrders(book, book')
    BY <1>5, <2>0 DEF CloseExisting
  <2>2. pc' = [pc EXCEPT ![p] = "closing"] /\ pc[p] = "closing"
    BY <1>5 DEF CloseExisting, TypeOK
  <2>3. UNCHANGED <<now, files, attempts, job, view>>
    BY <1>5 DEF CloseExisting, files
  <2>. QED
    BY <2>1, <2>2, <2>3, QuietStep
    DEF Working, Steps, StoreSteps, EventSteps, BeforeRecord, BeforeEvent, BeforeOrder
<1>6. CASE CloseExistingRaises(p)
  <2>1. \A t : SameOrders(book, B!Moved(book, t, "CLOSED"))
    BY MoveKeepsOrders DEF TypeOK
  <2>2. SameOrders(book, book')
    BY <1>6, <2>1 DEF CloseExistingRaises
  <2>. QED
    BY <1>6, <2>2, RestStep
    DEF CloseExistingRaises, Leave, LeaveTo, Goto, NoView, SameAttempts, files, TypeOK
<1>7. CASE ExistingClosed(p)
  <2>1. pc' = [pc EXCEPT ![p] = "create"] /\ pc[p] = "closing"
    BY <1>7 DEF ExistingClosed, Goto
  <2>2. UNCHANGED <<now, files, attempts, job, view>> /\ SameOrders(book, book')
    BY <1>7 DEF ExistingClosed, local, files
  <2>. QED
    BY <2>1, <2>2, QuietStep
    DEF Working, Steps, StoreSteps, EventSteps, BeforeRecord, BeforeEvent, BeforeOrder
<1>. QED  BY <1>1, <1>2, <1>3, <1>4, <1>5, <1>6, <1>7 DEF Policy

\* A view taken now is fresh.
LEMMA ReadSteps ==
  ASSUME TypeOK, IInv, SoleProcess, NEW p \in Procs, FileRead(p)
  PROVE  IInv'
<1>1. \A q \in Procs : q = p
  BY DEF SoleProcess
<1>2. CASE ReadStore(p)
  <2>1. ViewsFresh'
    BY <1>1, <1>2 DEF ReadStore, ViewsFresh, TypeOK, StoreSteps, EventSteps, files
  <2>. QED
    BY <1>2, <2>1
    DEF ReadStore, IInv, InOrder, AttemptInHand, OrderAudited, Spaced, files, local, Working
<1>3. CASE ReadEvents(p)
  <2>1. ViewsFresh'
    BY <1>1, <1>3 DEF ReadEvents, ViewsFresh, TypeOK, StoreSteps, EventSteps, files
  <2>. QED
    BY <1>3, <2>1
    DEF ReadEvents, IInv, InOrder, AttemptInHand, OrderAudited, Spaced, files, local, Working
<1>4. CASE RecordMissing(p)
  <2>1. SameAttempts(store, store') /\ SameOrders(book, book') /\ events' = events
        /\ now' = now /\ attempts' = attempts
    BY <1>4 DEF RecordMissing, SameAttempts, SameOrders, files
  <2>2. CASE pc[p] = "failed"
    <3>1. Leave(p)
      BY <1>4, <2>2 DEF RecordMissing
    <3>2. pc' = [pc EXCEPT ![p] = "idle"] /\ ~ view'[p].held
      BY <3>1 DEF Leave, LeaveTo, Goto, NoView, TypeOK
    <3>. QED  BY <2>1, <3>2, RestStep
  <2>3. CASE pc[p] # "failed"
    <3>1. pc[p] \in StoreSteps \ {"create"} /\ pc' = [pc EXCEPT ![p] = "failed"]
          /\ ~ view'[p].held /\ job' = job
      BY <1>4, <2>3 DEF RecordMissing, Goto, local
    <3>2. Working(p) /\ pc[p] \notin BeforeEvent /\ pc[p] \notin BeforeRecord
      BY <3>1 DEF Working, StoreSteps, BeforeRecord, BeforeEvent
    <3>3. "failed" \in Steps /\ "failed" \notin BeforeOrder /\ "failed" \notin BeforeEvent
          /\ "failed" \notin BeforeRecord /\ "failed" \notin {"down", "idle"}
      BY DEF Steps, StoreSteps, BeforeRecord, BeforeEvent, BeforeOrder
    <3>4. events \subseteq events'
      BY <2>1
    <3>. QED  BY <2>1, <3>1, <3>2, <3>3, <3>4, PhaseStep
  <2>. QED  BY <2>2, <2>3
<1>5. CASE AppendRaises(p)
  <2>1. SameAttempts(store, store') /\ SameOrders(book, book') /\ events' = events
        /\ now' = now /\ attempts' = attempts
    BY <1>5 DEF AppendRaises, SameAttempts, SameOrders, files
  <2>2. CASE pc[p] = "submitted"
    <3>1. Leave(p)
      BY <1>5, <2>2 DEF AppendRaises
    <3>2. pc' = [pc EXCEPT ![p] = "idle"] /\ ~ view'[p].held
      BY <3>1 DEF Leave, LeaveTo, Goto, NoView, TypeOK
    <3>. QED  BY <2>1, <3>2, RestStep
  <2>3. CASE pc[p] # "submitted"
    <3>1. pc[p] \in {"outcome", "flag"} /\ pc' = [pc EXCEPT ![p] = "failed"]
          /\ ~ view'[p].held /\ job' = job
      BY <1>5, <2>3 DEF AppendRaises, Goto, local, EventSteps, NoView, TypeOK
    <3>2. Working(p) /\ pc[p] \notin BeforeEvent /\ pc[p] \notin BeforeRecord
      BY <3>1 DEF Working, StoreSteps, BeforeRecord, BeforeEvent
    <3>3. "failed" \in Steps /\ "failed" \notin BeforeOrder /\ "failed" \notin BeforeEvent
          /\ "failed" \notin BeforeRecord /\ "failed" \notin {"down", "idle"}
      BY DEF Steps, StoreSteps, BeforeRecord, BeforeEvent, BeforeOrder
    <3>4. events \subseteq events'
      BY <2>1
    <3>. QED  BY <2>1, <3>1, <3>2, <3>3, <3>4, PhaseStep
  <2>. QED  BY <2>2, <2>3
<1>. QED  BY <1>2, <1>3, <1>4, <1>5 DEF FileRead

\* The announcement of the attempt in hand.
LEMMA SubmittedStep ==
  ASSUME TypeOK, IInv, SoleProcess, NEW p \in Procs, AppendSubmitted(p)
  PROVE  IInv'
<1> DEFINE e == [type |-> "ORDER_SUBMITTED", n |-> job[p].n, trade |-> reply[p].trade]
<1>1. \A q \in Procs : q = p
  BY DEF SoleProcess
<1>2. /\ pc[p] = "submitted" /\ pc'[p] = "send" /\ ~ view'[p].held
      /\ store' = store /\ book' = book /\ now' = now /\ attempts' = attempts
      /\ job' = job
  BY DEF AppendSubmitted, AddEvent, Goto, TypeOK, NoView, local
<1>3. events' = events \cup {e}
  BY <1>2 DEF AppendSubmitted, AddEvent, IInv, ViewsFresh, EventSteps
<1>4. e \in events' /\ e.type = "ORDER_SUBMITTED" /\ e.n = job[p].n
  BY <1>3
<1>5. ViewsFresh'
  BY <1>1, <1>2 DEF ViewsFresh
<1>6. InOrder'
  BY <1>1, <1>2 DEF IInv, InOrder, Working
<1>7. AttemptInHand'
  <2>1. \E i \in DOMAIN store :
           store[i].n = job[p].n /\ store[i].key = KeyOf[job[p].req]
    BY <1>2 DEF IInv, AttemptInHand, BeforeRecord, Working
  <2>2. \A t \in DOMAIN book : book[t].n # job[p].n
    BY <1>2 DEF IInv, AttemptInHand, BeforeOrder, BeforeEvent, BeforeRecord
  <2>. QED
    BY <1>1, <1>2, <1>4, <2>1, <2>2
    DEF AttemptInHand, BeforeRecord, BeforeEvent, BeforeOrder, Working
<1>8. OrderAudited'
  BY <1>2, <1>3 DEF IInv, OrderAudited
<1>9. Spaced'
  BY <1>2 DEF IInv, Spaced
<1>. QED  BY <1>5, <1>6, <1>7, <1>8, <1>9 DEF IInv

LEMMA WriteSteps ==
  ASSUME TypeOK, IInv, SoleProcess, NEW p \in Procs, FileWrite(p)
  PROVE  IInv'
<1>1. \A st, tr : /\ SameAttempts(view[p].store, WithStatus(view[p].store, job[p].id, st))
                  /\ SameAttempts(view[p].store, WithResult(view[p].store, job[p].id, st, tr))
  BY UpdateKeepsAttempts DEF TypeOK
<1> USE DEF Steps, StoreSteps, EventSteps, BeforeRecord, BeforeEvent, BeforeOrder
<1>2. CASE CreateAttempt(p)
  BY <1>2, CreateStep
<1>3. CASE MarkSent(p)
  BY <1>1, <1>3, UpdateStep DEF MarkSent
<1>4. CASE MarkReceived(p)
  BY <1>1, <1>4, UpdateStep DEF MarkReceived
<1>5. CASE MarkResult(p)
  BY <1>1, <1>5, UpdateStep DEF MarkResult
<1>6. CASE MarkDiscrepancy(p)
  BY <1>1, <1>6, UpdateStep DEF MarkDiscrepancy
<1>7. CASE MarkException(p)
  <2>1. SameAttempts(store, store')
    BY <1>1, <1>7 DEF MarkException, IInv, ViewsFresh
  <2>2. SameOrders(book, book') /\ events' = events /\ now' = now /\ attempts' = attempts
    BY <1>7 DEF MarkException, SameOrders
  <2>3. pc' = [pc EXCEPT ![p] = "idle"] /\ ~ view'[p].held
    BY <1>7 DEF MarkException, Leave, LeaveTo, Goto, NoView, TypeOK
  <2>. QED  BY <2>1, <2>2, <2>3, RestStep
<1>8. CASE AppendSubmitted(p)
  BY <1>8, SubmittedStep
<1>9. CASE AppendOutcome(p)
  BY <1>9, EventStep DEF AppendOutcome
<1>10. CASE AppendDiscrepancy(p)
  BY <1>10, EventStep DEF AppendDiscrepancy
<1>. QED
  BY <1>2, <1>3, <1>4, <1>5, <1>6, <1>7, <1>8, <1>9, <1>10 DEF FileWrite

LEMMA OrderSteps ==
  ASSUME TypeOK, IInv, SoleProcess, NEW p \in Procs, PlaceOrder(p)
  PROVE  IInv'
<1>1. SameOrders(book, book) /\ book \in Seq(B!Order)
  BY DEF SameOrders, TypeOK
<1>2. \A t : /\ SameOrders(book, B!Moved(book, t, "CLOSED"))
             /\ B!Moved(book, t, "CLOSED") \in Seq(B!Order)
  BY MoveKeepsOrders, BookType DEF TypeOK, B!OrderStates
<1>3. ASSUME NEW tx, NEW tr, Answer(p, tx, tr)
      PROVE  \E step \in {"received", "failed"} : pc' = [pc EXCEPT ![p] = step]
  BY <1>3 DEF Answer, Goto
<1>4. {"OPEN", "NETTED", "CANCELED", "PENDING", "LATE"} \subseteq B!OrderStates
  BY DEF B!OrderStates
<1>5. CASE OrderFilled(p)
  BY <1>1, <1>3, <1>4, <1>5, OrderStep DEF OrderFilled
<1>6. CASE OrderNetted(p)
  <2>1. PICK t : book' = Append(B!Moved(book, t, "CLOSED"), OrderIn(p, "NETTED"))
    BY <1>6 DEF OrderNetted
  <2>. QED  BY <1>2, <1>3, <1>4, <1>6, <2>1, OrderStep DEF OrderNetted
<1>7. CASE OrderCanceled(p)
  BY <1>1, <1>3, <1>4, <1>7, OrderStep DEF OrderCanceled
<1>8. CASE OrderRests(p)
  BY <1>1, <1>3, <1>4, <1>8, OrderStep DEF OrderRests
<1>9. CASE OrderRefused(p)
  <2>1. pc[p] = "place" /\ pc' = [pc EXCEPT ![p] = "failed"] /\ book' = book
        /\ UNCHANGED <<now, files, attempts, job, view>>
    BY <1>9 DEF OrderRefused, Placed, Goto
  <2>. QED
    BY <1>1, <2>1, QuietStep
    DEF Working, Steps, StoreSteps, EventSteps, BeforeRecord, BeforeEvent, BeforeOrder
<1>10. CASE OrderLate(p)
  BY <1>1, <1>4, <1>10, OrderStep DEF OrderLate, Goto
<1>. QED  BY <1>5, <1>6, <1>7, <1>8, <1>9, <1>10 DEF PlaceOrder

LEMMA VerifySteps ==
  ASSUME TypeOK, IInv, SoleProcess, NEW p \in Procs, Verify(p)
  PROVE  IInv'
<1> USE DEF SameOrders
<1>1. CASE Verified(p)
  BY <1>1, RestStep
  DEF Verified, Leave, LeaveTo, Goto, NoView, SameAttempts, files, TypeOK
<1>2. CASE Discrepancy(p)
  <2>1. pc' = [pc EXCEPT ![p] = "discrepancy"] /\ pc[p] = "verify"
    BY <1>2 DEF Discrepancy, Goto
  <2>2. UNCHANGED <<now, files, attempts, job, view>> /\ SameOrders(book, book')
    BY <1>2 DEF Discrepancy, local, files
  <2>. QED
    BY <2>1, <2>2, QuietStep
    DEF Working, Steps, StoreSteps, EventSteps, BeforeRecord, BeforeEvent, BeforeOrder
<1>3. CASE LookupRaises(p)
  <2>1. pc' = [pc EXCEPT ![p] = "failed"] /\ pc[p] = "verify"
    BY <1>3 DEF LookupRaises, Goto
  <2>2. UNCHANGED <<now, files, attempts, job, view>> /\ SameOrders(book, book')
    BY <1>3 DEF LookupRaises, local, files
  <2>. QED
    BY <2>1, <2>2, QuietStep
    DEF Working, Steps, StoreSteps, EventSteps, BeforeRecord, BeforeEvent, BeforeOrder
<1>. QED  BY <1>1, <1>2, <1>3 DEF Verify

LEMMA NumbersStored ==
  ASSUME TypeOK
  PROVE  /\ \A i \in DOMAIN store : i \in Nat /\ store[i].n \in Nat /\ store[i].created \in Nat
         /\ \A t \in DOMAIN book : t \in Nat /\ book[t].n \in Nat /\ book[t].at \in Nat
         /\ now \in Nat /\ attempts \in Nat /\ Window \in Nat /\ MaxAttempts \in Nat
<1>1. \A i \in DOMAIN store : i \in Nat /\ store[i] \in Record
  BY DEF TypeOK
<1>2. \A t \in DOMAIN book : t \in Nat /\ book[t] \in B!Order
  BY DEF TypeOK
<1>3. now \in Nat /\ attempts \in Nat
  BY DEF TypeOK
<1>. QED  BY <1>1, <1>2, <1>3, ConstantsAssumption DEF Record, B!Order

\* A new attempt: the check has just found no record of its key in the window.
LEMMA SubmitStep ==
  ASSUME TypeOK, IInv, SoleProcess, NEW p \in Procs, NEW r \in Requests, Submit(p, r)
  PROVE  IInv'
<1>1. \A q \in Procs : q = p
  BY DEF SoleProcess
<1>2. /\ pc[p] = "idle" /\ pc'[p] = "quote" /\ view' = view
      /\ store' = store /\ events' = events /\ book' = book /\ now' = now
      /\ attempts' = attempts + 1 /\ attempts < MaxAttempts
      /\ job'[p].req = r /\ job'[p].n = attempts + 1
      /\ ~ KeyBlocked(store, KeyOf[r], now, Window)
  BY DEF Submit, Goto, TypeOK, files
<1>3. attempts \in Nat /\ now \in Nat /\ MaxAttempts \in Nat /\ Window \in Nat
  BY ConstantsAssumption DEF TypeOK
<1>4. \A i \in DOMAIN store :
        /\ store[i].n \in 1..attempts /\ store[i].created \in Nat
        /\ store[i].key = KeyOf[r] => now > store[i].created + Window
  <2>1. \A i \in DOMAIN store : store[i].created \in Nat /\ store[i].n \in 1..attempts
    BY NumbersStored DEF IInv, InOrder
  <2>. QED  BY <1>2, <1>3, <2>1 DEF KeyBlocked
<1>5. \A t \in DOMAIN book : book[t].n \in 1..attempts
  BY DEF IInv, InOrder
<1>6. ViewsFresh'
  BY <1>1, <1>2 DEF IInv, ViewsFresh, StoreSteps, EventSteps
<1>7. InOrder'
  BY <1>1, <1>2, <1>3, <1>4, <1>5 DEF IInv, InOrder
<1>8. AttemptInHand'
  BY <1>1, <1>2, <1>3, <1>4, <1>5
  DEF AttemptInHand, BeforeRecord, BeforeEvent, BeforeOrder, Working
<1>9. OrderAudited' /\ Spaced'
  BY <1>2 DEF IInv, OrderAudited, Spaced
<1>. QED  BY <1>6, <1>7, <1>8, <1>9 DEF IInv

\* Steps of the world around the executor.
LEMMA WorldSteps ==
  ASSUME TypeOK, IInv, EditSettings \/ Tick \/ BrokerActs \/ UNCHANGED vars
  PROVE  IInv'
<1>1. CASE EditSettings \/ UNCHANGED vars
  BY <1>1 DEF EditSettings, vars, files, local, IInv, ViewsFresh, InOrder,
     AttemptInHand, OrderAudited, Spaced, Working
<1>2. CASE Tick
  <2>1. UNCHANGED <<store, events, book, attempts, pc, job, view>> /\ now' = now + 1
    BY <1>2 DEF Tick, files, local
  <2>2. /\ now \in Nat /\ Window \in Nat
        /\ \A i \in DOMAIN store : store[i].created \in Nat
    BY NumbersStored
  <2>3. ViewsFresh' /\ OrderAudited' /\ Spaced'
    BY <2>1 DEF IInv, ViewsFresh, OrderAudited, Spaced
  <2>4. InOrder'
    BY <2>1, <2>2 DEF IInv, InOrder, Working
  <2>5. AttemptInHand'
    <3>1. ASSUME NEW p \in Procs, pc[p] \in BeforeRecord, NEW i \in DOMAIN store
          PROVE  /\ store[i].n # job[p].n
                 /\ store[i].key = KeyOf[job[p].req] => now + 1 > store[i].created + Window
      BY <2>2, <3>1 DEF IInv, AttemptInHand
    <3>. QED  BY <2>1, <3>1 DEF IInv, AttemptInHand, Working
  <2>. QED  BY <2>3, <2>4, <2>5 DEF IInv
<1>3. CASE BrokerActs
  <2>1. SameOrders(book, book')
    <3>1. \A t, st : SameOrders(book, B!Moved(book, t, st))
      BY MoveKeepsOrders DEF TypeOK
    <3>. QED  BY <1>3, <3>1 DEF BrokerActs
  <2>2. UNCHANGED <<store, events, now, attempts, pc, job, view>>
    BY <1>3 DEF BrokerActs, files, local
  <2>3. ViewsFresh' /\ OrderAudited' /\ Spaced'
    BY <2>1, <2>2 DEF IInv, ViewsFresh, OrderAudited, Spaced, SameOrders
  <2>4. InOrder'
    BY <2>1, <2>2 DEF IInv, InOrder, Working, SameOrders
  <2>5. AttemptInHand'
    BY <2>1, <2>2 DEF IInv, AttemptInHand, Working, SameOrders
  <2>. QED  BY <2>3, <2>4, <2>5 DEF IInv
<1>. QED  BY <1>1, <1>2, <1>3

LEMMA NextInv == TypeOK /\ SoleProcess /\ IInv /\ [Next]_vars => IInv'
<1> SUFFICES ASSUME TypeOK, SoleProcess, IInv, [Next]_vars PROVE IInv'
  OBVIOUS
<1>1. ASSUME NEW p \in Procs, Start(p) PROVE IInv'
  <2>1. /\ pc[p] = "down" /\ pc' = [pc EXCEPT ![p] = "idle"] /\ view' = view
        /\ SameAttempts(store, store') /\ SameOrders(book, book') /\ events' = events
        /\ now' = now /\ attempts' = attempts
    BY <1>1 DEF Start, Goto, files, SameAttempts, SameOrders
  <2>2. ~ view'[p].held
    BY <2>1 DEF IInv, ViewsFresh, StoreSteps, EventSteps
  <2>. QED  BY <2>1, <2>2, RestStep
<1>2. ASSUME NEW p \in Procs, Crash(p) PROVE IInv'
  <2>1. /\ pc' = [pc EXCEPT ![p] = "down"] /\ ~ view'[p].held
        /\ SameAttempts(store, store') /\ SameOrders(book, book') /\ events' = events
        /\ now' = now /\ attempts' = attempts
    BY <1>2 DEF Crash, LeaveTo, Goto, NoView, TypeOK, files, SameAttempts, SameOrders
  <2>. QED  BY <2>1, RestStep
<1>3. ASSUME NEW p \in Procs, Run(p) PROVE IInv'
  BY <1>3, PolicySteps, ReadSteps, WriteSteps, OrderSteps, VerifySteps DEF Run
<1>4. ASSUME NEW p \in Procs, NEW r \in Requests, Submit(p, r) PROVE IInv'
  BY <1>4, SubmitStep
<1>5. CASE EditSettings \/ Tick \/ BrokerActs \/ UNCHANGED vars
  BY <1>5, WorldSteps
<1>. QED  BY <1>1, <1>2, <1>3, <1>4, <1>5 DEF Next

\* The invariant of a sole process.
THEOREM SoleInvariant == SoleProcess => (Spec => []IInv)
<1> SUFFICES ASSUME SoleProcess PROVE Spec => []IInv
  OBVIOUS
<1>1. TypeOK /\ IInv /\ [Next]_vars => IInv'
  BY NextInv
<1>. QED  BY <1>1, InitInv, TypeCorrect, PTL DEF Spec

\* Whatever crashes, times out or raises, an order that reached the broker has a
\* record with its key and an ORDER_SUBMITTED event.
THEOREM EveryOrderAudited == SoleProcess => (Spec => []OrderAudited)
<1> SUFFICES ASSUME SoleProcess PROVE Spec => []OrderAudited
  OBVIOUS
<1>1. IInv => OrderAudited
  BY DEF IInv
<1>. QED  BY <1>1, SoleInvariant, PTL

\* Two orders of one key have two records, whose creations are more than Window
\* apart, and the second order is not older than its record.
LEMMA SpacedOrders == TypeOK /\ IInv => NoDuplicateInWindow
<1> SUFFICES ASSUME TypeOK, IInv, NEW t \in DOMAIN book, NEW u \in DOMAIN book,
                    NEW i \in DOMAIN store, t < u, book[t].key = book[u].key,
                    store[i].n = book[t].n
             PROVE  book[u].at > store[i].created + Window
  BY DEF NoDuplicateInWindow
<1>1. PICK j \in DOMAIN store : store[j].n = book[u].n /\ store[j].key = book[u].key
  BY DEF IInv, OrderAudited
<1>2. PICK k \in DOMAIN store : store[k].n = book[t].n /\ store[k].key = book[t].key
  BY DEF IInv, OrderAudited
<1>3. /\ i \in Nat /\ j \in Nat /\ k \in Nat
      /\ store[i].n \in Nat /\ store[j].n \in Nat /\ store[k].n \in Nat
      /\ store[i].created \in Nat /\ store[j].created \in Nat /\ book[u].at \in Nat
      /\ Window \in Nat
  BY NumbersStored
<1>4. book[t].n < book[u].n
  BY DEF IInv, InOrder
<1>5. k = i
  BY <1>2, <1>3 DEF IInv, InOrder
<1>6. i < j
  BY <1>1, <1>3, <1>4 DEF IInv, InOrder
<1>7. store[j].created > store[i].created + Window
  BY <1>1, <1>2, <1>5, <1>6 DEF IInv, Spaced
<1>8. book[u].at >= store[j].created
  BY <1>1 DEF IInv, Spaced
<1>. QED  BY <1>3, <1>7, <1>8

\* The second order with a key goes out more than the window after the record of the
\* first was made, from which the check measures: neither a crash, a restart, a timeout
\* nor a retry of the caller makes a sole process repeat an order before that.
THEOREM NoDuplicates == SoleProcess => (Spec => []NoDuplicateInWindow)
<1> SUFFICES ASSUME SoleProcess PROVE Spec => []NoDuplicateInWindow
  OBVIOUS
<1>. QED  BY SpacedOrders, SoleInvariant, TypeCorrect, PTL
-----------------------------------------------------------------------------
(***************************************************************************)
(* The executor implements OrderAuthority.                                 *)
(***************************************************************************)
Grants == {[n |-> store[i].n, key |-> store[i].key, at |-> store[i].created] :
             i \in DOMAIN store}
Placements == [t \in DOMAIN book |-> book[t].n]

\* A step that changes no attempt and no order is a stutter.
LEMMA StutterStep ==
  ASSUME SameAttempts(store, store'), SameOrders(book, book'), now' = now
  PROVE  UNCHANGED Authority!vars
<1>1. Grants' = Grants
  BY DEF Grants, SameAttempts
<1>2. Placements' = Placements
  BY DEF Placements, SameOrders
<1>. QED  BY <1>1, <1>2 DEF Authority!vars, Grants, Placements

\* create_attempt is a grant.
LEMMA CreateGrants ==
  ASSUME TypeOK, IInv, NEW p \in Procs, CreateAttempt(p)
  PROVE  Authority!Grant
<1> DEFINE r == AttemptRecord(job[p].n, job[p].id, KeyOf[job[p].req], now)
           g == [n |-> job[p].n, key |-> KeyOf[job[p].req], at |-> now]
<1>1. /\ pc[p] = "create" /\ book' = book /\ now' = now
  BY DEF CreateAttempt, ReplaceStore
<1>2. view[p].store = store
  BY <1>1 DEF CreateAttempt, ReplaceStore, IInv, ViewsFresh, StoreSteps
<1>3. r \in Record /\ store \in Seq(Record) /\ KeyOf[job[p].req] \in Keys
  <2>1. job[p] \in [req : Requests, n : Nat, id : RequestIds] /\ now \in Nat
    BY DEF TypeOK
  <2>2. KeyOf[job[p].req] \in Keys
    BY <2>1, ConstantsAssumption
  <2>3. store \in Seq(Record)
    BY DEF TypeOK
  <2>. QED  BY <2>1, <2>2, <2>3, AttemptRecordType
<1>4. /\ DOMAIN store = 1..Len(store) /\ Len(store) \in Nat
      /\ DOMAIN store' = 1..(Len(store) + 1)
      /\ \A i \in 1..Len(store) : store'[i] = store[i]
      /\ store'[Len(store) + 1] = r
  BY <1>2, <1>3 DEF CreateAttempt, ReplaceStore
<1>5. r.n = job[p].n /\ r.key = KeyOf[job[p].req] /\ r.created = now
  BY DEF AttemptRecord
<1>6. Grants' = Grants \cup {g}
  <2>1. ASSUME NEW x \in Grants' PROVE x \in Grants \cup {g}
    BY <1>4, <1>5 DEF Grants
  <2>2. ASSUME NEW x \in Grants \cup {g} PROVE x \in Grants'
    <3>1. CASE x \in Grants
      BY <1>4, <3>1 DEF Grants
    <3>2. CASE x = g
      BY <1>4, <1>5, <3>2 DEF Grants
    <3>. QED  BY <3>1, <3>2
  <2>. QED  BY <2>1, <2>2
<1>7. Placements' = Placements
  BY <1>1 DEF Placements
<1>8. \A i \in DOMAIN store :
        /\ store[i].n # job[p].n
        /\ store[i].key = KeyOf[job[p].req] => now > store[i].created + Window
  BY <1>1 DEF IInv, AttemptInHand, BeforeRecord
<1>9. \A h \in Grants : h.n # job[p].n
  BY <1>8 DEF Grants
<1>10. ~ \E h \in Grants : h.key = KeyOf[job[p].req] /\ now <= h.at + Window
  BY <1>8, NumbersStored DEF Grants
<1>11. job[p].n \in 1..MaxAttempts
  BY <1>1, NumbersStored DEF IInv, InOrder, Working
<1>. QED
  BY <1>1, <1>3, <1>6, <1>7, <1>9, <1>10, <1>11
  DEF Authority!Grant, Authority!Blocked, Grants, Placements

\* An order that reaches the broker is placed on the grant of its attempt.
LEMMA OrderPlaces ==
  ASSUME TypeOK, IInv, NEW p \in Procs, Placed(p),
         NEW b \in Seq(B!Order), SameOrders(book, b), NEW st \in B!OrderStates,
         book' = Append(b, OrderIn(p, st))
  PROVE  Authority!Place
<1>1. pc[p] = "place" /\ store' = store /\ now' = now
  BY DEF Placed, files
<1>2. DOMAIN book = 1..Len(book) /\ DOMAIN b = 1..Len(b) /\ Len(b) = Len(book)
      /\ Len(book) \in Nat
  BY DEF TypeOK, SameOrders
<1>3. /\ DOMAIN book' = 1..(Len(book) + 1)
      /\ \A t \in 1..Len(book) : book'[t] = b[t]
      /\ book'[Len(book) + 1] = OrderIn(p, st)
  BY <1>2, OrderInType
<1>4. OrderIn(p, st).n = job[p].n
  BY DEF OrderIn
<1>5. Placements' = Append(Placements, job[p].n)
  <2>1. /\ DOMAIN Placements' = 1..(Len(book) + 1)
        /\ \A t \in 1..Len(book) : Placements'[t] = Placements[t]
        /\ Placements'[Len(book) + 1] = job[p].n
    BY <1>2, <1>3, <1>4 DEF Placements, SameOrders
  <2>2. Placements \in Seq(Nat) /\ Len(Placements) = Len(book) /\ job[p].n \in Nat
    <3>1. \A t \in 1..Len(book) : book[t].n \in Nat
      <4>1. \A t \in 1..Len(book) : book[t] \in B!Order
        BY <1>2 DEF TypeOK
      <4>. QED  BY <4>1 DEF B!Order
    <3>2. job[p].n \in Nat
      BY DEF TypeOK
    <3>. QED  BY <1>2, <3>1, <3>2 DEF Placements
  <2>3. Placements' = [t \in 1..(Len(book) + 1) |-> Placements'[t]]
    BY <1>3 DEF Placements
  <2>4. DOMAIN Append(Placements, job[p].n) = 1..(Len(book) + 1)
        /\ Append(Placements, job[p].n) \in Seq(Nat)
        /\ \A t \in 1..Len(book) : Append(Placements, job[p].n)[t] = Placements[t]
        /\ Append(Placements, job[p].n)[Len(book) + 1] = job[p].n
    BY <1>2, <2>2
  <2>. QED  BY <2>1, <2>2, <2>3, <2>4
<1>6. \A t \in DOMAIN Placements : Placements[t] # job[p].n
  BY <1>1 DEF IInv, AttemptInHand, BeforeOrder, Placements
<1>7. \E g \in Grants : g.n = job[p].n
  <2>1. PICK i \in DOMAIN store : store[i].n = job[p].n
    BY <1>1 DEF IInv, AttemptInHand, BeforeRecord, Working
  <2>2. [n |-> store[i].n, key |-> store[i].key, at |-> store[i].created] \in Grants
    BY DEF Grants
  <2>. QED  BY <2>1, <2>2
<1>8. Grants' = Grants
  BY <1>1 DEF Grants
<1>. QED
  BY <1>1, <1>5, <1>6, <1>7, <1>8 DEF Authority!Place, Grants, Placements

LEMMA SameItself == SameAttempts(store, store) /\ SameOrders(book, book)
BY DEF SameAttempts, SameOrders

LEMMA StepImplements ==
  ASSUME TypeOK, IInv, [Next]_vars
  PROVE  [Authority!Next]_(Authority!vars)
<1>1. ASSUME NEW p \in Procs, FileWrite(p)
      PROVE  \/ CreateAttempt(p)
             \/ SameAttempts(store, store') /\ book' = book /\ now' = now
  <2>1. \A st, tr :
           /\ SameAttempts(view[p].store, WithStatus(view[p].store, job[p].id, st))
           /\ SameAttempts(view[p].store, WithResult(view[p].store, job[p].id, st, tr))
    BY UpdateKeepsAttempts DEF TypeOK
  <2>2. view[p].held /\ pc[p] \in StoreSteps => view[p].store = store
    BY DEF IInv, ViewsFresh
  <2>3. CASE MarkSent(p) \/ MarkReceived(p) \/ MarkResult(p) \/ MarkDiscrepancy(p)
    BY <2>1, <2>2, <2>3 DEF MarkSent, MarkReceived, MarkResult, MarkDiscrepancy,
       ReplaceStore, StoreSteps
  <2>4. CASE MarkException(p)
    BY <2>1, <2>2, <2>4 DEF MarkException, StoreSteps
  <2>5. CASE AppendSubmitted(p) \/ AppendOutcome(p) \/ AppendDiscrepancy(p)
    BY <2>5, SameItself
    DEF AppendSubmitted, AppendOutcome, AppendDiscrepancy, AddEvent
  <2>6. \/ CreateAttempt(p) \/ MarkException(p)
        \/ MarkSent(p) \/ MarkReceived(p) \/ MarkResult(p) \/ MarkDiscrepancy(p)
        \/ AppendSubmitted(p) \/ AppendOutcome(p) \/ AppendDiscrepancy(p)
    BY <1>1 DEF FileWrite
  <2>. QED  BY <2>3, <2>4, <2>5, <2>6
<1>2. ASSUME NEW p \in Procs, Policy(p)
      PROVE  store' = store /\ SameOrders(book, book') /\ now' = now
  <2>1. \A t : SameOrders(book, B!Moved(book, t, "CLOSED"))
    BY MoveKeepsOrders DEF TypeOK
  <2>. QED
    BY <1>2, <2>1, SameItself
    DEF Policy, Refuse, PassPolicy, CloseExistingFirst, ListExisting, CloseExisting,
        CloseExistingRaises, ExistingClosed, files
<1>3. ASSUME NEW p \in Procs, PlaceOrder(p)
      PROVE  \/ Authority!Place
             \/ store' = store /\ book' = book /\ now' = now
  <2>1. SameOrders(book, book) /\ book \in Seq(B!Order)
    BY SameItself DEF TypeOK
  <2>2. \A t : /\ SameOrders(book, B!Moved(book, t, "CLOSED"))
               /\ B!Moved(book, t, "CLOSED") \in Seq(B!Order)
    BY MoveKeepsOrders, BookType DEF TypeOK, B!OrderStates
  <2>3. {"OPEN", "NETTED", "CANCELED", "PENDING", "LATE"} \subseteq B!OrderStates
    BY DEF B!OrderStates
  <2>4. ASSUME NEW b \in Seq(B!Order), SameOrders(book, b),
               NEW st \in {"OPEN", "NETTED", "CANCELED", "PENDING", "LATE"},
               Placed(p), book' = Append(b, OrderIn(p, st))
        PROVE  Authority!Place
    BY <2>3, <2>4, OrderPlaces
  <2>5. CASE OrderFilled(p) \/ OrderCanceled(p) \/ OrderRests(p) \/ OrderLate(p)
    <3>1. PICK st \in {"OPEN", "NETTED", "CANCELED", "PENDING", "LATE"} :
             Placed(p) /\ book' = Append(book, OrderIn(p, st))
      BY <2>5 DEF OrderFilled, OrderCanceled, OrderRests, OrderLate
    <3>. QED  BY <2>1, <2>4, <3>1
  <2>6. CASE OrderNetted(p)
    <3>1. PICK t : /\ Placed(p)
                   /\ book' = Append(B!Moved(book, t, "CLOSED"), OrderIn(p, "NETTED"))
      BY <2>6 DEF OrderNetted
    <3>. QED  BY <2>2, <2>4, <3>1
  <2>7. CASE OrderRefused(p)
    BY <2>7 DEF OrderRefused, Placed, files
  <2>. QED  BY <1>3, <2>5, <2>6, <2>7 DEF PlaceOrder
<1>4. ASSUME NEW p \in Procs, Start(p) \/ Crash(p) \/ FileRead(p) \/ Verify(p)
      PROVE  store' = store /\ book' = book /\ now' = now
  BY <1>4 DEF Start, Crash, FileRead, ReadStore, RecordMissing, ReadEvents,
     AppendRaises, Verify, Verified, Discrepancy, LookupRaises, files
<1>5. CASE BrokerActs
  <2>1. \A t, st : SameOrders(book, B!Moved(book, t, st))
    BY MoveKeepsOrders DEF TypeOK
  <2>. QED  BY <1>5, <2>1, SameItself, StutterStep DEF BrokerActs, files
<1>6. CASE Tick
  <2>1. store' = store /\ book' = book /\ now' = now + 1
    BY <1>6 DEF Tick, files
  <2>. QED  BY <2>1 DEF Authority!Next, Authority!Advance
<1>7. CASE EditSettings \/ UNCHANGED vars
  BY <1>7, SameItself, StutterStep DEF EditSettings, vars, files
<1>8. ASSUME NEW p \in Procs, NEW r \in Requests, Submit(p, r)
      PROVE  UNCHANGED Authority!vars
  BY <1>8, SameItself, StutterStep DEF Submit, files
<1>9. ASSUME NEW p \in Procs, Start(p) \/ Run(p) \/ Crash(p)
      PROVE  [Authority!Next]_(Authority!vars)
  BY <1>1, <1>2, <1>3, <1>4, <1>9, CreateGrants, StutterStep, SameItself
  DEF Run, Authority!Next
<1>. QED  BY <1>5, <1>6, <1>7, <1>8, <1>9 DEF Next

\* A sole executor implements OrderAuthority: an order is placed only on a record
\* written before it, once per record, and the records of one key are more than
\* Window apart.
THEOREM ExecutorImplementsAuthority == SoleProcess => (Spec => AuthoritySpec)
<1> SUFFICES ASSUME SoleProcess PROVE Spec => AuthoritySpec
  OBVIOUS
<1>1. Init => Authority!Init
  BY DEF Init, Authority!Init
<1>2. TypeOK /\ IInv /\ [Next]_vars => [Authority!Next]_(Authority!vars)
  BY StepImplements
<1>. QED
  BY <1>1, <1>2, SoleInvariant, TypeCorrect, PTL DEF Spec, AuthoritySpec, Authority!Spec
-----------------------------------------------------------------------------
(***************************************************************************)
(* Books and lists of records.                                             *)
(***************************************************************************)

\* A later book: orders are added, none vanishes, what is over stays over.
Grown(b, c) ==
  /\ DOMAIN b \subseteq DOMAIN c
  /\ \A t \in DOMAIN b :
       /\ c[t].n = b[t].n
       /\ b[t].state = "CANCELED" => c[t].state = "CANCELED"
       /\ b[t].state \in Executed => c[t].state \in Executed

LEMMA GrownSame == \A b : Grown(b, b)
BY DEF Grown

\* What a list says of a book is so of every later one.
LEMMA HonestGrown ==
  ASSUME NEW b, NEW c, Grown(b, c)
  PROVE  /\ \A r : Truthful(r, b) => Truthful(r, c)
         /\ \A s : Honest(s, b) => Honest(s, c)
<1>1. ASSUME NEW r, Truthful(r, b) PROVE Truthful(r, c)
  BY <1>1 DEF Truthful, Grown
<1>. QED  BY <1>1 DEF Honest

\* The market and the broker make a book a later one.
Moves(old, new) ==
  \/ old = "OPEN" /\ new = "CLOSED"
  \/ old \in {"PENDING", "LATE"} /\ new \in {"OPEN", "CANCELED"}

LEMMA MovedBook ==
  ASSUME NEW b \in Seq(B!Order), NEW t \in DOMAIN b, NEW st
  PROVE  LET c == B!Moved(b, t, st)
         IN  /\ DOMAIN c = DOMAIN b
             /\ \A u \in DOMAIN b :
                  /\ c[u].n = b[u].n /\ c[u].symbol = b[u].symbol
                  /\ c[u].state = IF u = t THEN st ELSE b[u].state
<1> DEFINE c == B!Moved(b, t, st)
<1>1. c = [u \in DOMAIN b |-> IF u = t THEN [b[t] EXCEPT !.state = st] ELSE b[u]]
  BY DEF B!Moved
<1>2. b[t] \in B!Order
  OBVIOUS
<1>3. c[t] = [b[t] EXCEPT !.state = st]
  BY <1>1
<1>4. c[t].n = b[t].n /\ c[t].symbol = b[t].symbol /\ c[t].state = st
  BY <1>2, <1>3 DEF B!Order
<1>5. DOMAIN c = DOMAIN b /\ \A u \in DOMAIN b : u # t => c[u] = b[u]
  BY <1>1
<1> HIDE DEF c
<1>6. \A u \in DOMAIN b :
        /\ c[u].n = b[u].n /\ c[u].symbol = b[u].symbol
        /\ c[u].state = IF u = t THEN st ELSE b[u].state
  BY <1>4, <1>5
<1>. QED  BY <1>5, <1>6 DEF c

LEMMA GrownMoved ==
  ASSUME NEW b \in Seq(B!Order), NEW t \in DOMAIN b, NEW st, Moves(b[t].state, st)
  PROVE  Grown(b, B!Moved(b, t, st))
<1> DEFINE c == B!Moved(b, t, st)
<1>1. /\ DOMAIN c = DOMAIN b
      /\ \A u \in DOMAIN b :
           c[u].n = b[u].n /\ c[u].state = IF u = t THEN st ELSE b[u].state
  BY MovedBook
<1>2. b[t].state # "CANCELED" /\ (b[t].state \in Executed => st \in Executed)
  BY DEF Moves, Executed
<1> HIDE DEF c
<1>3. Grown(b, c)
  BY <1>1, <1>2 DEF Grown
<1>. QED  BY <1>3 DEF c

\* A place that is not in the book cannot be moved.
LEMMA MovedNowhere ==
  ASSUME NEW b \in Seq(B!Order), NEW t, t \notin DOMAIN b, NEW st
  PROVE  B!Moved(b, t, st) = b
<1>1. B!Moved(b, t, st) = [u \in DOMAIN b |-> IF u = t THEN [b[t] EXCEPT !.state = st] ELSE b[u]]
  BY DEF B!Moved
<1>2. B!Moved(b, t, st) = [u \in DOMAIN b |-> b[u]]
  BY <1>1
<1>. QED  BY <1>2

LEMMA AppendedBook ==
  ASSUME NEW b \in Seq(B!Order), NEW o
  PROVE  LET c == Append(b, o)
         IN  /\ Len(b) \in Nat /\ DOMAIN b = 1..Len(b)
             /\ DOMAIN c = 1..(Len(b) + 1)
             /\ \A t \in DOMAIN b : c[t] = b[t]
             /\ c[Len(b) + 1] = o
OBVIOUS

\* An update changes no record's id, so none gets or loses its doubles.
LEMMA SameDoubles ==
  ASSUME NEW s, NEW t, DOMAIN t = DOMAIN s, \A i \in DOMAIN s : t[i].id = s[i].id
  PROVE  \A i \in DOMAIN s : Unambiguous(t, i) <=> Unambiguous(s, i)
BY DEF Unambiguous

\* A status that says nothing of the order can be written on any record.
LEMMA HonestStatus ==
  ASSUME NEW s \in Seq(Record), NEW b, Honest(s, b), NEW id,
         NEW st, st \notin {"FILLED", "CANCELED"}
  PROVE  Honest(WithStatus(s, id, st), b)
<1> DEFINE t == WithStatus(s, id, st)
           k == First(s, id)
<1>1. /\ DOMAIN t = DOMAIN s
      /\ \A i \in DOMAIN s : /\ t[i].n = s[i].n /\ t[i].id = s[i].id
                             /\ t[i].trade = s[i].trade
                             /\ t[i].status = IF i = k THEN st ELSE s[i].status
  BY StatusUpdate
<1> HIDE DEF t, k
<1>2. \A i \in DOMAIN s : Unambiguous(t, i) => Unambiguous(s, i)
  BY <1>1, SameDoubles
<1>3. ASSUME NEW i \in DOMAIN s, Truthful(s[i], b) PROVE Truthful(t[i], b)
  BY <1>1, <1>3 DEF Truthful
<1>4. Honest(t, b)
  BY <1>1, <1>2, <1>3 DEF Honest
<1>. QED  BY <1>4 DEF t

\* A result that is so can be written on the record of its own attempt, and on
\* one that has doubles.
LEMMA HonestResult ==
  ASSUME NEW s \in Seq(Record), NEW b, Honest(s, b), NEW id, Holds(s, id),
         NEW r, Truthful(r, b),
         \A i \in DOMAIN s : Unambiguous(s, i) /\ s[i].id = id => s[i].n = r.n
  PROVE  Honest(WithResult(s, id, r.status, r.trade), b)
<1> DEFINE t == WithResult(s, id, r.status, r.trade)
           k == First(s, id)
<1>1. /\ DOMAIN t = DOMAIN s
      /\ \A i \in DOMAIN s : /\ t[i].n = s[i].n /\ t[i].id = s[i].id
                             /\ t[i].trade = IF i = k THEN r.trade ELSE s[i].trade
                             /\ t[i].status = IF i = k THEN r.status ELSE s[i].status
  BY ResultUpdate
<1>2. k \in DOMAIN s /\ s[k].id = id
  BY FirstFound
<1> HIDE DEF t, k
<1>3. \A i \in DOMAIN s : Unambiguous(t, i) => Unambiguous(s, i)
  BY <1>1, SameDoubles
<1>4. ASSUME NEW i \in DOMAIN s, Unambiguous(s, i) PROVE Truthful(t[i], b)
  <2>1. CASE i = k
    <3>1. t[i].n = r.n /\ t[i].trade = r.trade /\ t[i].status = r.status
      BY <1>1, <1>2, <1>4, <2>1
    <3>. QED  BY <3>1 DEF Truthful
  <2>2. CASE i # k
    <3>1. t[i].n = s[i].n /\ t[i].trade = s[i].trade /\ t[i].status = s[i].status
      BY <1>1, <2>2
    <3>2. Truthful(s[i], b)
      BY <1>4 DEF Honest
    <3>. QED  BY <3>1, <3>2 DEF Truthful
  <2>. QED  BY <2>1, <2>2
<1>5. Honest(t, b)
  BY <1>1, <1>3, <1>4 DEF Honest
<1>. QED  BY <1>5 DEF t

\* A new record says nothing yet.
LEMMA HonestAppend ==
  ASSUME NEW s \in Seq(Record), NEW b, Honest(s, b), NEW r \in Record,
         r.trade = NoTrade, r.status \notin {"FILLED", "CANCELED"}
  PROVE  Honest(Append(s, r), b)
<1> DEFINE t == Append(s, r)
<1>1. /\ Len(s) \in Nat /\ DOMAIN s = 1..Len(s) /\ DOMAIN t = 1..(Len(s) + 1)
      /\ \A i \in 1..Len(s) : t[i] = s[i]
      /\ t[Len(s) + 1] = r
  BY AppendRecord
<1> HIDE DEF t
<1>2. ASSUME NEW i \in DOMAIN t, Unambiguous(t, i) PROVE Truthful(t[i], b)
  <2>1. CASE i = Len(s) + 1
    BY <1>1, <2>1 DEF Truthful
  <2>2. CASE i \in DOMAIN s
    <3>1. Unambiguous(s, i)
      BY <1>1, <1>2, <2>2 DEF Unambiguous
    <3>. QED  BY <1>1, <2>2, <3>1 DEF Honest
  <2>. QED  BY <1>1, <2>1, <2>2
<1>3. Honest(t, b)
  BY <1>2 DEF Honest
<1>. QED  BY <1>3 DEF t
-----------------------------------------------------------------------------
(***************************************************************************)
(* The records never lie: every list of records that is on file or in a    *)
(* process's hands is honest, and so are the answers.                      *)
(***************************************************************************)

\* A step of a process that goes on, and one that goes back to the caller.
Keeps(p) ==
  /\ job'[p] = job[p] /\ reply'[p] = reply[p]
  /\ pc'[p] \in BeforeOrder => pc[p] \in BeforeOrder
  /\ pc'[p] \in {"down", "idle"} <=> pc[p] \in {"down", "idle"}

Drops(p) ==
  job'[p] = NoJob /\ reply'[p] = NoReply /\ pc'[p] \in {"down", "idle"}

\* Where the copy a process holds may come from.
Copies(p) == view'[p].store \in {view[p].store, store, <<>>}

LEMMA SaysNothing ==
  /\ \A b : Honest(<<>>, b)
  /\ \A n, b : Truthful([n |-> n, trade |-> NoReply.trade,
                          status |-> Parsed(NoReply.tx)], b)
<1>1. \A b : Honest(<<>>, b)
  BY DEF Honest
<1>2. Parsed({}) = "UNKNOWN"
  BY DEF Parsed
<1>. QED  BY <1>1, <1>2 DEF Truthful, NoReply

\* Any step that starts no attempt and adds no order, and writes an honest list.
LEMMA TruthStep ==
  ASSUME TypeOK, TruthInv, Honest(store', book'), Grown(book, book'),
         DOMAIN book' = DOMAIN book, attempts' = attempts,
         \A p \in Procs : (Keeps(p) \/ Drops(p)) /\ Copies(p)
  PROVE  TruthInv'
<1>1. \A p \in Procs : /\ Working(p)' => Working(p) /\ Keeps(p)
                       /\ pc'[p] \in BeforeOrder => pc[p] \in BeforeOrder /\ Keeps(p)
  BY DEF Keeps, Drops, Working, BeforeOrder, BeforeEvent, BeforeRecord
<1>2. \A t \in DOMAIN book' : t \in DOMAIN book /\ book'[t].n = book[t].n
  BY DEF Grown
<1>3. OrderEach'
  <2>1. \A p \in Procs : Working(p)' => job'[p].n \in 1..attempts'
    BY <1>1 DEF TruthInv, OrderEach, Keeps
  <2>2. \A p, q \in Procs :
          Working(p)' /\ Working(q)' /\ job'[p].n = job'[q].n => p = q
    BY <1>1 DEF TruthInv, OrderEach, Keeps
  <2>3. /\ \A t \in DOMAIN book' : book'[t].n \in 1..attempts'
        /\ \A t, u \in DOMAIN book' : book'[t].n = book'[u].n => t = u
    BY <1>2 DEF TruthInv, OrderEach
  <2>4. ASSUME NEW p \in Procs, pc'[p] \in BeforeOrder
        PROVE  \A t \in DOMAIN book' : book'[t].n # job'[p].n
    BY <1>1, <1>2, <2>4 DEF TruthInv, OrderEach, Keeps
  <2>5. ASSUME NEW p \in Procs, pc'[p] \in BeforeOrder \cup {"down", "idle"}
        PROVE  reply'[p] = NoReply
    BY <1>1, <2>5 DEF TruthInv, OrderEach, Keeps, Drops
  <2>. QED  BY <2>1, <2>2, <2>3, <2>4, <2>5 DEF OrderEach
<1>4. ASSUME NEW p \in Procs PROVE Honest(view'[p].store, book')
  <2>1. Honest(view[p].store, book) /\ Honest(store, book) /\ Honest(<<>>, book)
    BY SaysNothing DEF TruthInv
  <2>2. Honest(view'[p].store, book)
    BY <2>1 DEF Copies
  <2>. QED  BY <2>2, HonestGrown
<1>5. ASSUME NEW p \in Procs PROVE Truthful(Told(p), book)'
  <2>1. CASE Keeps(p)
    <3>1. Told(p)' = Told(p)
      BY <2>1 DEF Told, Keeps
    <3>2. Truthful(Told(p), book)
      BY DEF TruthInv
    <3>3. Truthful(Told(p), book')
      BY <3>2, HonestGrown
    <3>. QED  BY <3>1, <3>3
  <2>2. CASE Drops(p)
    <3>1. Told(p)' = [n |-> NoJob.n, trade |-> NoReply.trade, status |-> Parsed(NoReply.tx)]
      BY <2>2 DEF Told, Drops
    <3>. QED  BY <3>1, SaysNothing
  <2>. QED  BY <2>1, <2>2
<1>. QED  BY <1>3, <1>4, <1>5 DEF TruthInv

\* A new attempt has the next number.
LEMMA TruthSubmit ==
  ASSUME TypeOK, TruthInv, NEW p \in Procs, NEW r \in Requests, Submit(p, r)
  PROVE  TruthInv'
<1>1. /\ store' = store /\ book' = book /\ reply' = reply /\ view' = view
      /\ attempts' = attempts + 1 /\ attempts \in Nat
      /\ pc[p] = "idle" /\ pc'[p] = "quote" /\ job'[p].n = attempts + 1
      /\ \A q \in Procs : q # p => pc'[q] = pc[q] /\ job'[q] = job[q]
  BY DEF Submit, TypeOK, files, Goto
<1>2. OrderEach'
  <2>0. OrderEach
    BY DEF TruthInv
  <2>1. ASSUME NEW q \in Procs, Working(q)', q # p PROVE Working(q)
    BY <1>1, <2>1 DEF Working
  <2>2. \A q \in Procs : Working(q)' => job'[q].n \in 1..attempts'
    BY <1>1, <2>0, <2>1 DEF OrderEach
  <2>3. \A q \in Procs : q # p /\ Working(q)' => job'[q].n # attempts + 1
    BY <1>1, <2>0, <2>1 DEF OrderEach
  <2>4. \A q, s \in Procs :
          Working(q)' /\ Working(s)' /\ job'[q].n = job'[s].n => q = s
    BY <1>1, <2>0, <2>1, <2>3 DEF OrderEach
  <2>5. /\ \A t \in DOMAIN book' : book'[t].n \in 1..attempts' /\ book'[t].n # attempts + 1
        /\ \A t, u \in DOMAIN book' : book'[t].n = book'[u].n => t = u
    BY <1>1, <2>0 DEF OrderEach
  <2>6. ASSUME NEW q \in Procs
        PROVE  /\ pc'[q] \in BeforeOrder => \A t \in DOMAIN book' : book'[t].n # job'[q].n
               /\ pc'[q] \in BeforeOrder \cup {"down", "idle"} => reply'[q] = NoReply
    <3>1. CASE q = p
      BY <1>1, <2>0, <2>5, <3>1 DEF OrderEach
    <3>2. CASE q # p
      BY <1>1, <2>0, <3>2 DEF OrderEach
    <3>. QED  BY <3>1, <3>2
  <2>. QED  BY <2>2, <2>4, <2>5, <2>6 DEF OrderEach
<1>3. ASSUME NEW q \in Procs PROVE Truthful(Told(q), book)'
  <2>1. CASE q = p
    <3>1. reply'[p] = NoReply
      BY <1>1 DEF TruthInv, OrderEach
    <3>2. Told(p)' = [n |-> job'[p].n, trade |-> NoReply.trade, status |-> Parsed(NoReply.tx)]
      BY <3>1 DEF Told
    <3>. QED  BY <2>1, <3>2, SaysNothing
  <2>2. CASE q # p
    <3>1. Told(q)' = Told(q)
      BY <1>1, <2>2 DEF Told
    <3>. QED  BY <1>1, <3>1 DEF TruthInv
  <2>. QED  BY <2>1, <2>2
<1>. QED  BY <1>1, <1>2, <1>3 DEF TruthInv

\* An order on the book, and the answer that arrives or does not.
LEMMA TruthOrder ==
  ASSUME TypeOK, TruthInv, NEW p \in Procs, Placed(p),
         NEW b \in Seq(B!Order), Grown(book, b), DOMAIN b = DOMAIN book,
         NEW state, book' = Append(b, OrderIn(p, state)),
         \A q \in Procs : q # p => pc'[q] = pc[q] /\ reply'[q] = reply[q],
         pc'[p] \in {"received", "failed"},
         reply'[p] = reply[p] \/ Truthful(Told(p)', book')
  PROVE  TruthInv'
<1> DEFINE o == OrderIn(p, state)
<1>1. /\ store' = store /\ view' = view /\ attempts' = attempts /\ job' = job
      /\ pc[p] = "place" /\ Working(p) /\ pc[p] \in BeforeOrder
  BY DEF Placed, files, Working, BeforeOrder
<1>2. /\ Len(b) \in Nat /\ DOMAIN b = 1..Len(b)
      /\ DOMAIN book' = 1..(Len(b) + 1)
      /\ \A t \in DOMAIN b : book'[t] = b[t]
      /\ book'[Len(b) + 1] = o
  BY AppendedBook
<1>3. o.n = job[p].n
  BY DEF OrderIn
<1> HIDE DEF o
<1>4. Grown(book, book')
  BY <1>2 DEF Grown
<1>5. OrderEach /\ job[p].n \in 1..attempts
  BY <1>1 DEF TruthInv, OrderEach
<1>6. \A t \in DOMAIN book' :
        \/ t \in DOMAIN book /\ book'[t].n = book[t].n
        \/ t = Len(b) + 1 /\ book'[t].n = job[p].n
  BY <1>2, <1>3 DEF Grown
<1>7. \A t \in DOMAIN book : book[t].n # job[p].n
  BY <1>1, <1>5 DEF OrderEach
<1>8. OrderEach'
  <2>1. ASSUME NEW q \in Procs, Working(q)' PROVE Working(q)
    BY <1>1, <2>1 DEF Working
  <2>2. /\ \A q \in Procs : Working(q)' => job'[q].n \in 1..attempts'
        /\ \A q, s \in Procs :
             Working(q)' /\ Working(s)' /\ job'[q].n = job'[s].n => q = s
    BY <1>1, <1>5, <2>1 DEF OrderEach
  <2>3. \A t \in DOMAIN book' : book'[t].n \in 1..attempts'
    BY <1>1, <1>5, <1>6 DEF OrderEach
  <2>4. \A t, u \in DOMAIN book' : book'[t].n = book'[u].n => t = u
    BY <1>5, <1>6, <1>7 DEF OrderEach
  <2>5. ASSUME NEW q \in Procs, pc'[q] \in BeforeOrder \cup {"down", "idle"}
        PROVE  q # p /\ pc[q] = pc'[q] /\ reply'[q] = reply[q]
    BY <2>5 DEF BeforeOrder, BeforeEvent, BeforeRecord
  <2>6. ASSUME NEW q \in Procs, pc'[q] \in BeforeOrder
        PROVE  \A t \in DOMAIN book' : book'[t].n # job'[q].n
    <3>1. q # p /\ pc[q] \in BeforeOrder
      BY <2>5, <2>6
    <3>2. Working(q)
      BY <3>1 DEF Working, BeforeOrder, BeforeEvent, BeforeRecord
    <3>3. job[q].n # job[p].n
      BY <1>1, <1>5, <3>1, <3>2 DEF OrderEach
    <3>. QED  BY <1>1, <1>5, <1>6, <3>1, <3>3 DEF OrderEach
  <2>7. \A q \in Procs : pc'[q] \in BeforeOrder \cup {"down", "idle"} => reply'[q] = NoReply
    BY <1>5, <2>5 DEF OrderEach
  <2>. QED  BY <2>2, <2>3, <2>4, <2>6, <2>7 DEF OrderEach
<1>9. ASSUME NEW q \in Procs PROVE Truthful(Told(q), book)'
  <2>1. CASE reply'[q] = reply[q]
    <3>1. Told(q)' = Told(q)
      BY <1>1, <2>1 DEF Told
    <3>2. Truthful(Told(q), book)
      BY DEF TruthInv
    <3>. QED  BY <1>4, <3>1, <3>2, HonestGrown
  <2>2. CASE reply'[q] # reply[q]
    <3>1. q = p
      BY <2>2
    <3>. QED  BY <2>2, <3>1
  <2>. QED  BY <2>1, <2>2
<1>10. Honest(store, book)' /\ \A q \in Procs : Honest(view[q].store, book)'
  <2>1. Honest(store, book) /\ \A q \in Procs : Honest(view[q].store, book)
    BY DEF TruthInv
  <2>2. Honest(store, book') /\ \A q \in Procs : Honest(view[q].store, book')
    BY <1>4, <2>1, HonestGrown
  <2>. QED  BY <1>1, <2>2
<1>. QED  BY <1>8, <1>9, <1>10 DEF TruthInv

\* A fill wins over a cancel, a cancel over a create.
LEMMA ParsedCases ==
  ASSUME NEW tx
  PROVE  /\ Parsed(tx) = "FILLED" <=> "fill" \in tx
         /\ Parsed(tx) = "CANCELED" <=> "fill" \notin tx /\ "cancel" \in tx
         /\ "fill" \notin tx /\ "cancel" \notin tx /\ "create" \in tx => Parsed(tx) = "PENDING"
<1>1. CASE "fill" \in tx
  BY <1>1 DEF Parsed
<1>2. CASE "fill" \notin tx /\ "cancel" \in tx
  BY <1>2 DEF Parsed
<1>3. CASE "fill" \notin tx /\ "cancel" \notin tx /\ "create" \in tx
  BY <1>3 DEF Parsed
<1>4. CASE "fill" \notin tx /\ "cancel" \notin tx /\ "create" \notin tx
  BY <1>4 DEF Parsed
<1>. QED  BY <1>1, <1>2, <1>3, <1>4

\* What place_order does.
LEMMA PlaceOrderTruth ==
  ASSUME TypeOK, TruthInv, NEW p \in Procs, PlaceOrder(p)
  PROVE  TruthInv'
<1>1. /\ pc[p] = "place" /\ book \in Seq(B!Order) /\ Len(book) \in Nat
      /\ pc \in [Procs -> Steps] /\ DOMAIN pc = Procs /\ DOMAIN reply = Procs
      /\ Placed(p) /\ job' = job /\ DOMAIN book = 1..Len(book)
  BY DEF PlaceOrder, OrderFilled, OrderNetted, OrderCanceled, OrderRests, OrderRefused,
         OrderLate, Placed, TypeOK
<1>2. ASSUME NEW tx, NEW trade, Answer(p, tx, trade)
      PROVE  /\ \A q \in Procs : q # p => pc'[q] = pc[q] /\ reply'[q] = reply[q]
             /\ pc'[p] \in {"received", "failed"}
             /\ reply'[p] = reply[p] \/ reply'[p] = [tx |-> tx, trade |-> trade]
  BY <1>1, <1>2 DEF Answer, Goto
<1>3. ASSUME Goto(p, "failed"), reply' = reply
      PROVE  /\ \A q \in Procs : q # p => pc'[q] = pc[q] /\ reply'[q] = reply[q]
             /\ pc'[p] \in {"received", "failed"} /\ reply'[p] = reply[p]
  BY <1>1, <1>3 DEF Goto
<1>4. ASSUME NEW tx, NEW trade, reply'[p] = [tx |-> tx, trade |-> trade]
      PROVE  Told(p)' = [n |-> job[p].n, trade |-> trade, status |-> Parsed(tx)]
  BY <1>1, <1>4 DEF Told
<1>5. /\ Parsed({"create", "fill"}) = "FILLED"
      /\ Parsed({"create", "cancel"}) = "CANCELED"
      /\ Parsed({"create"}) = "PENDING"
  BY ParsedCases
<1>6. ASSUME NEW st, NEW b \in Seq(B!Order), DOMAIN b = DOMAIN book,
             NEW tx, NEW trade \in Nat, Answer(p, tx, trade), book' = Append(b, OrderIn(p, st)),
             trade # NoTrade => trade = Len(book) + 1,
             Parsed(tx) = "CANCELED" => st = "CANCELED",
             Parsed(tx) = "FILLED" => st \in Executed
      PROVE  reply'[p] = reply[p] \/ Truthful(Told(p)', book')
  <2>1. /\ Len(b) = Len(book) /\ DOMAIN book' = 1..(Len(b) + 1)
        /\ book'[Len(b) + 1] = OrderIn(p, st)
    BY <1>1, <1>6, AppendedBook
  <2>2. OrderIn(p, st).n = job[p].n /\ OrderIn(p, st).state = st
    BY DEF OrderIn
  <2>3. /\ Len(book) + 1 \in DOMAIN book'
        /\ book'[Len(book) + 1].n = job[p].n /\ book'[Len(book) + 1].state = st
    BY <1>1, <2>1, <2>2
  <2>4. ASSUME reply'[p] = [tx |-> tx, trade |-> trade]
        PROVE  Truthful(Told(p)', book')
    <3>1. Told(p)' = [n |-> job[p].n, trade |-> trade, status |-> Parsed(tx)]
      BY <1>4, <2>4
    <3> DEFINE r == [n |-> job[p].n, trade |-> trade, status |-> Parsed(tx)]
    <3>2. r.n = job[p].n /\ r.trade = trade /\ r.status = Parsed(tx)
      OBVIOUS
    <3> HIDE DEF r
    <3>3. Truthful(r, book')
      BY <1>6, <2>3, <3>2 DEF Truthful
    <3>. QED  BY <3>1, <3>3 DEF r
  <2>. QED  BY <1>2, <1>6, <2>4
<1>7. CASE OrderFilled(p)
  <2>1. book' = Append(book, OrderIn(p, "OPEN"))
    BY <1>7 DEF OrderFilled
  <2>2. reply'[p] = reply[p] \/ Truthful(Told(p)', book')
    BY <1>1, <1>5, <1>6, <1>7, <2>1 DEF OrderFilled, Executed, NoTrade
  <2>. QED  BY <1>1, <1>2, <1>7, <2>1, <2>2, GrownSame, TruthOrder DEF OrderFilled
<1>8. CASE OrderNetted(p)
  <2>1. PICK t \in B!Against(book, SymbolOf[job[p].req], SideOf[job[p].req]) :
          book' = Append(B!Moved(book, t, "CLOSED"), OrderIn(p, "NETTED"))
    BY <1>8 DEF OrderNetted
  <2> DEFINE b == B!Moved(book, t, "CLOSED")
  <2>2. t \in DOMAIN book /\ book[t].state = "OPEN"
    BY DEF B!Against, B!OpenOn
  <2>3. b \in Seq(B!Order) /\ DOMAIN b = DOMAIN book /\ Grown(book, b)
    <3>1. Moves(book[t].state, "CLOSED")
      BY <2>2 DEF Moves
    <3>2. Grown(book, b)
      BY <1>1, <2>2, <3>1, GrownMoved
    <3>3. DOMAIN b = DOMAIN book
      BY DEF B!Moved
    <3>4. "CLOSED" \in B!OrderStates
      BY DEF B!OrderStates
    <3>5. b \in Seq(B!Order)
      BY <1>1, <2>2, <3>4, BookType
    <3>. QED  BY <3>2, <3>3, <3>5
  <2> HIDE DEF b
  <2>4. book' = Append(b, OrderIn(p, "NETTED"))
    BY <2>1 DEF b
  <2>5. reply'[p] = reply[p] \/ Truthful(Told(p)', book')
    BY <1>1, <1>5, <1>6, <1>8, <2>3, <2>4 DEF OrderNetted, Executed, NoTrade
  <2>. QED  BY <1>1, <1>2, <1>8, <2>3, <2>4, <2>5, TruthOrder DEF OrderNetted
<1>9. CASE OrderCanceled(p)
  <2>1. book' = Append(book, OrderIn(p, "CANCELED"))
    BY <1>9 DEF OrderCanceled
  <2>2. reply'[p] = reply[p] \/ Truthful(Told(p)', book')
    BY <1>1, <1>5, <1>6, <1>9, <2>1 DEF OrderCanceled, Executed, NoTrade
  <2>. QED  BY <1>1, <1>2, <1>9, <2>1, <2>2, GrownSame, TruthOrder DEF OrderCanceled
<1>10. CASE OrderRests(p)
  <2>1. book' = Append(book, OrderIn(p, "PENDING"))
    BY <1>10 DEF OrderRests
  <2>2. reply'[p] = reply[p] \/ Truthful(Told(p)', book')
    BY <1>1, <1>5, <1>6, <1>10, <2>1 DEF OrderRests, Executed, NoTrade
  <2>. QED  BY <1>1, <1>2, <1>10, <2>1, <2>2, GrownSame, TruthOrder DEF OrderRests
<1>11. CASE OrderLate(p)
  <2>1. book' = Append(book, OrderIn(p, "LATE")) /\ Goto(p, "failed") /\ reply' = reply
    BY <1>11 DEF OrderLate
  <2>. QED  BY <1>1, <1>3, <2>1, GrownSame, TruthOrder
<1>12. CASE OrderRefused(p)
  <2>1. /\ Goto(p, "failed") /\ reply' = reply /\ book' = book /\ store' = store
        /\ view' = view /\ attempts' = attempts
    BY <1>12 DEF OrderRefused, Placed, files
  <2>2. \A q \in Procs : Keeps(q) /\ Copies(q)
    BY <1>1, <2>1 DEF Keeps, Copies, Goto, BeforeOrder, BeforeEvent, BeforeRecord
  <2>3. Honest(store', book')
    BY <2>1 DEF TruthInv
  <2>. QED  BY <2>1, <2>2, <2>3, GrownSame, TruthStep
<1>. QED  BY <1>7, <1>8, <1>9, <1>10, <1>11, <1>12 DEF PlaceOrder

\* The copies in use.
LEMMA NextCopies == TypeOK /\ CopyInUse /\ [Next]_vars => CopyInUse'
<1> SUFFICES ASSUME TypeOK, CopyInUse, [Next]_vars
             PROVE  CopyInUse'
  OBVIOUS
<1>a. ASSUME NEW p \in Procs, ~ view'[p].held,
             \A q \in Procs : q # p =>
               pc'[q] = pc[q] /\ view'[q] = view[q] /\ job'[q] = job[q]
      PROVE  CopyInUse'
  BY <1>a DEF CopyInUse
<1>b. ASSUME pc' = pc, view' = view, job' = job PROVE CopyInUse'
  BY <1>b DEF CopyInUse
<1>c. ASSUME NEW p \in Procs, NEW step, LeaveTo(p, step) PROVE CopyInUse'
  <2>1. view'[p] = NoView
    BY <1>c DEF LeaveTo, TypeOK
  <2>. QED  BY <1>a, <1>c, <2>1 DEF LeaveTo, Goto, NoView, TypeOK
<1>d. ASSUME NEW p \in Procs, pc[p] \notin StoreSteps \cup EventSteps, view' = view,
             NEW step, Goto(p, step), \A q \in Procs : q # p => job'[q] = job[q]
      PROVE  CopyInUse'
  <2>1. ~ view'[p].held
    BY <1>d DEF CopyInUse
  <2>. QED  BY <1>a, <1>d, <2>1 DEF Goto, TypeOK
<1>e. ASSUME NEW p \in Procs, view' = [view EXCEPT ![p] = NoView],
             NEW step, Goto(p, step), job' = job
      PROVE  CopyInUse'
  <2>1. view'[p] = NoView
    BY <1>e DEF TypeOK
  <2>. QED  BY <1>a, <1>e, <2>1 DEF Goto, NoView, TypeOK
<1>1. ASSUME NEW p \in Procs, Start(p) PROVE CopyInUse'
  BY <1>1, <1>d DEF Start, local, StoreSteps, EventSteps
<1>2. ASSUME NEW p \in Procs, Policy(p) PROVE CopyInUse'
  <2>1. CASE Refuse(p) \/ CloseExistingRaises(p)
    BY <1>c, <2>1 DEF Refuse, CloseExistingRaises, Leave
  <2>2. CASE PassPolicy(p) \/ CloseExistingFirst(p) \/ ListExisting(p) \/ ExistingClosed(p)
    BY <1>d, <2>2 DEF PassPolicy, CloseExistingFirst, ListExisting, ExistingClosed, local,
       StoreSteps, EventSteps
  <2>3. CASE CloseExisting(p)
    BY <1>b, <2>3 DEF CloseExisting
  <2>. QED  BY <1>2, <2>1, <2>2, <2>3 DEF Policy
<1>3. ASSUME NEW p \in Procs, ReadStore(p) PROVE CopyInUse'
  <2>1. /\ view'[p] = [held |-> TRUE, store |-> store, events |-> {}]
        /\ pc' = pc /\ job' = job /\ pc[p] \in StoreSteps
        /\ pc[p] # "create" => Holds(store, job[p].id)
        /\ \A q \in Procs : q # p => view'[q] = view[q]
    BY <1>3 DEF ReadStore, TypeOK, local
  <2>. QED  BY <2>1 DEF CopyInUse
<1>4. ASSUME NEW p \in Procs, ReadEvents(p) PROVE CopyInUse'
  <2>1. /\ pc' = pc /\ job' = job /\ pc[p] \in EventSteps
        /\ \A q \in Procs : q # p => view'[q] = view[q]
    BY <1>4 DEF ReadEvents, TypeOK, local
  <2>. QED  BY <2>1 DEF CopyInUse, StoreSteps, EventSteps
<1>5. ASSUME NEW p \in Procs, RecordMissing(p) PROVE CopyInUse'
  <2>1. CASE Leave(p)
    BY <1>c, <2>1 DEF Leave
  <2>2. CASE Goto(p, "failed") /\ UNCHANGED <<local, view>>
    <3>1. ~ view'[p].held /\ view' = view /\ job' = job
      BY <1>5, <2>2 DEF RecordMissing, local
    <3>. QED  BY <1>a, <2>2, <3>1 DEF Goto, TypeOK
  <2>. QED  BY <1>5, <2>1, <2>2 DEF RecordMissing
<1>6. ASSUME NEW p \in Procs, AppendRaises(p) PROVE CopyInUse'
  BY <1>6, <1>c, <1>e DEF AppendRaises, Leave, local
<1>7. ASSUME NEW p \in Procs, FileWrite(p) PROVE CopyInUse'
  <2>1. CASE \E s, step : ReplaceStore(p, s, step)
    BY <1>e, <2>1 DEF ReplaceStore, local
  <2>2. CASE \E type, step : AddEvent(p, type, step)
    BY <1>e, <2>2 DEF AddEvent, local
  <2>3. CASE MarkException(p)
    BY <1>c, <2>3 DEF MarkException, Leave
  <2>. QED
    BY <1>7, <2>1, <2>2, <2>3
    DEF FileWrite, CreateAttempt, MarkSent, MarkReceived, MarkResult, MarkDiscrepancy,
        AppendSubmitted, AppendOutcome, AppendDiscrepancy
<1>8. ASSUME NEW p \in Procs, PlaceOrder(p) PROVE CopyInUse'
  <2>1. pc[p] = "place" /\ view' = view /\ job' = job
    BY <1>8 DEF PlaceOrder, OrderFilled, OrderNetted, OrderCanceled, OrderRests,
                OrderRefused, OrderLate, Placed
  <2>2. \E step : Goto(p, step)
    BY <1>8 DEF PlaceOrder, OrderFilled, OrderNetted, OrderCanceled, OrderRests,
                OrderRefused, OrderLate, Answer
  <2>. QED  BY <1>d, <2>1, <2>2 DEF StoreSteps, EventSteps
<1>9. ASSUME NEW p \in Procs, Verify(p) PROVE CopyInUse'
  BY <1>9, <1>c, <1>d
  DEF Verify, Verified, Discrepancy, LookupRaises, Leave, local, StoreSteps, EventSteps
<1>10. ASSUME NEW p \in Procs, Crash(p) PROVE CopyInUse'
  BY <1>10, <1>c DEF Crash
<1>11. ASSUME NEW p \in Procs, NEW r \in Requests, Submit(p, r) PROVE CopyInUse'
  BY <1>11, <1>d DEF Submit, TypeOK, StoreSteps, EventSteps
<1>12. CASE EditSettings \/ Tick \/ BrokerActs \/ UNCHANGED vars
  BY <1>12, <1>b DEF EditSettings, Tick, BrokerActs, vars, local
<1>. QED
  BY <1>1, <1>2, <1>3, <1>4, <1>5, <1>6, <1>7, <1>8, <1>9, <1>10, <1>11, <1>12
  DEF Next, Run, FileRead

\* The record a process finds for its result, if it has no double, is its own.
ResultIsOwn ==
  \A p \in Procs : pc[p] = "result" /\ view[p].held =>
    \A i \in DOMAIN view[p].store :
      Unambiguous(view[p].store, i) /\ view[p].store[i].id = job[p].id =>
        view[p].store[i].n = job[p].n

LEMMA NextTruth ==
  TypeOK /\ CopyInUse /\ ResultIsOwn /\ TruthInv /\ [Next]_vars => TruthInv'
<1> SUFFICES ASSUME TypeOK, CopyInUse, ResultIsOwn, TruthInv, [Next]_vars
             PROVE  TruthInv'
  OBVIOUS
<1> USE DEF BeforeOrder, BeforeEvent, BeforeRecord
<1>0. /\ Honest(store, book) /\ book \in Seq(B!Order) /\ store \in Seq(Record)
      /\ \A p \in Procs : Honest(view[p].store, book) /\ view[p].store \in Seq(Record)
      /\ \A p \in Procs : /\ job[p].n \in Nat /\ job[p].id \in RequestIds
                          /\ KeyOf[job[p].req] \in Keys /\ now \in Nat
  BY ConstantsAssumption DEF TruthInv, TypeOK
<1>a. ASSUME Honest(store', book), book' = book, attempts' = attempts,
             \A q \in Procs : (Keeps(q) \/ Drops(q)) /\ Copies(q)
      PROVE  TruthInv'
  BY <1>a, GrownSame, TruthStep
<1>b. ASSUME NEW p \in Procs, NEW step \in {"down", "idle"}, LeaveTo(p, step)
      PROVE  \A q \in Procs : (Keeps(q) \/ Drops(q)) /\ Copies(q)
  <2>1. ASSUME NEW q \in Procs, q # p PROVE Keeps(q) /\ Copies(q)
    BY <1>b, <2>1 DEF LeaveTo, Goto, TypeOK, Keeps, Copies
  <2>2. Drops(p) /\ Copies(p)
    BY <1>b DEF LeaveTo, Goto, TypeOK, Drops, Copies, NoView
  <2>. QED  BY <2>1, <2>2
<1>c. ASSUME NEW p \in Procs, NEW step, Goto(p, step), job' = job, reply' = reply,
             view' = view \/ view' = [view EXCEPT ![p] = NoView],
             step \in {"down", "idle"} <=> pc[p] \in {"down", "idle"},
             step \in BeforeOrder => pc[p] \in BeforeOrder
      PROVE  \A q \in Procs : Keeps(q) /\ Copies(q)
  <2>1. ASSUME NEW q \in Procs, q # p PROVE Keeps(q) /\ Copies(q)
    BY <1>c, <2>1 DEF Goto, TypeOK, Keeps, Copies
  <2>2. Keeps(p) /\ Copies(p)
    BY <1>c DEF Goto, TypeOK, Keeps, Copies, NoView
  <2>. QED  BY <2>1, <2>2
<1>d. ASSUME NEW p \in Procs, NEW s, NEW step, ReplaceStore(p, s, step), Honest(s, book),
             step \in {"down", "idle"} <=> pc[p] \in {"down", "idle"},
             step \in BeforeOrder => pc[p] \in BeforeOrder
      PROVE  TruthInv'
  <2>1. /\ store' = s /\ book' = book /\ attempts' = attempts /\ Goto(p, step)
        /\ job' = job /\ reply' = reply /\ view' = [view EXCEPT ![p] = NoView]
    BY <1>d DEF ReplaceStore, local
  <2>2. \A q \in Procs : Keeps(q) /\ Copies(q)
    BY <1>c, <1>d, <2>1
  <2>. QED  BY <1>a, <1>d, <2>1, <2>2
<1>e. ASSUME NEW p \in Procs, NEW type, NEW step, AddEvent(p, type, step),
             step \in {"down", "idle"} <=> pc[p] \in {"down", "idle"},
             step \in BeforeOrder => pc[p] \in BeforeOrder
      PROVE  TruthInv'
  <2>1. /\ store' = store /\ book' = book /\ attempts' = attempts /\ Goto(p, step)
        /\ job' = job /\ reply' = reply /\ view' = [view EXCEPT ![p] = NoView]
    BY <1>e DEF AddEvent, local
  <2>2. \A q \in Procs : Keeps(q) /\ Copies(q)
    BY <1>c, <1>e, <2>1
  <2>. QED  BY <1>0, <1>a, <2>1, <2>2
<1>f. ASSUME NEW t \in DOMAIN book, NEW st, Moves(book[t].state, st),
             book' = B!Moved(book, t, st), store' = store, attempts' = attempts,
             \A q \in Procs : (Keeps(q) \/ Drops(q)) /\ Copies(q)
      PROVE  TruthInv'
  <2>1. Grown(book, book') /\ DOMAIN book' = DOMAIN book
    BY <1>0, <1>f, GrownMoved, MovedBook
  <2>2. Honest(store', book')
    BY <1>0, <1>f, <2>1, HonestGrown
  <2>. QED  BY <1>f, <2>1, <2>2, TruthStep
<1>g. ASSUME job' = job, reply' = reply, pc' = pc, view' = view
      PROVE  \A q \in Procs : (Keeps(q) \/ Drops(q)) /\ Copies(q)
  BY <1>g DEF Keeps, Copies
<1>1. ASSUME NEW p \in Procs, Start(p) PROVE TruthInv'
  <2>1. \A q \in Procs : Keeps(q) /\ Copies(q)
    BY <1>1, <1>c DEF Start, local
  <2>. QED  BY <1>0, <1>1, <1>a, <2>1 DEF Start, files
<1>2. ASSUME NEW p \in Procs, Policy(p) PROVE TruthInv'
  <2>1. CASE Refuse(p)
    BY <1>0, <1>a, <1>b, <2>1 DEF Refuse, Leave, files
  <2>2. CASE PassPolicy(p) \/ CloseExistingFirst(p) \/ ListExisting(p) \/ ExistingClosed(p)
    <3>1. \A q \in Procs : Keeps(q) /\ Copies(q)
      BY <1>c, <2>2 DEF PassPolicy, CloseExistingFirst, ListExisting, ExistingClosed, local
    <3>. QED
      BY <1>0, <1>a, <2>2, <3>1
      DEF PassPolicy, CloseExistingFirst, ListExisting, ExistingClosed, files
  <2>3. CASE CloseExisting(p)
    <3>1. PICK t \in doomed[p] :
            book[t].state = "OPEN" /\ (book' = book \/ book' = B!Moved(book, t, "CLOSED"))
      BY <2>3 DEF CloseExisting
    <3>2. store' = store /\ attempts' = attempts
          /\ \A q \in Procs : (Keeps(q) \/ Drops(q)) /\ Copies(q)
      BY <1>g, <2>3 DEF CloseExisting, files
    <3>3. CASE t \in DOMAIN book /\ book' # book
      BY <1>f, <3>1, <3>2, <3>3 DEF Moves
    <3>4. CASE t \notin DOMAIN book \/ book' = book
      <4>1. book' = book
        BY <1>0, <3>1, <3>4, MovedNowhere
      <4>. QED  BY <1>0, <1>a, <3>2, <4>1
    <3>. QED  BY <3>3, <3>4
  <2>4. CASE CloseExistingRaises(p)
    <3>1. /\ store' = store /\ attempts' = attempts
          /\ \A q \in Procs : (Keeps(q) \/ Drops(q)) /\ Copies(q)
      BY <1>b, <2>4 DEF CloseExistingRaises, Leave, files
    <3>2. PICK t \in doomed[p] :
            \/ book' = book
            \/ book[t].state = "OPEN" /\ book' = B!Moved(book, t, "CLOSED")
      BY <2>4 DEF CloseExistingRaises
    <3>3. CASE book' = book
      BY <1>0, <1>a, <3>1, <3>3
    <3>4. CASE t \in DOMAIN book /\ book' # book
      BY <1>f, <3>1, <3>2, <3>4 DEF Moves
    <3>5. CASE t \notin DOMAIN book
      <4>1. book' = book
        BY <1>0, <3>2, <3>5, MovedNowhere
      <4>. QED  BY <3>3, <4>1
    <3>. QED  BY <3>3, <3>4, <3>5
  <2>. QED  BY <1>2, <2>1, <2>2, <2>3, <2>4 DEF Policy
<1>3. ASSUME NEW p \in Procs, FileRead(p) PROVE TruthInv'
  <2>1. CASE ReadStore(p) \/ ReadEvents(p)
    <3>1. \A q \in Procs : view'[q].store = view[q].store \/ view'[q].store \in {store, <<>>}
      <4>1. CASE ReadStore(p)
        <5>1. /\ view'[p] = [held |-> TRUE, store |-> store, events |-> {}]
              /\ \A q \in Procs : q # p => view'[q] = view[q]
          BY <4>1 DEF ReadStore, TypeOK
        <5>. QED  BY <5>1
      <4>2. CASE ReadEvents(p)
        <5>1. /\ view'[p] = [held |-> TRUE, store |-> <<>>, events |-> events]
              /\ \A q \in Procs : q # p => view'[q] = view[q]
          BY <4>2 DEF ReadEvents, TypeOK
        <5>. QED  BY <5>1
      <4>. QED  BY <2>1, <4>1, <4>2
    <3>2. \A q \in Procs : Keeps(q) /\ Copies(q)
      BY <2>1, <3>1 DEF ReadStore, ReadEvents, local, Keeps, Copies
    <3>. QED  BY <1>0, <1>a, <2>1, <3>2 DEF ReadStore, ReadEvents, files
  <2>2. CASE RecordMissing(p)
    <3>1. \A q \in Procs : (Keeps(q) \/ Drops(q)) /\ Copies(q)
      BY <1>b, <1>c, <2>2 DEF RecordMissing, Leave, local, StoreSteps
    <3>. QED  BY <1>0, <1>a, <2>2, <3>1 DEF RecordMissing, files
  <2>3. CASE AppendRaises(p)
    <3>1. \A q \in Procs : (Keeps(q) \/ Drops(q)) /\ Copies(q)
      BY <1>b, <1>c, <2>3 DEF AppendRaises, Leave, local, EventSteps
    <3>. QED  BY <1>0, <1>a, <2>3, <3>1 DEF AppendRaises, files
  <2>. QED  BY <1>3, <2>1, <2>2, <2>3 DEF FileRead
<1>4. ASSUME NEW p \in Procs, FileWrite(p) PROVE TruthInv'
  <2>1. CASE CreateAttempt(p)
    <3> DEFINE r == AttemptRecord(job[p].n, job[p].id, KeyOf[job[p].req], now)
    <3>1. r \in Record
      BY <1>0, AttemptRecordType
    <3>2. r.trade = NoTrade /\ r.status \notin {"FILLED", "CANCELED"}
      BY DEF AttemptRecord
    <3> HIDE DEF r
    <3>3. Honest(Append(view[p].store, r), book)
      BY <1>0, <3>1, <3>2, HonestAppend
    <3>. QED  BY <1>d, <2>1, <3>3 DEF CreateAttempt, r
  <2>2. CASE MarkSent(p) \/ MarkReceived(p) \/ MarkDiscrepancy(p)
    <3>1. \A st : st \notin {"FILLED", "CANCELED"} =>
            Honest(WithStatus(view[p].store, job[p].id, st), book)
      BY <1>0, HonestStatus
    <3>. QED  BY <1>d, <2>2, <3>1 DEF MarkSent, MarkReceived, MarkDiscrepancy
  <2>3. CASE MarkResult(p)
    <3> DEFINE r == Told(p)
    <3>1. r.n = job[p].n /\ r.trade = reply[p].trade /\ r.status = Parsed(reply[p].tx)
      BY DEF Told
    <3> HIDE DEF r
    <3>2. Truthful(r, book)
      BY DEF TruthInv, r
    <3>3. Holds(view[p].store, job[p].id)
      BY <2>3 DEF MarkResult, ReplaceStore, CopyInUse, StoreSteps
    <3>4. \A i \in DOMAIN view[p].store :
            Unambiguous(view[p].store, i) /\ view[p].store[i].id = job[p].id =>
              view[p].store[i].n = r.n
      BY <2>3, <3>1 DEF MarkResult, ReplaceStore, ResultIsOwn
    <3>5. Honest(WithResult(view[p].store, job[p].id, r.status, r.trade), book)
      BY <1>0, <3>2, <3>3, <3>4, HonestResult
    <3>. QED  BY <1>d, <2>3, <3>1, <3>5 DEF MarkResult
  <2>4. CASE MarkException(p)
    <3>1. Honest(store', book)
      BY <1>0, <2>4, HonestStatus DEF MarkException
    <3>. QED  BY <1>a, <1>b, <2>4, <3>1 DEF MarkException, Leave
  <2>5. CASE AppendSubmitted(p) \/ AppendOutcome(p) \/ AppendDiscrepancy(p)
    BY <1>e, <2>5 DEF AppendSubmitted, AppendOutcome, AppendDiscrepancy
  <2>. QED  BY <1>4, <2>1, <2>2, <2>3, <2>4, <2>5 DEF FileWrite
<1>5. ASSUME NEW p \in Procs, PlaceOrder(p) PROVE TruthInv'
  BY <1>5, PlaceOrderTruth
<1>6. ASSUME NEW p \in Procs, Verify(p) PROVE TruthInv'
  <2>1. CASE Verified(p)
    BY <1>0, <1>a, <1>b, <2>1 DEF Verified, Leave, files
  <2>2. CASE Discrepancy(p) \/ LookupRaises(p)
    <3>1. \A q \in Procs : Keeps(q) /\ Copies(q)
      BY <1>c, <2>2 DEF Discrepancy, LookupRaises, local
    <3>. QED  BY <1>0, <1>a, <2>2, <3>1 DEF Discrepancy, LookupRaises, files
  <2>. QED  BY <1>6, <2>1, <2>2 DEF Verify
<1>7. ASSUME NEW p \in Procs, Crash(p) PROVE TruthInv'
  BY <1>0, <1>7, <1>a, <1>b DEF Crash, files
<1>8. ASSUME NEW p \in Procs, NEW r \in Requests, Submit(p, r) PROVE TruthInv'
  BY <1>8, TruthSubmit
<1>9. CASE EditSettings \/ Tick \/ UNCHANGED vars
  BY <1>0, <1>9, <1>a, <1>g DEF EditSettings, Tick, vars, files, local
<1>10. CASE BrokerActs
  <2>1. PICK t \in DOMAIN book : \E st \in B!BrokerMove(book, t) : book' = B!Moved(book, t, st)
    BY <1>10 DEF BrokerActs
  <2>2. PICK st \in B!BrokerMove(book, t) : book' = B!Moved(book, t, st)
    BY <2>1
  <2>3. Moves(book[t].state, st)
    BY <2>2 DEF Moves, B!BrokerMove
  <2>4. \A q \in Procs : (Keeps(q) \/ Drops(q)) /\ Copies(q)
    BY <1>10, <1>g DEF BrokerActs, local
  <2>. QED  BY <1>10, <1>f, <2>2, <2>3, <2>4 DEF BrokerActs, files
<1>. QED
  BY <1>1, <1>2, <1>3, <1>4, <1>5, <1>6, <1>7, <1>8, <1>9, <1>10 DEF Next, Run

\* With fresh ids the hypothesis holds: every record has the id of its attempt.
LEMMA JobsAndCopies ==
  ASSUME TypeOK, [Next]_vars, NEW q \in Procs
  PROVE  /\ Copies(q)
         /\ Working(q)' =>
              \/ Working(q) /\ job'[q] = job[q]
              \/ \E r \in Requests : job'[q].id = RequestId(r, job'[q].n)
<1> DEFINE Same == view'[q] = view[q] /\ job'[q] = job[q] /\ (Working(q)' => Working(q))
           Left == view'[q] = NoView /\ ~ Working(q)'
           Goal == /\ Copies(q)
                   /\ Working(q)' =>
                        \/ Working(q) /\ job'[q] = job[q]
                        \/ \E r \in Requests : job'[q].id = RequestId(r, job'[q].n)
<1>a. CASE Same
  BY <1>a DEF Copies
<1>b. CASE Left
  BY <1>b DEF Copies, NoView
<1>c. ASSUME NEW p \in Procs, NEW step \in {"down", "idle"}, LeaveTo(p, step) PROVE Goal
  <2>1. q # p => Same
    BY <1>c DEF LeaveTo, Goto, TypeOK, Working
  <2>2. q = p => Left
    BY <1>c DEF LeaveTo, Goto, TypeOK, Working
  <2>. QED  BY <1>a, <1>b, <2>1, <2>2
<1>d. ASSUME NEW p \in Procs, NEW step, Goto(p, step), Working(p) \/ step = "idle",
             job' = job, view' = view \/ view' = [view EXCEPT ![p] = NoView]
      PROVE  Goal
  <2>1. job'[q] = job[q] /\ (Working(q)' => Working(q))
    BY <1>d DEF Goto, TypeOK, Working
  <2>2. view'[q] = view[q] \/ view'[q] = NoView
    BY <1>d DEF TypeOK
  <2>. QED  BY <2>1, <2>2 DEF Copies, NoView
<1>e. ASSUME job' = job, view' = view, pc' = pc PROVE Goal
  BY <1>a, <1>e DEF Working
<1>1. ASSUME NEW p \in Procs, Start(p) PROVE Goal
  BY <1>1, <1>d DEF Start, local
<1>2. ASSUME NEW p \in Procs, Policy(p) PROVE Goal
  <2>1. CASE Refuse(p) \/ CloseExistingRaises(p)
    BY <1>c, <2>1 DEF Refuse, CloseExistingRaises, Leave
  <2>2. CASE PassPolicy(p) \/ CloseExistingFirst(p) \/ ListExisting(p) \/ ExistingClosed(p)
    BY <1>d, <2>2 DEF PassPolicy, CloseExistingFirst, ListExisting, ExistingClosed, local, Working
  <2>3. CASE CloseExisting(p)
    BY <1>e, <2>3 DEF CloseExisting
  <2>. QED  BY <1>2, <2>1, <2>2, <2>3 DEF Policy
<1>3. ASSUME NEW p \in Procs, FileRead(p) PROVE Goal
  <2>1. CASE ReadStore(p)
    <3>1. /\ view'[p] = [held |-> TRUE, store |-> store, events |-> {}]
          /\ q # p => view'[q] = view[q]
      BY <2>1 DEF ReadStore, TypeOK
    <3>. QED  BY <2>1, <3>1 DEF ReadStore, local, Copies, Working
  <2>2. CASE ReadEvents(p)
    <3>1. /\ view'[p] = [held |-> TRUE, store |-> <<>>, events |-> events]
          /\ q # p => view'[q] = view[q]
      BY <2>2 DEF ReadEvents, TypeOK
    <3>. QED  BY <2>2, <3>1 DEF ReadEvents, local, Copies, Working
  <2>3. CASE RecordMissing(p)
    BY <1>c, <1>d, <2>3 DEF RecordMissing, Leave, local, StoreSteps, Working
  <2>4. CASE AppendRaises(p)
    BY <1>c, <1>d, <2>4 DEF AppendRaises, Leave, local, EventSteps, Working
  <2>. QED  BY <1>3, <2>1, <2>2, <2>3, <2>4 DEF FileRead
<1>4. ASSUME NEW p \in Procs, FileWrite(p) PROVE Goal
  <2>1. CASE MarkException(p)
    BY <1>c, <2>1 DEF MarkException, Leave
  <2>2. CASE ~ MarkException(p)
    <3>1. /\ Working(p) /\ job' = job /\ view' = [view EXCEPT ![p] = NoView]
          /\ \E step : Goto(p, step)
      BY <1>4, <2>2
      DEF FileWrite, CreateAttempt, MarkSent, MarkReceived, MarkResult, MarkDiscrepancy,
          AppendSubmitted, AppendOutcome, AppendDiscrepancy, ReplaceStore, AddEvent, local,
          Working
    <3>. QED  BY <1>d, <3>1
  <2>. QED  BY <2>1, <2>2
<1>5. ASSUME NEW p \in Procs, PlaceOrder(p) PROVE Goal
  <2>1. pc[p] = "place" /\ view' = view /\ job' = job
    BY <1>5 DEF PlaceOrder, OrderFilled, OrderNetted, OrderCanceled, OrderRests,
                OrderRefused, OrderLate, Placed
  <2>2. \E step : Goto(p, step)
    BY <1>5 DEF PlaceOrder, OrderFilled, OrderNetted, OrderCanceled, OrderRests,
                OrderRefused, OrderLate, Answer
  <2>. QED  BY <1>d, <2>1, <2>2 DEF Working
<1>6. ASSUME NEW p \in Procs, Verify(p) PROVE Goal
  BY <1>6, <1>c, <1>d DEF Verify, Verified, Discrepancy, LookupRaises, Leave, local, Working
<1>7. ASSUME NEW p \in Procs, Crash(p) PROVE Goal
  BY <1>7, <1>c DEF Crash
<1>8. ASSUME NEW p \in Procs, NEW r \in Requests, Submit(p, r) PROVE Goal
  <2>1. q # p => Same
    BY <1>8 DEF Submit, Goto, TypeOK, Working
  <2>2. q = p => view'[q] = view[q] /\ job'[q].id = RequestId(r, job'[q].n)
    BY <1>8 DEF Submit, TypeOK
  <2>. QED  BY <1>a, <2>1, <2>2 DEF Copies
<1>9. CASE EditSettings \/ Tick \/ BrokerActs \/ UNCHANGED vars
  BY <1>9, <1>e DEF EditSettings, Tick, BrokerActs, vars, local
<1>. QED
  BY <1>1, <1>2, <1>3, <1>4, <1>5, <1>6, <1>7, <1>8, <1>9 DEF Next, Run

\* The statements that replace the file of records.
LEMMA StoreWriters ==
  ASSUME [Next]_vars
  PROVE  store' = store \/ \E p \in Procs :
           CreateAttempt(p) \/ MarkSent(p) \/ MarkReceived(p) \/ MarkResult(p)
             \/ MarkDiscrepancy(p) \/ MarkException(p)
<1>1. ASSUME NEW p \in Procs, AppendSubmitted(p) \/ AppendOutcome(p) \/ AppendDiscrepancy(p)
      PROVE  store' = store
  BY <1>1 DEF AppendSubmitted, AppendOutcome, AppendDiscrepancy, AddEvent
<1>2. ASSUME NEW p \in Procs, Start(p) \/ Policy(p) \/ Verify(p) \/ Crash(p)
      PROVE  store' = store
  BY <1>2 DEF Start, Policy, Refuse, PassPolicy, CloseExistingFirst, ListExisting,
              CloseExisting, CloseExistingRaises, ExistingClosed, Verify, Verified,
              Discrepancy, LookupRaises, Crash, files
<1>3. ASSUME NEW p \in Procs, FileRead(p) \/ PlaceOrder(p)
      PROVE  store' = store
  BY <1>3 DEF FileRead, ReadStore, ReadEvents, RecordMissing, AppendRaises, PlaceOrder,
              OrderFilled, OrderNetted, OrderCanceled, OrderRests, OrderRefused, OrderLate,
              Placed, files
<1>4. ASSUME NEW p \in Procs, NEW r \in Requests, Submit(p, r)
      PROVE  store' = store
  BY <1>4 DEF Submit, files
<1>5. CASE EditSettings \/ Tick \/ BrokerActs \/ UNCHANGED vars
  BY <1>5 DEF EditSettings, Tick, BrokerActs, vars, files
<1>. QED  BY <1>1, <1>2, <1>3, <1>4, <1>5 DEF Next, Run, FileWrite

\* What they write.
LEMMA StoreChanges ==
  ASSUME [Next]_vars, store' # store
  PROVE  \E p \in Procs :
           /\ view[p].held /\ Working(p)
           /\ \/ store' = Append(view[p].store,
                            AttemptRecord(job[p].n, job[p].id, KeyOf[job[p].req], now))
              \/ \E st \in Statuses : store' = WithStatus(view[p].store, job[p].id, st)
              \/ store' = WithResult(view[p].store, job[p].id, Parsed(reply[p].tx),
                                     reply[p].trade)
<1>1. PICK p \in Procs : CreateAttempt(p) \/ MarkSent(p) \/ MarkReceived(p) \/ MarkResult(p)
                           \/ MarkDiscrepancy(p) \/ MarkException(p)
  BY StoreWriters
<1>2. view[p].held /\ Working(p)
  BY <1>1 DEF CreateAttempt, MarkSent, MarkReceived, MarkResult, MarkDiscrepancy,
              MarkException, ReplaceStore, Working
<1>3. CASE CreateAttempt(p)
  BY <1>2, <1>3 DEF CreateAttempt, ReplaceStore
<1>4. CASE MarkSent(p) \/ MarkReceived(p) \/ MarkDiscrepancy(p) \/ MarkException(p)
  BY <1>2, <1>4
  DEF MarkSent, MarkReceived, MarkDiscrepancy, MarkException, ReplaceStore,
      Statuses, UnfinishedStatuses, OpenUnfinished, FinalStatuses
<1>5. CASE MarkResult(p)
  BY <1>2, <1>5 DEF MarkResult, ReplaceStore
<1>. QED  BY <1>1, <1>3, <1>4, <1>5

LEMMA NextIds == UuidsOnly /\ TypeOK /\ IdsInv /\ [Next]_vars => IdsInv'
<1> SUFFICES ASSUME UuidsOnly, TypeOK, IdsInv, [Next]_vars
             PROVE  IdsInv'
  OBVIOUS
<1>1. Fresh(store')
  <2>1. CASE store' = store
    BY <2>1 DEF IdsInv
  <2>2. CASE store' # store
    <3>1. PICK p \in Procs :
            /\ view[p].held /\ Working(p)
            /\ \/ store' = Append(view[p].store,
                             AttemptRecord(job[p].n, job[p].id, KeyOf[job[p].req], now))
               \/ \E st \in Statuses : store' = WithStatus(view[p].store, job[p].id, st)
               \/ store' = WithResult(view[p].store, job[p].id, Parsed(reply[p].tx),
                                      reply[p].trade)
      BY <2>2, StoreChanges
    <3>2. /\ Fresh(view[p].store) /\ view[p].store \in Seq(Record)
          /\ job[p].id = <<"uuid", job[p].n>>
          /\ job[p].n \in Nat /\ job[p].id \in RequestIds /\ KeyOf[job[p].req] \in Keys
          /\ now \in Nat
      BY <3>1, ConstantsAssumption DEF IdsInv, TypeOK
    <3>3. ASSUME NEW t, DOMAIN t = DOMAIN view[p].store,
                 \A i \in DOMAIN view[p].store :
                   t[i].n = view[p].store[i].n /\ t[i].id = view[p].store[i].id
          PROVE  Fresh(t)
      BY <3>2, <3>3 DEF Fresh
    <3>4. \A st : Fresh(WithStatus(view[p].store, job[p].id, st))
      BY <3>2, <3>3, StatusUpdate
    <3>5. \A st, tr : Fresh(WithResult(view[p].store, job[p].id, st, tr))
      BY <3>2, <3>3, ResultUpdate
    <3> DEFINE r == AttemptRecord(job[p].n, job[p].id, KeyOf[job[p].req], now)
    <3>6. r \in Record /\ r.id = <<"uuid", r.n>>
      BY <3>2, AttemptRecordType DEF AttemptRecord
    <3> HIDE DEF r
    <3>7. Fresh(Append(view[p].store, r))
      BY <3>2, <3>6, AppendRecord DEF Fresh
    <3>. QED  BY <3>1, <3>4, <3>5, <3>7 DEF r
  <2>. QED  BY <2>1, <2>2
<1>2. ASSUME NEW p \in Procs PROVE Fresh(view'[p].store)
  <2>1. Copies(p)
    BY JobsAndCopies
  <2>2. Fresh(view[p].store) /\ Fresh(store) /\ Fresh(<<>>)
    BY DEF IdsInv, Fresh
  <2>. QED  BY <2>1, <2>2 DEF Copies
<1>3. ASSUME NEW p \in Procs, Working(p)' PROVE job'[p].id = <<"uuid", job'[p].n>>
  <2>1. \A n : \A r \in Requests : RequestId(r, n) = <<"uuid", n>>
    BY DEF UuidsOnly, RequestId
  <2>. QED  BY <1>3, <2>1, JobsAndCopies DEF IdsInv
<1>. QED  BY <1>1, <1>2, <1>3 DEF IdsInv

LEMMA InitTruth == Init => TruthInv /\ CopyInUse /\ IdsInv
<1> SUFFICES ASSUME Init PROVE TruthInv /\ CopyInUse /\ IdsInv
  OBVIOUS
<1>1. /\ store = <<>> /\ book = <<>>
      /\ \A p \in Procs : /\ pc[p] = "down" /\ reply[p] = NoReply
                          /\ view[p] = NoView
  BY DEF Init
<1>2. OrderEach
  BY <1>1 DEF OrderEach, Working, BeforeOrder, BeforeEvent, BeforeRecord
<1>3. \A p \in Procs : Truthful(Told(p), book)
  BY <1>1, SaysNothing DEF Told
<1>. QED
  BY <1>1, <1>2, <1>3, SaysNothing DEF TruthInv, CopyInUse, IdsInv, Fresh, NoView, Working

\* Fresh ids make a record's id tell whose it is.
LEMMA FreshIsOwn ==
  TypeOK /\ IdsInv => ResultIsOwn
<1> SUFFICES ASSUME TypeOK, IdsInv, NEW p \in Procs, pc[p] = "result",
                    NEW i \in DOMAIN view[p].store, view[p].store[i].id = job[p].id
             PROVE  view[p].store[i].n = job[p].n
  BY DEF ResultIsOwn
<1>1. /\ view[p].store[i].id = <<"uuid", view[p].store[i].n>>
      /\ job[p].id = <<"uuid", job[p].n>>
  BY DEF IdsInv, Fresh, Working
<1>2. \A x, y : <<"uuid", x>> = <<"uuid", y>> => x = y
  OBVIOUS
<1>. QED  BY <1>1, <1>2

\* What honest records say is RecordsNeverLie: an order is its attempt's only one.
LEMMA HonestRecords == TruthInv => RecordsNeverLie
<1> SUFFICES ASSUME TruthInv, NEW i \in DOMAIN store, Unambiguous(store, i)
             PROVE  LET r == store[i]
                        mine == OrdersOf(r.n)
                    IN  /\ r.trade # NoTrade => r.trade \in mine
                        /\ r.status = "CANCELED" => \A t \in mine : book[t].state = "CANCELED"
                        /\ r.status = "FILLED" =>
                             \E t \in mine : book[t].state \in {"OPEN", "CLOSED", "NETTED"}
  BY DEF RecordsNeverLie
<1>1. Truthful(store[i], book)
  BY DEF TruthInv, Honest
<1>2. \A t, u \in DOMAIN book : book[t].n = book[u].n => t = u
  BY DEF TruthInv, OrderEach
<1>. QED  BY <1>1, <1>2 DEF Truthful, OrdersOf, Executed

\* What a record says of its order is so at the broker: any number of processes
\* lose each other's updates, crash and time out, and none of their records lies,
\* when no caller gives an id of its own (request_id = external_signal_id or uuid4).
THEOREM RecordsHonest == UuidsOnly => (Spec => []RecordsNeverLie)
<1> DEFINE I == TypeOK /\ CopyInUse /\ IdsInv /\ TruthInv
<1> SUFFICES ASSUME UuidsOnly PROVE Spec => []RecordsNeverLie
  OBVIOUS
<1>1. Init => I
  BY InitType, InitTruth
<1>2. I /\ [Next]_vars => I'
  BY NextType, NextCopies, NextIds, NextTruth, FreshIsOwn
<1>3. I => RecordsNeverLie
  BY HonestRecords
<1>. QED  BY <1>1, <1>2, <1>3, PTL DEF Spec
-----------------------------------------------------------------------------
(***************************************************************************)
(* A sole process, and ids that callers may repeat: the record in hand,    *)
(* and the orders that are or may become open trades.                      *)
(***************************************************************************)

\* The attempt in hand has a record, and its id leads to that record unless
\* several records have it.
LEMMA OwnRecord ==
  ASSUME TypeOK, IInv, RecordInHand, NEW p \in Procs, Working(p), pc[p] \notin BeforeRecord
  PROVE  /\ Holds(store, job[p].id)
         /\ \A i \in DOMAIN store :
              /\ Unambiguous(store, i) /\ store[i].id = job[p].id => store[i].n = job[p].n
              /\ Unambiguous(store, i) /\ store[i].n = job[p].n => i = First(store, job[p].id)
<1>1. PICK j \in DOMAIN store : store[j].n = job[p].n
  BY DEF IInv, AttemptInHand
<1>2. \A i \in DOMAIN store : store[i].n = job[p].n => store[i].id = job[p].id
  BY DEF RecordInHand
<1>3. Holds(store, job[p].id)
  BY <1>1, <1>2 DEF Holds
<1>4. /\ First(store, job[p].id) \in DOMAIN store
      /\ store[First(store, job[p].id)].id = job[p].id
  BY <1>3, FirstFound DEF TypeOK
<1>5. ASSUME NEW i \in DOMAIN store, Unambiguous(store, i), store[i].id = job[p].id
      PROVE  store[i].n = job[p].n
  BY <1>1, <1>2, <1>5 DEF Unambiguous
<1>6. ASSUME NEW i \in DOMAIN store, Unambiguous(store, i), store[i].n = job[p].n
      PROVE  i = First(store, job[p].id)
  BY <1>2, <1>4, <1>6 DEF Unambiguous
<1>. QED  BY <1>3, <1>5, <1>6

\* A sole process finds its own record for the result.
LEMMA SoleIsOwn ==
  TypeOK /\ IInv /\ RecordInHand => ResultIsOwn
<1> SUFFICES ASSUME TypeOK, IInv, RecordInHand,
                    NEW p \in Procs, pc[p] = "result", view[p].held
             PROVE  \A i \in DOMAIN view[p].store :
                      Unambiguous(view[p].store, i) /\ view[p].store[i].id = job[p].id =>
                        view[p].store[i].n = job[p].n
  BY DEF ResultIsOwn
<1>1. view[p].store = store
  BY DEF IInv, ViewsFresh, StoreSteps
<1>2. Working(p) /\ pc[p] \notin BeforeRecord
  BY DEF Working, BeforeRecord
<1>. QED  BY <1>1, <1>2, OwnRecord

\* A book in which no further order is or may become an open trade.
Fewer(b, c) ==
  /\ DOMAIN c = DOMAIN b
  /\ \A t \in DOMAIN b : c[t].n = b[t].n /\ (c[t].state \in Live => b[t].state \in Live)

LEMMA FewerMoved ==
  ASSUME NEW b \in Seq(B!Order), NEW t \in DOMAIN b, NEW st, Moves(b[t].state, st)
  PROVE  Fewer(b, B!Moved(b, t, st))
<1> DEFINE c == B!Moved(b, t, st)
<1>1. /\ DOMAIN c = DOMAIN b
      /\ \A u \in DOMAIN b :
           c[u].n = b[u].n /\ c[u].state = IF u = t THEN st ELSE b[u].state
  BY MovedBook
<1>2. st \in Live => b[t].state \in Live
  BY DEF Moves, Live
<1> HIDE DEF c
<1>3. Fewer(b, c)
  BY <1>1, <1>2 DEF Fewer
<1>. QED  BY <1>3 DEF c

LEMMA SurfacedFewer ==
  ASSUME NEW b, NEW c, Fewer(b, c)
  PROVE  \A r : Surfaced(r, b) => Surfaced(r, c)
BY DEF Surfaced, Fewer

\* A process goes on to a step that knows no more of its record.
Onward(p) ==
  Working(p)' =>
    /\ Working(p) /\ job'[p] = job[p] /\ reply'[p] = reply[p]
    /\ pc'[p] \in Unsettled => pc[p] \in Unsettled
    /\ pc'[p] \in {"place", "received", "result"} => pc[p] \in {"place", "received", "result"}
    /\ pc'[p] \in {"outcome", "verify", "discrepancy"} =>
         pc[p] \in {"outcome", "verify", "discrepancy"}
    /\ pc'[p] = "discrepancy" => pc[p] = "discrepancy" \/ Parsed(reply[p].tx) = "FILLED"

SameAnswer(p) == reply'[p] = NoReply \/ (reply'[p] = reply[p] /\ job'[p] = job[p])

LEMMA SurfacedAnswer ==
  ASSUME NEW p \in Procs, SameAnswer(p), Surfaced(Told(p), book), Fewer(book, book')
  PROVE  Surfaced(Told(p), book)'
<1>1. CASE reply'[p] = NoReply
  <2>1. Told(p)'.status = "UNKNOWN"
    BY <1>1 DEF Told, NoReply, Parsed
  <2>. QED  BY <2>1 DEF Surfaced, Surfacing
<1>2. CASE reply'[p] = reply[p] /\ job'[p] = job[p]
  <2>1. Told(p)' = Told(p)
    BY <1>2 DEF Told
  <2>2. Surfaced(Told(p), book')
    BY SurfacedFewer
  <2>. QED  BY <2>1, <2>2
<1>. QED  BY <1>1, <1>2 DEF SameAnswer

\* Steps that leave the records alone and place no order.
LEMMA SurfaceCalm ==
  ASSUME TypeOK, SurfaceInv, store' = store, Fewer(book, book'),
         \A p \in Procs : Onward(p) /\ SameAnswer(p)
  PROVE  SurfaceInv'
<1>1. RecordInHand'
  <2> SUFFICES ASSUME NEW p \in Procs, NEW i \in DOMAIN store, Working(p)',
                      store[i].n = job'[p].n
               PROVE  /\ store[i].id = job'[p].id
                      /\ Unambiguous(store, i) => Known(p, store[i])'
    BY DEF RecordInHand
  <2>1. Onward(p) /\ RecordInHand
    BY DEF SurfaceInv
  <2>. QED  BY <2>1 DEF Onward, RecordInHand, Known
<1>2. \A i \in DOMAIN store : Unambiguous(store, i) => Surfaced(store[i], book')
  BY SurfacedFewer DEF SurfaceInv
<1>3. ASSUME NEW p \in Procs PROVE Surfaced(Told(p), book)'
  BY SurfacedAnswer DEF SurfaceInv
<1>. QED  BY <1>1, <1>2, <1>3 DEF SurfaceInv

\* An update of the record in hand, and of no other that has no double.
LEMMA SurfaceUpdate ==
  ASSUME TypeOK, SoleProcess, IInv, SurfaceInv, book' = book,
         NEW p \in Procs, Working(p), pc[p] \notin BeforeRecord, SameAnswer(p),
         Working(p)' => job'[p] = job[p],
         DOMAIN store' = DOMAIN store,
         \A i \in DOMAIN store :
           /\ store'[i].n = store[i].n /\ store'[i].id = store[i].id
           /\ i # First(store, job[p].id) =>
                store'[i].status = store[i].status /\ store'[i].trade = store[i].trade,
         \A i \in DOMAIN store : Unambiguous(store, i) /\ store[i].n = job[p].n =>
           /\ Surfaced(store'[i], book)
           /\ Working(p)' => Known(p, store[i])'
  PROVE  SurfaceInv'
<1>1. \A q \in Procs : q = p
  BY DEF SoleProcess
<1>2. RecordInHand
  BY DEF SurfaceInv
<1>3. \A i \in DOMAIN store : Unambiguous(store', i) <=> Unambiguous(store, i)
  BY SameDoubles
<1>4. ASSUME NEW i \in DOMAIN store, Unambiguous(store, i), store[i].n # job[p].n
      PROVE  i # First(store, job[p].id)
  <2>1. Holds(store, job[p].id)
    BY <1>2, OwnRecord
  <2>2. store[First(store, job[p].id)].id = job[p].id
    BY <2>1, FirstFound DEF TypeOK
  <2>. QED  BY <1>2, <1>4, <2>2, OwnRecord
<1>5. ASSUME NEW i \in DOMAIN store, Unambiguous(store, i)
      PROVE  Surfaced(store'[i], book')
  <2>1. CASE store[i].n = job[p].n
    BY <1>5, <2>1
  <2>2. CASE store[i].n # job[p].n
    <3>1. /\ store'[i].n = store[i].n /\ store'[i].trade = store[i].trade
          /\ store'[i].status = store[i].status
      BY <1>4, <1>5, <2>2
    <3>2. Surfaced(store[i], book)
      BY <1>5 DEF SurfaceInv
    <3>. QED  BY <3>1, <3>2 DEF Surfaced
  <2>. QED  BY <2>1, <2>2
<1>6. ASSUME NEW i \in DOMAIN store, Working(p)', store[i].n = job'[p].n
      PROVE  /\ store'[i].id = job'[p].id
             /\ Unambiguous(store, i) => Known(p, store[i])'
  BY <1>2, <1>6 DEF RecordInHand
<1>7. RecordInHand'
  BY <1>1, <1>3, <1>6 DEF RecordInHand
<1>8. Fewer(book, book')
  BY DEF Fewer
<1>9. ASSUME NEW q \in Procs PROVE Surfaced(Told(q), book)'
  BY <1>1, <1>8, SurfacedAnswer DEF SurfaceInv
<1>. QED  BY <1>3, <1>5, <1>7, <1>9 DEF SurfaceInv

\* What the updates of execute_trade write.
LEMMA SurfaceMark ==
  ASSUME TypeOK, SoleProcess, IInv, SurfaceInv, NEW p \in Procs,
         MarkSent(p) \/ MarkReceived(p) \/ MarkResult(p) \/ MarkDiscrepancy(p)
           \/ MarkException(p)
  PROVE  SurfaceInv'
<1> DEFINE k == First(store, job[p].id)
<1>1. /\ view[p].store = store /\ book' = book /\ store \in Seq(Record)
      /\ Working(p) /\ pc[p] \notin BeforeRecord
  BY DEF MarkSent, MarkReceived, MarkResult, MarkDiscrepancy, MarkException, ReplaceStore,
         IInv, ViewsFresh, StoreSteps, Working, BeforeRecord, TypeOK
<1>2. \A i \in DOMAIN store : Unambiguous(store, i) /\ store[i].n = job[p].n => i = k
  BY <1>1, OwnRecord DEF SurfaceInv
<1>3. ASSUME NEW st, store' = WithStatus(store, job[p].id, st)
      PROVE  /\ DOMAIN store' = DOMAIN store
             /\ \A i \in DOMAIN store :
                  /\ store'[i].n = store[i].n /\ store'[i].id = store[i].id
                  /\ store'[i].trade = store[i].trade
                  /\ store'[i].status = IF i = k THEN st ELSE store[i].status
  BY <1>1, <1>3, StatusUpdate
<1>4. \A r, b : r.status \in Surfacing => Surfaced(r, b)
  BY DEF Surfaced
<1>5. \A i \in DOMAIN store :
        Unambiguous(store, i) /\ store[i].n = job[p].n => Known(p, store[i])
  BY <1>1 DEF SurfaceInv, RecordInHand
<1>6. Surfaced(Told(p), book)
  BY DEF SurfaceInv
<1>7. ASSUME NEW s, NEW step, ReplaceStore(p, s, step)
      PROVE  /\ store' = s /\ job' = job /\ reply' = reply /\ pc'[p] = step /\ SameAnswer(p)
  BY <1>7 DEF ReplaceStore, local, Goto, TypeOK, SameAnswer
<1>8. CASE MarkSent(p)
  <2>1. store' = WithStatus(store, job[p].id, "BROKER_REQUEST_SENT") /\ pc[p] = "send"
        /\ job' = job /\ reply' = reply /\ pc'[p] = "place" /\ SameAnswer(p)
    BY <1>1, <1>7, <1>8 DEF MarkSent
  <2> HIDE DEF k
  <2>2. ASSUME NEW i \in DOMAIN store, Unambiguous(store, i), store[i].n = job[p].n
        PROVE  Surfaced(store'[i], book) /\ Known(p, store[i])'
    <3>1. store'[i].status = "BROKER_REQUEST_SENT" /\ store'[i].trade = NoTrade
      BY <1>2, <1>3, <1>5, <2>1, <2>2 DEF Known, Unsettled
    <3>. QED  BY <1>4, <2>1, <3>1 DEF Known, Surfacing, OpenUnfinished
  <2>. QED  BY <1>1, <1>3, <2>1, <2>2, SurfaceUpdate DEF k
<1>9. CASE MarkReceived(p)
  <2>1. store' = WithStatus(store, job[p].id, "BROKER_RESPONSE_RECEIVED") /\ pc[p] = "received"
        /\ job' = job /\ reply' = reply /\ pc'[p] = "result" /\ SameAnswer(p)
    BY <1>1, <1>7, <1>9 DEF MarkReceived
  <2> HIDE DEF k
  <2>2. ASSUME NEW i \in DOMAIN store, Unambiguous(store, i), store[i].n = job[p].n
        PROVE  Surfaced(store'[i], book) /\ Known(p, store[i])'
    <3>1. store'[i].status = "BROKER_RESPONSE_RECEIVED" /\ store'[i].trade = NoTrade
      BY <1>2, <1>3, <1>5, <2>1, <2>2 DEF Known, Unsettled
    <3>. QED  BY <1>4, <2>1, <3>1 DEF Known, Surfacing, OpenUnfinished
  <2>. QED  BY <1>1, <1>3, <2>1, <2>2, SurfaceUpdate DEF k
<1>10. CASE MarkResult(p)
  <2>1. /\ store' = WithResult(store, job[p].id, Parsed(reply[p].tx), reply[p].trade)
        /\ job' = job /\ reply' = reply /\ pc'[p] \in {"outcome", "verify"} /\ SameAnswer(p)
    BY <1>1, <1>7, <1>10 DEF MarkResult
  <2>2. /\ DOMAIN store' = DOMAIN store
        /\ \A i \in DOMAIN store :
             /\ store'[i].n = store[i].n /\ store'[i].id = store[i].id
             /\ store'[i].trade = IF i = k THEN reply[p].trade ELSE store[i].trade
             /\ store'[i].status = IF i = k THEN Parsed(reply[p].tx) ELSE store[i].status
    BY <1>1, <2>1, ResultUpdate
  <2> HIDE DEF k
  <2>3. ASSUME NEW i \in DOMAIN store, Unambiguous(store, i), store[i].n = job[p].n
        PROVE  Surfaced(store'[i], book) /\ Known(p, store[i])'
    <3>1. /\ store'[i].n = Told(p).n /\ store'[i].trade = Told(p).trade
          /\ store'[i].status = Told(p).status
      BY <1>2, <2>2, <2>3 DEF Told
    <3>2. Surfaced(store'[i], book)
      BY <1>6, <3>1 DEF Surfaced
    <3>3. Known(p, store[i])'
      BY <2>1, <3>1 DEF Known, Told, Unsettled
    <3>. QED  BY <3>2, <3>3
  <2>. QED  BY <1>1, <2>1, <2>2, <2>3, SurfaceUpdate DEF k
<1>11. CASE MarkDiscrepancy(p)
  <2>1. store' = WithStatus(store, job[p].id, "DISCREPANCY") /\ pc[p] = "discrepancy"
        /\ job' = job /\ reply' = reply /\ pc'[p] = "flag" /\ SameAnswer(p)
    BY <1>1, <1>7, <1>11 DEF MarkDiscrepancy
  <2> HIDE DEF k
  <2>2. ASSUME NEW i \in DOMAIN store, Unambiguous(store, i), store[i].n = job[p].n
        PROVE  Surfaced(store'[i], book) /\ Known(p, store[i])'
    <3>1. store'[i].trade = reply[p].trade /\ Parsed(reply[p].tx) = "FILLED"
          /\ store'[i].n = job[p].n
      BY <1>3, <1>5, <2>1, <2>2 DEF Known
    <3>2. Told(p).status = "FILLED" /\ Told(p).trade = store'[i].trade
          /\ Told(p).n = store'[i].n
      BY <3>1 DEF Told
    <3>3. Surfaced(store'[i], book)
      BY <1>6, <3>2 DEF Surfaced, Surfacing
    <3>4. Known(p, store[i])'
      BY <2>1 DEF Known, Unsettled
    <3>. QED  BY <3>3, <3>4
  <2>. QED  BY <1>1, <1>3, <2>1, <2>2, SurfaceUpdate DEF k
<1>12. CASE MarkException(p)
  <2>1. store' = WithStatus(store, job[p].id, "EXCEPTION") /\ ~ Working(p)' /\ reply'[p] = NoReply
    BY <1>1, <1>12 DEF MarkException, Leave, LeaveTo, Goto, TypeOK, Working
  <2> HIDE DEF k
  <2>2. ASSUME NEW i \in DOMAIN store, Unambiguous(store, i), store[i].n = job[p].n
        PROVE  Surfaced(store'[i], book)
    <3>1. store'[i].status = "EXCEPTION"
      BY <1>2, <1>3, <2>1, <2>2
    <3>. QED  BY <1>4, <3>1 DEF Surfacing
  <2>3. SameAnswer(p)
    BY <2>1 DEF SameAnswer
  <2>. QED  BY <1>1, <1>3, <2>1, <2>2, <2>3, SurfaceUpdate DEF k
<1>. QED  BY <1>8, <1>9, <1>10, <1>11, <1>12

\* The record of a new attempt: there is no order yet that it could name.
LEMMA SurfaceCreate ==
  ASSUME TypeOK, SoleProcess, IInv, TruthInv, SurfaceInv, NEW p \in Procs, CreateAttempt(p)
  PROVE  SurfaceInv'
<1> DEFINE r == AttemptRecord(job[p].n, job[p].id, KeyOf[job[p].req], now)
<1>1. /\ view[p].store = store /\ book' = book /\ job' = job /\ reply' = reply
      /\ pc[p] = "create" /\ pc'[p] = "submitted" /\ store' = Append(store, r)
      /\ pc[p] \in BeforeRecord /\ pc[p] \in BeforeOrder
  BY DEF CreateAttempt, ReplaceStore, Goto, TypeOK, local, IInv, ViewsFresh, StoreSteps,
         BeforeOrder, BeforeEvent, BeforeRecord
<1>2. r \in Record
  BY AttemptRecordType, ConstantsAssumption DEF TypeOK
<1>3. /\ r.n = job[p].n /\ r.id = job[p].id /\ r.status = "ATTEMPT_STARTED"
      /\ r.trade = NoTrade
  BY DEF AttemptRecord
<1> HIDE DEF r
<1>4. /\ Len(store) \in Nat /\ DOMAIN store = 1..Len(store)
      /\ DOMAIN store' = 1..(Len(store) + 1)
      /\ \A i \in 1..Len(store) : store'[i] = store[i]
      /\ store'[Len(store) + 1] = r
  BY <1>1, <1>2, AppendRecord DEF TypeOK
<1>5. /\ \A i \in DOMAIN store : store[i].n # job[p].n
      /\ \A t \in DOMAIN book : book[t].n # job[p].n
  BY <1>1 DEF IInv, AttemptInHand, TruthInv, OrderEach
<1>6. \A q \in Procs : q = p
  BY DEF SoleProcess
<1>7. ASSUME NEW i \in DOMAIN store', store'[i].n = job[p].n
      PROVE  store'[i].id = job[p].id /\ Known(p, store[i])'
  <2>1. store'[i] = r
    BY <1>4, <1>5, <1>7
  <2>. QED  BY <1>1, <1>3, <2>1 DEF Known, OpenUnfinished
<1>8. RecordInHand'
  BY <1>1, <1>6, <1>7 DEF RecordInHand
<1>9. ASSUME NEW i \in DOMAIN store', Unambiguous(store', i)
      PROVE  Surfaced(store'[i], book')
  <2>1. CASE i = Len(store) + 1
    BY <1>1, <1>3, <1>4, <1>5, <2>1 DEF Surfaced
  <2>2. CASE i \in DOMAIN store
    <3>1. Unambiguous(store, i)
      BY <1>4, <1>9, <2>2 DEF Unambiguous
    <3>. QED  BY <1>1, <1>4, <2>2, <3>1 DEF SurfaceInv
  <2>. QED  BY <1>4, <2>1, <2>2
<1>10. ASSUME NEW q \in Procs PROVE Surfaced(Told(q), book)'
  <2>1. SameAnswer(q) /\ Fewer(book, book')
    BY <1>1 DEF SameAnswer, Fewer
  <2>. QED  BY <2>1, SurfacedAnswer DEF SurfaceInv
<1>. QED  BY <1>8, <1>9, <1>10 DEF SurfaceInv

\* An order on the book, whose record does not pass for settled yet.
LEMMA SurfaceOrder ==
  ASSUME TypeOK, SoleProcess, TruthInv, SurfaceInv, NEW p \in Procs, Placed(p),
         NEW b \in Seq(B!Order), Fewer(book, b),
         NEW state, book' = Append(b, OrderIn(p, state)),
         pc'[p] \in {"received", "failed"},
         \/ reply'[p] = reply[p]
         \/ Told(p)'.status \in Surfacing \/ state \notin Live \/ reply'[p].trade = Len(book) + 1
  PROVE  SurfaceInv'
<1> DEFINE o == OrderIn(p, state)
<1>1. /\ store' = store /\ job' = job /\ pc[p] = "place" /\ Working(p)
      /\ pc[p] \in BeforeOrder
  BY DEF Placed, files, Working, BeforeOrder
<1>2. /\ Len(b) \in Nat /\ DOMAIN b = 1..Len(b)
      /\ DOMAIN book' = 1..(Len(b) + 1)
      /\ \A t \in DOMAIN b : book'[t] = b[t]
      /\ book'[Len(b) + 1] = o
  BY AppendedBook
<1>3. o.n = job[p].n /\ o.state = state
  BY DEF OrderIn
<1> HIDE DEF o
<1>4. Len(b) = Len(book) /\ DOMAIN b = DOMAIN book
  <2>1. book \in Seq(B!Order) /\ DOMAIN b = DOMAIN book
    BY DEF Fewer, TypeOK
  <2>. QED  BY <2>1
<1>5. \A t \in DOMAIN book' :
        \/ /\ t \in DOMAIN book /\ book'[t].n = book[t].n
           /\ book'[t].state \in Live => book[t].state \in Live
        \/ t = Len(book) + 1 /\ book'[t].n = job[p].n /\ book'[t].state = state
  BY <1>2, <1>3, <1>4 DEF Fewer
<1>6. \A t \in DOMAIN book : book[t].n # job[p].n
  BY <1>1 DEF TruthInv, OrderEach
<1>7. \A q \in Procs : q = p
  BY DEF SoleProcess
<1>8. ASSUME NEW i \in DOMAIN store, Unambiguous(store, i) PROVE Surfaced(store[i], book')
  <2>1. CASE store[i].n = job[p].n
    <3>1. store[i].status \in Surfacing
      BY <1>1, <1>8, <2>1 DEF SurfaceInv, RecordInHand, Known
    <3>. QED  BY <3>1 DEF Surfaced
  <2>2. CASE store[i].n # job[p].n
    <3>1. Surfaced(store[i], book)
      BY <1>8 DEF SurfaceInv
    <3>. QED  BY <1>5, <2>2, <3>1 DEF Surfaced
  <2>. QED  BY <2>1, <2>2
<1>9. Surfaced(Told(p), book)'
  <2>1. CASE reply'[p] = reply[p]
    <3>1. Told(p)'.status = "UNKNOWN"
      BY <1>1, <2>1 DEF TruthInv, OrderEach, Told, NoReply, Parsed
    <3>. QED  BY <3>1 DEF Surfaced, Surfacing
  <2>2. CASE Told(p)'.status \in Surfacing
    BY <2>2 DEF Surfaced
  <2>3. CASE state \notin Live \/ reply'[p].trade = Len(book) + 1
    <3>1. Told(p)'.n = job[p].n /\ Told(p)'.trade = reply'[p].trade
      BY <1>1 DEF Told
    <3>. QED  BY <1>5, <1>6, <2>3, <3>1 DEF Surfaced
  <2>. QED  BY <2>1, <2>2, <2>3
<1>10. RecordInHand'
  <2>1. ASSUME NEW i \in DOMAIN store, store[i].n = job[p].n
        PROVE  store[i].id = job[p].id /\ (Unambiguous(store, i) => Known(p, store[i]))
    BY <1>1, <2>1 DEF SurfaceInv, RecordInHand
  <2>2. ASSUME NEW i \in DOMAIN store, Known(p, store[i])
        PROVE  Known(p, store[i])'
    BY <1>1, <2>2 DEF Known, Unsettled
  <2>. QED  BY <1>1, <1>7, <2>1, <2>2 DEF RecordInHand
<1>. QED  BY <1>1, <1>7, <1>8, <1>9, <1>10 DEF SurfaceInv

LEMMA SurfacePlace ==
  ASSUME TypeOK, SoleProcess, TruthInv, SurfaceInv, NEW p \in Procs, PlaceOrder(p)
  PROVE  SurfaceInv'
<1>1. /\ pc[p] = "place" /\ book \in Seq(B!Order) /\ Len(book) \in Nat
      /\ DOMAIN pc = Procs /\ DOMAIN reply = Procs /\ Placed(p)
      /\ Fewer(book, book)
  BY DEF PlaceOrder, OrderFilled, OrderNetted, OrderCanceled, OrderRests, OrderRefused,
         OrderLate, Placed, TypeOK, Fewer
<1>2. ASSUME NEW tx, NEW trade, Answer(p, tx, trade)
      PROVE  /\ pc'[p] \in {"received", "failed"}
             /\ \/ reply'[p] = reply[p]
                \/ reply'[p].trade = trade /\ Told(p)'.status = Parsed(tx)
  BY <1>1, <1>2 DEF Answer, Goto, Told
<1>3. Parsed({"create"}) = "PENDING"
  BY ParsedCases
<1>4. CASE OrderFilled(p)
  <2>1. book' = Append(book, OrderIn(p, "OPEN")) /\ Answer(p, {"create", "fill"}, Len(book) + 1)
    BY <1>4 DEF OrderFilled
  <2>. QED  BY <1>1, <1>2, <2>1, SurfaceOrder
<1>5. CASE OrderNetted(p)
  <2>1. PICK t \in B!Against(book, SymbolOf[job[p].req], SideOf[job[p].req]) :
          book' = Append(B!Moved(book, t, "CLOSED"), OrderIn(p, "NETTED"))
    BY <1>5 DEF OrderNetted
  <2> DEFINE b == B!Moved(book, t, "CLOSED")
  <2>2. t \in DOMAIN book /\ book[t].state = "OPEN"
    BY DEF B!Against, B!OpenOn
  <2>3. b \in Seq(B!Order) /\ Fewer(book, b)
    BY <1>1, <2>2, BookType, FewerMoved DEF B!OrderStates, Moves
  <2> HIDE DEF b
  <2>4. book' = Append(b, OrderIn(p, "NETTED"))
    BY <2>1 DEF b
  <2>5. pc'[p] \in {"received", "failed"} /\ "NETTED" \notin Live
    BY <1>2, <1>5 DEF OrderNetted, Live
  <2>. QED  BY <1>1, <2>3, <2>4, <2>5, SurfaceOrder
<1>6. CASE OrderCanceled(p)
  <2>1. book' = Append(book, OrderIn(p, "CANCELED")) /\ Answer(p, {"create", "cancel"}, NoTrade)
    BY <1>6 DEF OrderCanceled
  <2>2. "CANCELED" \notin Live
    BY DEF Live
  <2>. QED  BY <1>1, <1>2, <2>1, <2>2, SurfaceOrder
<1>7. CASE OrderRests(p)
  <2>1. book' = Append(book, OrderIn(p, "PENDING")) /\ Answer(p, {"create"}, NoTrade)
    BY <1>7 DEF OrderRests
  <2>2. "PENDING" \in Surfacing
    BY DEF Surfacing
  <2>. QED  BY <1>1, <1>2, <1>3, <2>1, <2>2, SurfaceOrder
<1>8. CASE OrderLate(p)
  <2>1. /\ book' = Append(book, OrderIn(p, "LATE")) /\ reply' = reply
        /\ pc'[p] \in {"received", "failed"}
    BY <1>1, <1>8 DEF OrderLate, Goto
  <2>. QED  BY <1>1, <2>1, SurfaceOrder
<1>9. CASE OrderRefused(p)
  <2>1. /\ Goto(p, "failed") /\ reply' = reply /\ book' = book /\ store' = store /\ job' = job
    BY <1>9 DEF OrderRefused, Placed, files
  <2>2. \A q \in Procs : Onward(q) /\ SameAnswer(q)
    BY <1>1, <2>1 DEF Onward, SameAnswer, Goto, Working, Unsettled, SoleProcess
  <2>. QED  BY <1>1, <2>1, <2>2, SurfaceCalm
<1>. QED  BY <1>4, <1>5, <1>6, <1>7, <1>8, <1>9 DEF PlaceOrder

\* A new attempt has no record and no answer.
LEMMA SurfaceSubmit ==
  ASSUME TypeOK, SoleProcess, IInv, TruthInv, SurfaceInv,
         NEW p \in Procs, NEW r \in Requests, Submit(p, r)
  PROVE  SurfaceInv'
<1>1. /\ store' = store /\ book' = book /\ reply' = reply
      /\ job'[p].n = attempts + 1 /\ attempts \in Nat /\ pc[p] = "idle"
  BY DEF Submit, TypeOK, files
<1>2. \A q \in Procs : q = p
  BY DEF SoleProcess
<1>3. \A i \in DOMAIN store : store[i].n # job'[p].n
  BY <1>1 DEF IInv, InOrder
<1>4. RecordInHand'
  BY <1>1, <1>2, <1>3 DEF RecordInHand
<1>5. ASSUME NEW q \in Procs PROVE Surfaced(Told(q), book)'
  <2>1. reply'[q] = NoReply
    BY <1>1, <1>2 DEF TruthInv, OrderEach
  <2>2. SameAnswer(q) /\ Fewer(book, book')
    BY <1>1, <2>1 DEF SameAnswer, Fewer
  <2>. QED  BY <2>2, SurfacedAnswer DEF SurfaceInv
<1>. QED  BY <1>1, <1>4, <1>5 DEF SurfaceInv

LEMMA NextSurface ==
  TypeOK /\ SoleProcess /\ IInv /\ TruthInv /\ SurfaceInv /\ [Next]_vars => SurfaceInv'
<1> SUFFICES ASSUME TypeOK, SoleProcess, IInv, TruthInv, SurfaceInv, [Next]_vars
             PROVE  SurfaceInv'
  OBVIOUS
<1> USE DEF Unsettled
<1>0. Fewer(book, book) /\ book \in Seq(B!Order) /\ \A p, q \in Procs : q = p
  BY DEF Fewer, SoleProcess, TypeOK
<1>a. ASSUME store' = store, book' = book, \A q \in Procs : Onward(q) /\ SameAnswer(q)
      PROVE  SurfaceInv'
  BY <1>0, <1>a, SurfaceCalm
<1>b. ASSUME NEW p \in Procs, NEW step \in {"down", "idle"}, LeaveTo(p, step)
      PROVE  \A q \in Procs : Onward(q) /\ SameAnswer(q)
  <2>1. ~ Working(p)' /\ reply'[p] = NoReply
    BY <1>b DEF LeaveTo, Goto, TypeOK, Working
  <2>. QED  BY <1>0, <2>1 DEF Onward, SameAnswer
<1>c. ASSUME NEW p \in Procs, NEW step, Goto(p, step), job' = job, reply' = reply,
             Working(p) \/ step = "idle",
             step \in Unsettled => pc[p] \in Unsettled,
             step \notin {"place", "received", "result", "outcome", "discrepancy"},
             step = "verify" => pc[p] = "outcome"
      PROVE  \A q \in Procs : Onward(q) /\ SameAnswer(q)
  <2>1. pc'[p] = step
    BY <1>c DEF Goto, TypeOK
  <2>. QED  BY <1>0, <1>c, <2>1 DEF Onward, SameAnswer, Working
<1>d. ASSUME job' = job, reply' = reply, pc' = pc
      PROVE  \A q \in Procs : Onward(q) /\ SameAnswer(q)
  BY <1>d DEF Onward, SameAnswer, Working
<1>e. ASSUME NEW p \in Procs, NEW type, NEW step, AddEvent(p, type, step), Working(p),
             step \in Unsettled => pc[p] \in Unsettled,
             step \notin {"place", "received", "result", "outcome", "discrepancy"},
             step = "verify" => pc[p] = "outcome"
      PROVE  SurfaceInv'
  <2>1. store' = store /\ book' = book /\ job' = job /\ reply' = reply /\ Goto(p, step)
    BY <1>e DEF AddEvent, local
  <2>. QED  BY <1>a, <1>c, <1>e, <2>1
<1>1. ASSUME NEW p \in Procs, Start(p) PROVE SurfaceInv'
  BY <1>1, <1>a, <1>c DEF Start, local, files
<1>2. ASSUME NEW p \in Procs, Policy(p) PROVE SurfaceInv'
  <2>1. CASE Refuse(p)
    BY <1>a, <1>b, <2>1 DEF Refuse, Leave, files
  <2>2. CASE PassPolicy(p) \/ CloseExistingFirst(p) \/ ListExisting(p) \/ ExistingClosed(p)
    <3>1. \A q \in Procs : Onward(q) /\ SameAnswer(q)
      BY <1>c, <2>2
      DEF PassPolicy, CloseExistingFirst, ListExisting, ExistingClosed, local, Working
    <3>. QED
      BY <1>a, <2>2, <3>1
      DEF PassPolicy, CloseExistingFirst, ListExisting, ExistingClosed, files
  <2>3. CASE CloseExisting(p)
    <3>1. PICK t \in doomed[p] :
            book[t].state = "OPEN" /\ (book' = book \/ book' = B!Moved(book, t, "CLOSED"))
      BY <2>3 DEF CloseExisting
    <3>2. Fewer(book, book')
      <4>1. CASE t \in DOMAIN book
        BY <1>0, <3>1, <4>1, FewerMoved DEF Moves
      <4>2. CASE t \notin DOMAIN book
        BY <1>0, <3>1, <4>2, MovedNowhere
      <4>. QED  BY <4>1, <4>2
    <3>. QED  BY <1>d, <2>3, <3>2, SurfaceCalm DEF CloseExisting, files
  <2>4. CASE CloseExistingRaises(p)
    <3>1. PICK t \in doomed[p] :
            \/ book' = book
            \/ book[t].state = "OPEN" /\ book' = B!Moved(book, t, "CLOSED")
      BY <2>4 DEF CloseExistingRaises
    <3>2. Fewer(book, book')
      <4>1. CASE t \in DOMAIN book
        BY <1>0, <3>1, <4>1, FewerMoved DEF Moves
      <4>2. CASE t \notin DOMAIN book
        BY <1>0, <3>1, <4>2, MovedNowhere
      <4>. QED  BY <4>1, <4>2
    <3>. QED  BY <1>b, <2>4, <3>2, SurfaceCalm DEF CloseExistingRaises, Leave, files
  <2>. QED  BY <1>2, <2>1, <2>2, <2>3, <2>4 DEF Policy
<1>3. ASSUME NEW p \in Procs, FileRead(p) PROVE SurfaceInv'
  <2>1. CASE ReadStore(p) \/ ReadEvents(p)
    BY <1>a, <1>d, <2>1 DEF ReadStore, ReadEvents, local, files
  <2>2. CASE RecordMissing(p)
    BY <1>a, <1>b, <1>c, <2>2 DEF RecordMissing, Leave, local, files, StoreSteps, Working
  <2>3. CASE AppendRaises(p)
    BY <1>a, <1>b, <1>c, <2>3 DEF AppendRaises, Leave, local, files, EventSteps, Working
  <2>. QED  BY <1>3, <2>1, <2>2, <2>3 DEF FileRead
<1>4. ASSUME NEW p \in Procs, FileWrite(p) PROVE SurfaceInv'
  BY <1>4, <1>e, SurfaceCreate, SurfaceMark
  DEF FileWrite, AppendSubmitted, AppendOutcome, AppendDiscrepancy, Working
<1>5. ASSUME NEW p \in Procs, PlaceOrder(p) PROVE SurfaceInv'
  BY <1>5, SurfacePlace
<1>6. ASSUME NEW p \in Procs, Verify(p) PROVE SurfaceInv'
  <2>1. CASE Verified(p)
    BY <1>a, <1>b, <2>1 DEF Verified, Leave, files
  <2>2. CASE Discrepancy(p)
    <3>1. /\ pc[p] = "verify" /\ pc'[p] = "discrepancy" /\ job' = job /\ reply' = reply
          /\ Parsed(reply[p].tx) = "FILLED"
      BY <2>2 DEF Discrepancy, Goto, TypeOK, local
    <3>2. \A q \in Procs : Onward(q) /\ SameAnswer(q)
      BY <1>0, <3>1 DEF Onward, SameAnswer, Working
    <3>. QED  BY <1>a, <2>2, <3>2 DEF Discrepancy, files
  <2>3. CASE LookupRaises(p)
    BY <1>a, <1>c, <2>3 DEF LookupRaises, local, files, Working
  <2>. QED  BY <1>6, <2>1, <2>2, <2>3 DEF Verify
<1>7. ASSUME NEW p \in Procs, Crash(p) PROVE SurfaceInv'
  BY <1>7, <1>a, <1>b DEF Crash, files
<1>8. ASSUME NEW p \in Procs, NEW r \in Requests, Submit(p, r) PROVE SurfaceInv'
  BY <1>8, SurfaceSubmit
<1>9. CASE EditSettings \/ Tick \/ UNCHANGED vars
  BY <1>9, <1>a, <1>d DEF EditSettings, Tick, vars, files, local
<1>10. CASE BrokerActs
  <2>1. PICK t \in DOMAIN book : \E st \in B!BrokerMove(book, t) : book' = B!Moved(book, t, st)
    BY <1>10 DEF BrokerActs
  <2>2. PICK st \in B!BrokerMove(book, t) : book' = B!Moved(book, t, st)
    BY <2>1
  <2>3. Moves(book[t].state, st)
    BY <2>2 DEF Moves, B!BrokerMove
  <2>4. Fewer(book, book')
    BY <1>0, <2>2, <2>3, FewerMoved
  <2>. QED  BY <1>10, <1>d, <2>4, SurfaceCalm DEF BrokerActs, files, local
<1>. QED
  BY <1>1, <1>2, <1>3, <1>4, <1>5, <1>6, <1>7, <1>8, <1>9, <1>10 DEF Next, Run

LEMMA InitSurface == Init => SurfaceInv
<1> SUFFICES ASSUME Init PROVE SurfaceInv
  OBVIOUS
<1>1. store = <<>> /\ book = <<>>
  BY DEF Init
<1>. QED  BY <1>1 DEF SurfaceInv, RecordInHand, Surfaced

\* The invariant of a sole process, whatever ids the callers give.
SoleInv == TypeOK /\ IInv /\ CopyInUse /\ TruthInv /\ SurfaceInv

LEMMA SoleInvariants == SoleProcess => (Spec => []SoleInv)
<1> SUFFICES ASSUME SoleProcess PROVE Spec => []SoleInv
  OBVIOUS
<1>1. Init => SoleInv
  BY InitType, InitInv, InitTruth, InitSurface DEF SoleInv
<1>2. SoleInv /\ [Next]_vars => SoleInv'
  BY NextType, NextInv, NextCopies, NextTruth, NextSurface, SoleIsOwn DEF SoleInv, SurfaceInv
<1>. QED  BY <1>1, <1>2, PTL DEF Spec

\* A sole process writes no lie either, even if its callers repeat their ids: a
\* record that has no double is never overwritten with another attempt's answer.
THEOREM SoleRecordsHonest == SoleProcess => (Spec => []RecordsNeverLie)
<1> SUFFICES ASSUME SoleProcess PROVE Spec => []RecordsNeverLie
  OBVIOUS
<1>1. SoleInv => RecordsNeverLie
  BY HonestRecords DEF SoleInv
<1>. QED  BY <1>1, SoleInvariants, PTL

\* No order leaves the book, and none changes its attempt.
LEMMA BookKeeps ==
  ASSUME TypeOK, [Next]_vars
  PROVE  DOMAIN book \subseteq DOMAIN book' /\ \A t \in DOMAIN book : book'[t].n = book[t].n
<1> DEFINE Keep(b) == DOMAIN book \subseteq DOMAIN b /\ \A t \in DOMAIN book : b[t].n = book[t].n
<1>1. Keep(book) /\ \A t, st : Keep(B!Moved(book, t, st))
  BY MoveKeepsOrders DEF SameOrders, TypeOK
<1>2. ASSUME NEW b \in Seq(B!Order), Keep(b), NEW o PROVE Keep(Append(b, o))
  BY <1>2, AppendedBook
<1>3. \A t : \A st \in B!OrderStates : B!Moved(book, t, st) \in Seq(B!Order)
  BY BookType DEF TypeOK
<1> HIDE DEF Keep
<1>4. ASSUME NEW p \in Procs, Start(p) \/ Policy(p) \/ Verify(p) \/ Crash(p) PROVE Keep(book')
  BY <1>1, <1>4
  DEF Start, Policy, Refuse, PassPolicy, CloseExistingFirst, ListExisting, CloseExisting,
      CloseExistingRaises, ExistingClosed, Verify, Verified, Discrepancy, LookupRaises, Crash
<1>5. ASSUME NEW p \in Procs, FileRead(p) \/ FileWrite(p) PROVE Keep(book')
  BY <1>1, <1>5
  DEF FileRead, ReadStore, ReadEvents, RecordMissing, AppendRaises, FileWrite, CreateAttempt,
      MarkSent, MarkReceived, MarkResult, MarkDiscrepancy, MarkException, AppendSubmitted,
      AppendOutcome, AppendDiscrepancy, ReplaceStore, AddEvent
<1>6. ASSUME NEW p \in Procs, PlaceOrder(p) PROVE Keep(book')
  <2>1. CASE OrderNetted(p)
    <3>1. PICK t : book' = Append(B!Moved(book, t, "CLOSED"), OrderIn(p, "NETTED"))
      BY <2>1 DEF OrderNetted
    <3>. QED  BY <1>1, <1>2, <1>3, <3>1 DEF B!OrderStates
  <2>2. CASE OrderRefused(p)
    BY <1>1, <2>2 DEF OrderRefused
  <2>3. CASE OrderFilled(p) \/ OrderCanceled(p) \/ OrderRests(p) \/ OrderLate(p)
    <3>1. book \in Seq(B!Order) /\ \E o : book' = Append(book, o)
      BY <2>3 DEF OrderFilled, OrderCanceled, OrderRests, OrderLate, TypeOK
    <3>. QED  BY <1>1, <1>2, <3>1
  <2>. QED  BY <1>6, <2>1, <2>2, <2>3 DEF PlaceOrder
<1>7. ASSUME NEW p \in Procs, NEW r \in Requests, Submit(p, r) PROVE Keep(book')
  BY <1>1, <1>7 DEF Submit
<1>8. CASE EditSettings \/ Tick \/ UNCHANGED vars
  BY <1>1, <1>8 DEF EditSettings, Tick, vars
<1>9. CASE BrokerActs
  <2>1. PICK t \in DOMAIN book : \E to : book' = B!Moved(book, t, to)
    BY <1>9 DEF BrokerActs
  <2>2. PICK st : book' = B!Moved(book, t, st)
    BY <2>1
  <2>3. Keep(B!Moved(book, t, st))
    BY <1>1
  <2>. QED  BY <2>2, <2>3 DEF Keep
<1>. QED  BY <1>4, <1>5, <1>6, <1>7, <1>8, <1>9 DEF Next, Run, Keep

\* The answer in hand names a trade of the attempt in hand, and all that is ever
\* written on a record with its request_id.
LEMMA NextNamed ==
  ASSUME SoleInv, NamedInv, [Next]_vars
  PROVE  NamedInv'
<1>1. DOMAIN book \subseteq DOMAIN book' /\ \A t \in DOMAIN book : book'[t].n = book[t].n
  BY BookKeeps DEF SoleInv
<1>2. CASE store' = store
  BY <1>1, <1>2 DEF NamedInv
<1>3. CASE store' # store
  <2>1. PICK p \in Procs : CreateAttempt(p) \/ MarkSent(p) \/ MarkReceived(p)
                             \/ MarkResult(p) \/ MarkDiscrepancy(p) \/ MarkException(p)
    BY <1>3, StoreWriters
  <2> DEFINE k == First(store, job[p].id)
  <2>2. view[p].store = store /\ store \in Seq(Record) /\ Working(p)
    BY <2>1
    DEF CreateAttempt, MarkSent, MarkReceived, MarkResult, MarkDiscrepancy, MarkException,
        ReplaceStore, SoleInv, IInv, ViewsFresh, StoreSteps, Working, TypeOK
  <2>3. CASE CreateAttempt(p)
    <3> DEFINE r == AttemptRecord(job[p].n, job[p].id, KeyOf[job[p].req], now)
    <3>1. store' = Append(store, r) /\ pc[p] \in BeforeOrder
      BY <2>2, <2>3
      DEF CreateAttempt, ReplaceStore, BeforeOrder, BeforeEvent, BeforeRecord
    <3>2. r \in Record /\ r.n = job[p].n /\ r.trade = NoTrade
      BY AttemptRecordType, ConstantsAssumption DEF SoleInv, TypeOK, AttemptRecord
    <3> HIDE DEF r
    <3>3. /\ Len(store) \in Nat /\ DOMAIN store = 1..Len(store)
          /\ DOMAIN store' = 1..(Len(store) + 1)
          /\ \A i \in 1..Len(store) : store'[i] = store[i]
          /\ store'[Len(store) + 1] = r
      BY <2>2, <3>1, <3>2, AppendRecord
    <3>4. \A t \in DOMAIN book : book[t].n # job[p].n
      BY <3>1 DEF SoleInv, TruthInv, OrderEach
    <3>. QED  BY <1>1, <3>2, <3>3, <3>4 DEF NamedInv
  <2>4. CASE MarkSent(p) \/ MarkReceived(p) \/ MarkDiscrepancy(p) \/ MarkException(p)
    <3>1. \E st : store' = WithStatus(store, job[p].id, st)
      BY <2>2, <2>4 DEF MarkSent, MarkReceived, MarkDiscrepancy, MarkException, ReplaceStore
    <3>2. /\ DOMAIN store' = DOMAIN store
          /\ \A i \in DOMAIN store :
               /\ store'[i].n = store[i].n /\ store'[i].id = store[i].id
               /\ store'[i].trade = store[i].trade
      BY <2>2, <3>1, StatusUpdate
    <3>. QED  BY <1>1, <3>2 DEF NamedInv
  <2>5. CASE MarkResult(p)
    <3>1. store' = WithResult(store, job[p].id, Parsed(reply[p].tx), reply[p].trade)
          /\ pc[p] \notin BeforeRecord
      BY <2>2, <2>5 DEF MarkResult, ReplaceStore, BeforeRecord
    <3>2. /\ DOMAIN store' = DOMAIN store
          /\ \A i \in DOMAIN store :
               /\ store'[i].n = store[i].n /\ store'[i].id = store[i].id
               /\ store'[i].trade = IF i = k THEN reply[p].trade ELSE store[i].trade
      BY <2>2, <3>1, ResultUpdate
    <3>3. k \in DOMAIN store /\ store[k].id = job[p].id
      BY <2>2, <3>1, OwnRecord, FirstFound DEF SoleInv, SurfaceInv
    <3>4. reply[p].trade # NoTrade =>
            /\ reply[p].trade \in DOMAIN book
            /\ \A j \in DOMAIN store :
                 store[j].n = book[reply[p].trade].n => store[j].id = job[p].id
      BY <2>2 DEF SoleInv, TruthInv, Truthful, Told, SurfaceInv, RecordInHand
    <3> HIDE DEF k
    <3>. QED  BY <1>1, <3>2, <3>3, <3>4 DEF NamedInv
  <2>. QED  BY <2>1, <2>3, <2>4, <2>5
<1>. QED  BY <1>2, <1>3

\* Wherever an attempt of a sole process is stopped, by a crash, a timeout or a
\* disk that is full, an open trade its record does not name leaves the record in
\* a status that does not pass for settled, and the reconciler reports the trade:
\* no other record names it.
THEOREM OpenTradesAreSeen == SoleProcess => (Spec => []OpenTradesSurface)
<1> SUFFICES ASSUME SoleProcess PROVE Spec => []OpenTradesSurface
  OBVIOUS
<1>1. Init => NamedInv
  BY DEF Init, NamedInv
<1>2. SoleInv /\ NamedInv /\ [Next]_vars => NamedInv'
  BY NextNamed
<1>3. ASSUME SoleInv, NamedInv, NEW i \in DOMAIN store, Unambiguous(store, i),
             NEW t \in OrdersOf(store[i].n), book[t].state = "OPEN", t # store[i].trade
      PROVE  store[i].status \in Surfacing /\ t \in UnknownOpenTrades
  <2>1. t \in DOMAIN book /\ book[t].n = store[i].n
    BY <1>3 DEF OrdersOf
  <2>2. store[i].status \in Surfacing
    BY <1>3, <2>1 DEF SoleInv, SurfaceInv, Surfaced, Live
  <2>3. ASSUME NEW j \in DOMAIN store, store[j].trade = t, t # NoTrade PROVE FALSE
    <3>1. store[i].id = store[j].id
      BY <1>3, <2>1, <2>3 DEF NamedInv
    <3>. QED  BY <1>3, <2>3, <3>1 DEF Unambiguous
  <2>. QED  BY <1>3, <2>1, <2>2, <2>3 DEF UnknownOpenTrades, KnownTrades
<1>4. SoleInv /\ NamedInv => OpenTradesSurface
  BY <1>3 DEF OpenTradesSurface
<1>. QED  BY <1>1, <1>2, <1>4, SoleInvariants, PTL DEF Spec

\* No update of a sole process reopens a settled record or takes its trade away.
LEMMA SettledStep ==
  ASSUME SoleProcess, SoleInv, [Next]_vars,
         NEW i \in DOMAIN store, Unambiguous(store, i), store[i].status \notin UnfinishedStatuses
  PROVE  /\ i \in DOMAIN store'
         /\ store'[i].status \notin UnfinishedStatuses
         /\ store'[i].trade = store[i].trade
<1>0. store \in Seq(Record) /\ store[i] \in Record
  BY DEF SoleInv, TypeOK
<1>a. CASE store' = store
  BY <1>a
<1>b. ASSUME NEW p \in Procs, MarkSent(p) \/ MarkReceived(p) \/ MarkResult(p)
                               \/ MarkDiscrepancy(p) \/ MarkException(p)
      PROVE  /\ view[p].store = store /\ Working(p) /\ pc[p] \notin BeforeRecord
             /\ i = First(store, job[p].id) => Known(p, store[i])
  <2>1. view[p].store = store /\ Working(p) /\ pc[p] \notin BeforeRecord
    BY <1>b DEF MarkSent, MarkReceived, MarkResult, MarkDiscrepancy, MarkException,
       ReplaceStore, SoleInv, IInv, ViewsFresh, StoreSteps, Working, BeforeRecord
  <2>2. ASSUME i = First(store, job[p].id) PROVE Known(p, store[i])
    <3>1. RecordInHand /\ TypeOK /\ IInv
      BY DEF SoleInv, SurfaceInv
    <3>2. Holds(store, job[p].id)
      BY <2>1, <3>1, OwnRecord
    <3>3. store[i].id = job[p].id
      BY <1>0, <2>2, <3>2, FirstFound
    <3>4. store[i].n = job[p].n
      BY <2>1, <3>1, <3>3, OwnRecord
    <3>. QED  BY <2>1, <3>1, <3>4 DEF RecordInHand
  <2>. QED  BY <2>1, <2>2
<1>c. ASSUME NEW p \in Procs, NEW st, store' = WithStatus(store, job[p].id, st)
      PROVE  /\ i \in DOMAIN store' /\ store'[i].trade = store[i].trade
             /\ store'[i].status = IF i = First(store, job[p].id) THEN st ELSE store[i].status
  BY <1>0, <1>c, StatusUpdate
<1>1. ASSUME NEW p \in Procs, MarkSent(p) \/ MarkReceived(p) \/ MarkResult(p)
      PROVE  i \in DOMAIN store' /\ store'[i].status = store[i].status
               /\ store'[i].trade = store[i].trade
  <2>1. pc[p] \in {"send", "received", "result"}
    BY <1>1 DEF MarkSent, MarkReceived, MarkResult
  <2>2. view[p].store = store /\ i # First(store, job[p].id)
    BY <1>1, <1>b, <2>1 DEF Known, Unsettled, UnfinishedStatuses
  <2>3. CASE MarkResult(p)
    BY <1>0, <2>2, <2>3, ResultUpdate DEF MarkResult, ReplaceStore
  <2>. QED  BY <1>1, <1>c, <2>2, <2>3 DEF MarkSent, MarkReceived, ReplaceStore
<1>2. ASSUME NEW p \in Procs, MarkDiscrepancy(p) \/ MarkException(p)
      PROVE  /\ i \in DOMAIN store' /\ store'[i].trade = store[i].trade
             /\ store'[i].status \notin UnfinishedStatuses
  <2>1. \E st \in {"DISCREPANCY", "EXCEPTION"} : store' = WithStatus(store, job[p].id, st)
    BY <1>2, <1>b DEF MarkDiscrepancy, MarkException, ReplaceStore
  <2>. QED  BY <1>c, <2>1 DEF UnfinishedStatuses, OpenUnfinished, CloseUnfinished
<1>3. ASSUME NEW p \in Procs, CreateAttempt(p)
      PROVE  i \in DOMAIN store' /\ store'[i] = store[i]
  <2>1. view[p].store = store
    BY <1>3 DEF CreateAttempt, ReplaceStore, SoleInv, IInv, ViewsFresh, StoreSteps
  <2>2. \E r : store' = Append(store, r)
    BY <1>3, <2>1 DEF CreateAttempt, ReplaceStore
  <2>. QED  BY <1>0, <2>2
<1>4. store' = store \/ \E p \in Procs :
        CreateAttempt(p) \/ MarkSent(p) \/ MarkReceived(p) \/ MarkResult(p)
          \/ MarkDiscrepancy(p) \/ MarkException(p)
  BY StoreWriters
<1>. QED  BY <1>a, <1>1, <1>2, <1>3, <1>4

\* A settled record of a sole process is settled for good and keeps its trade.
THEOREM SettledStays == SoleProcess => (Spec => SettledForGood)
<1> SUFFICES ASSUME SoleProcess PROVE Spec => SettledForGood
  OBVIOUS
<1> DEFINE Kept == \A i \in DOMAIN store :
             Unambiguous(store, i) /\ store[i].status \notin UnfinishedStatuses =>
               /\ i \in DOMAIN store'
               /\ Unambiguous(store', i) =>
                    /\ store'[i].status \notin UnfinishedStatuses
                    /\ store'[i].trade = store[i].trade
<1>1. SoleInv /\ [Next]_vars => [Kept]_store
  BY SettledStep
<1>2. Spec => [][Kept]_store
  BY <1>1, SoleInvariants, PTL DEF Spec
<1>. QED  BY <1>2 DEF SettledForGood
-----------------------------------------------------------------------------
(***************************************************************************)
(* One open trade for a symbol: a sole process, orders that are filled or  *)
(* cancelled at once, and no request that may add to a position.           *)
(***************************************************************************)
Pending == {"PENDING", "LATE"}

\* A book in which trades are closed and nothing else happens.
Shrinks(b, c) ==
  /\ DOMAIN c = DOMAIN b
  /\ \A t \in DOMAIN b : /\ c[t].n = b[t].n /\ c[t].symbol = b[t].symbol
                         /\ c[t].state = "OPEN" => b[t].state = "OPEN"
                         /\ c[t].state \notin Pending

LEMMA ShrinksMoved ==
  ASSUME NEW b \in Seq(B!Order), \A t \in DOMAIN b : b[t].state \notin Pending
  PROVE  /\ Shrinks(b, b)
         /\ \A t : Shrinks(b, B!Moved(b, t, "CLOSED"))
<1>1. Shrinks(b, b)
  BY DEF Shrinks
<1>2. ASSUME NEW t PROVE Shrinks(b, B!Moved(b, t, "CLOSED"))
  <2>1. CASE t \in DOMAIN b
    <3> DEFINE c == B!Moved(b, t, "CLOSED")
    <3>1. /\ DOMAIN c = DOMAIN b
          /\ \A u \in DOMAIN b :
               /\ c[u].n = b[u].n /\ c[u].symbol = b[u].symbol
               /\ c[u].state = IF u = t THEN "CLOSED" ELSE b[u].state
      BY <2>1, MovedBook
    <3> HIDE DEF c
    <3>2. Shrinks(b, c)
      BY <3>1 DEF Shrinks, Pending
    <3>. QED  BY <3>2 DEF c
  <2>2. CASE t \notin DOMAIN b
    BY <1>1, <2>2, MovedNowhere
  <2>. QED  BY <2>1, <2>2
<1>. QED  BY <1>1, <1>2

\* Where only missed trades are open on the symbol of the request.
Clear == {"create", "submitted", "send", "place"}

\* What an executor took for closed stays noted.
LEMMA MissedGrows == [Next]_vars => missed \subseteq missed'
<1> SUFFICES ASSUME [Next]_vars PROVE missed \subseteq missed'
  OBVIOUS
<1>1. ASSUME NEW p \in Procs, Policy(p) PROVE missed \subseteq missed'
  BY <1>1 DEF Policy, Refuse, PassPolicy, Unaware, CloseExistingFirst, ListExisting,
              CloseExisting, CloseExistingRaises, ExistingClosed
<1>2. ASSUME NEW p \in Procs, FileRead(p) \/ FileWrite(p) PROVE missed' = missed
  BY <1>2 DEF FileRead, ReadStore, ReadEvents, RecordMissing, AppendRaises, FileWrite,
              CreateAttempt, MarkSent, MarkReceived, MarkResult, MarkDiscrepancy,
              MarkException, AppendSubmitted, AppendOutcome, AppendDiscrepancy,
              ReplaceStore, AddEvent
<1>3. ASSUME NEW p \in Procs, PlaceOrder(p) PROVE missed' = missed
  BY <1>3 DEF PlaceOrder, OrderFilled, OrderNetted, OrderCanceled, OrderRests,
              OrderRefused, OrderLate, Placed
<1>4. ASSUME NEW p \in Procs, Start(p) \/ Verify(p) \/ Crash(p) PROVE missed' = missed
  BY <1>4 DEF Start, Verify, Verified, Discrepancy, LookupRaises, Crash
<1>5. ASSUME NEW p \in Procs, NEW r \in Requests, Submit(p, r) PROVE missed' = missed
  BY <1>5 DEF Submit
<1>6. CASE EditSettings \/ Tick \/ BrokerActs \/ UNCHANGED vars
  BY <1>6 DEF EditSettings, Tick, BrokerActs, vars
<1>. QED  BY <1>1, <1>2, <1>3, <1>4, <1>5, <1>6 DEF Next, Run

\* Steps that add no order, of a process that knows no more of its symbol.
LEMMA OneCalm ==
  ASSUME TypeOK, OneInv, Shrinks(book, book'), missed \subseteq missed',
         \A p \in Procs :
           /\ pc'[p] = "closing" =>
                pc[p] = "closing" /\ job'[p] = job[p] /\ doomed'[p] = doomed[p]
           /\ pc'[p] \in Clear =>
                job'[p] = job[p] /\ (pc[p] \in Clear \/ OpenOnSymbol(p) \subseteq missed')
  PROVE  OneInv'
<1>1. ASSUME NEW p \in Procs, job'[p] = job[p]
      PROVE  OpenOnSymbol(p)' \subseteq OpenOnSymbol(p)
  BY <1>1 DEF OpenOnSymbol, B!OpenOn, Shrinks
<1>2. ASSUME NEW p \in Procs, pc'[p] = "closing"
      PROVE  OpenOnSymbol(p)' \subseteq doomed'[p] \cup missed'
  <2>1. OpenOnSymbol(p) \subseteq doomed[p] \cup missed
    BY <1>2 DEF OneInv
  <2>. QED  BY <1>1, <1>2, <2>1
<1>3. ASSUME NEW p \in Procs, pc'[p] \in Clear
      PROVE  OpenOnSymbol(p)' \subseteq missed'
  <2>1. pc[p] \in Clear => OpenOnSymbol(p) \subseteq missed
    BY DEF OneInv, Clear
  <2>. QED  BY <1>1, <1>3, <2>1
<1>4. \A t \in DOMAIN book' : book'[t].state \notin {"PENDING", "LATE"}
  BY DEF Shrinks, Pending
<1>5. OneOpenTrade'
  BY DEF OneInv, OneOpenTrade, Shrinks
<1>. QED  BY <1>2, <1>3, <1>4, <1>5 DEF OneInv, Clear

\* The order: the policy has seen to it that nothing else but missed trades is open.
LEMMA OneOrder ==
  ASSUME TypeOK, SoleProcess, OrdersAtOnce, OneInv, NEW p \in Procs, PlaceOrder(p)
  PROVE  OneInv'
<1>1. /\ pc[p] = "place" /\ book \in Seq(B!Order) /\ job' = job /\ missed' = missed
      /\ pc \in [Procs -> Steps] /\ \A q \in Procs : q = p
  BY DEF PlaceOrder, OrderFilled, OrderNetted, OrderCanceled, OrderRests, OrderRefused,
         OrderLate, Placed, TypeOK, SoleProcess
<1>2. OpenOnSymbol(p) \subseteq missed
  BY <1>1 DEF OneInv
<1>3. pc'[p] \in {"received", "failed"}
  BY <1>1 DEF PlaceOrder, OrderFilled, OrderNetted, OrderCanceled, OrderRests, OrderRefused,
              OrderLate, Answer, Goto
<1>4. ASSUME NEW b \in Seq(B!Order), Shrinks(book, b),
             NEW state \in {"OPEN", "CANCELED", "NETTED"},
             book' = Append(b, OrderIn(p, state))
      PROVE  OneInv'
  <2>1. /\ Len(b) \in Nat /\ DOMAIN b = 1..Len(b)
        /\ DOMAIN book' = 1..(Len(b) + 1)
        /\ \A t \in DOMAIN b : book'[t] = b[t]
        /\ book'[Len(b) + 1] = OrderIn(p, state)
    BY <1>4, AppendedBook
  <2>2. /\ OrderIn(p, state).symbol = SymbolOf[job[p].req]
        /\ OrderIn(p, state).state = state
    BY DEF OrderIn
  <2>3. \A t \in DOMAIN b :
          b[t].state = "OPEN" /\ b[t].symbol = SymbolOf[job[p].req] => t \in missed
    BY <1>2, <1>4 DEF OpenOnSymbol, B!OpenOn, Shrinks
  <2>4. OneOpenTrade'
    <3>1. ASSUME NEW t \in DOMAIN book', NEW u \in DOMAIN book', book'[t].state = "OPEN",
                 book'[u].state = "OPEN", book'[t].symbol = book'[u].symbol, t < u
          PROVE  t \in missed'
      <4>1. t \in DOMAIN b /\ book'[t] = b[t]
        BY <2>1, <3>1
      <4>2. CASE u \in DOMAIN b
        <5>1. /\ book[t].state = "OPEN" /\ book[u].state = "OPEN"
              /\ book[t].symbol = book[u].symbol
              /\ t \in DOMAIN book /\ u \in DOMAIN book
          BY <1>4, <2>1, <3>1, <4>1, <4>2 DEF Shrinks
        <5>. QED  BY <1>1, <3>1, <5>1 DEF OneInv, OneOpenTrade
      <4>3. CASE u = Len(b) + 1
        BY <1>1, <2>1, <2>2, <2>3, <3>1, <4>1, <4>3
      <4>. QED  BY <2>1, <4>2, <4>3
    <3>. QED  BY <3>1 DEF OneOpenTrade
  <2>5. \A t \in DOMAIN book' : book'[t].state \notin {"PENDING", "LATE"}
    BY <1>4, <2>1, <2>2 DEF Shrinks, Pending
  <2>. QED  BY <1>1, <1>3, <2>4, <2>5 DEF OneInv
<1>5. Shrinks(book, book) /\ \A t : Shrinks(book, B!Moved(book, t, "CLOSED"))
  BY <1>1, ShrinksMoved DEF OneInv, Pending
<1>6. CASE OrderFilled(p) \/ OrderCanceled(p)
  BY <1>1, <1>4, <1>5, <1>6 DEF OrderFilled, OrderCanceled
<1>7. CASE OrderNetted(p)
  <2>1. PICK t : book' = Append(B!Moved(book, t, "CLOSED"), OrderIn(p, "NETTED"))
    BY <1>7 DEF OrderNetted
  <2>2. B!Moved(book, t, "CLOSED") \in Seq(B!Order)
    BY <1>1, BookType DEF B!OrderStates
  <2>. QED  BY <1>4, <1>5, <2>1, <2>2
<1>8. CASE OrderRests(p) \/ OrderLate(p)
  BY <1>8 DEF OrderRests, OrderLate, OrdersAtOnce
<1>9. CASE OrderRefused(p)
  <2>1. Shrinks(book, book')
    BY <1>5, <1>9 DEF OrderRefused
  <2>. QED  BY <1>1, <1>3, <2>1, OneCalm DEF Clear
<1>. QED  BY <1>6, <1>7, <1>8, <1>9 DEF PlaceOrder

LEMMA NextOne ==
  SoleProcess /\ OrdersAtOnce /\ NeverAdds /\ TypeOK /\ OneInv /\ [Next]_vars => OneInv'
<1> SUFFICES ASSUME SoleProcess, OrdersAtOnce, NeverAdds, TypeOK, OneInv, [Next]_vars
             PROVE  OneInv'
  OBVIOUS
<1> USE DEF Clear
<1>0. /\ \A p, q \in Procs : q = p
      /\ Shrinks(book, book) /\ \A t : Shrinks(book, B!Moved(book, t, "CLOSED"))
      /\ \A p \in Procs : job[p].req \in Requests
      /\ pc \in [Procs -> Steps] /\ missed \subseteq missed'
  BY ShrinksMoved, MissedGrows DEF SoleProcess, TypeOK, OneInv, Pending
<1>a. ASSUME NEW p \in Procs, pc'[p] \notin Clear \cup {"closing"}, Shrinks(book, book')
      PROVE  OneInv'
  BY <1>0, <1>a, OneCalm
<1>b. ASSUME NEW p \in Procs, NEW step \in {"down", "idle"}, LeaveTo(p, step),
             Shrinks(book, book')
      PROVE  OneInv'
  <2>1. pc'[p] = step
    BY <1>0, <1>b DEF LeaveTo, Goto
  <2>. QED  BY <1>a, <1>b, <2>1
<1>c. ASSUME NEW p \in Procs, NEW step, Goto(p, step), book' = book, job' = job,
             step # "closing",
             step \in Clear => pc[p] \in Clear \/ OpenOnSymbol(p) \subseteq missed'
      PROVE  OneInv'
  <2>1. pc'[p] = step
    BY <1>0, <1>c DEF Goto
  <2>. QED  BY <1>0, <1>c, <2>1, OneCalm
<1>d. ASSUME pc' = pc, job' = job, doomed' = doomed, Shrinks(book, book')
      PROVE  OneInv'
  BY <1>0, <1>d, OneCalm
<1>1. ASSUME NEW p \in Procs, Start(p) PROVE OneInv'
  BY <1>1, <1>c DEF Start, local
<1>2. ASSUME NEW p \in Procs, Policy(p) PROVE OneInv'
  <2>1. CASE Refuse(p)
    BY <1>0, <1>b, <2>1 DEF Refuse, Leave
  <2>2. CASE PassPolicy(p)
    <3>1. OpenOnSymbol(p) \subseteq missed'
      BY <1>0, <2>2 DEF PassPolicy, Unaware, NeverAdds
    <3>. QED  BY <1>c, <2>2, <3>1 DEF PassPolicy, local
  <2>3. CASE CloseExistingFirst(p)
    BY <1>c, <2>3 DEF CloseExistingFirst, local
  <2>4. CASE ListExisting(p)
    <3>1. /\ pc'[p] = "closing" /\ job' = job /\ book' = book
          /\ OpenOnSymbol(p) \subseteq doomed'[p] \cup missed'
      BY <1>0, <2>4 DEF ListExisting, Unaware, Goto, TypeOK
    <3>2. OpenOnSymbol(p)' = OpenOnSymbol(p)
      BY <3>1 DEF OpenOnSymbol
    <3>. QED  BY <1>0, <3>1, <3>2 DEF OneInv, OneOpenTrade
  <2>5. CASE CloseExisting(p)
    <3>1. PICK t \in doomed[p] :
            /\ \/ book' = B!Moved(book, t, "CLOSED") /\ UNCHANGED missed
               \/ missed' = missed \cup {t} /\ UNCHANGED book
            /\ doomed' = [doomed EXCEPT ![p] = @ \ {t}]
      BY <2>5 DEF CloseExisting
    <3>2. /\ pc' = pc /\ job' = job /\ pc[p] = "closing" /\ doomed'[p] = doomed[p] \ {t}
          /\ Shrinks(book, book') /\ book \in Seq(B!Order)
      BY <1>0, <2>5, <3>1 DEF CloseExisting, TypeOK
    <3>3. \A u \in DOMAIN book' : book'[u].state = "OPEN" => u # t \/ t \in missed'
      BY <3>1, <3>2, MovedBook DEF Shrinks
    <3>4. OpenOnSymbol(p)' \subseteq (OpenOnSymbol(p) \ {t}) \cup missed'
      BY <3>2, <3>3 DEF OpenOnSymbol, B!OpenOn, Shrinks
    <3>5. OpenOnSymbol(p)' \subseteq doomed'[p] \cup missed'
      <4>1. OpenOnSymbol(p) \subseteq doomed[p] \cup missed
        BY <3>2 DEF OneInv
      <4>. QED  BY <1>0, <3>2, <3>4, <4>1
    <3>6. OneOpenTrade'
      BY <1>0, <3>2 DEF OneInv, OneOpenTrade, Shrinks
    <3>. QED  BY <1>0, <3>2, <3>5, <3>6 DEF OneInv, Shrinks, Pending
  <2>6. CASE CloseExistingRaises(p)
    <3>1. Shrinks(book, book')
      BY <1>0, <2>6 DEF CloseExistingRaises
    <3>. QED  BY <1>b, <2>6, <3>1 DEF CloseExistingRaises, Leave
  <2>7. CASE ExistingClosed(p)
    <3>1. OpenOnSymbol(p) \subseteq missed'
      BY <1>0, <2>7 DEF ExistingClosed, OneInv
    <3>. QED  BY <1>c, <2>7, <3>1 DEF ExistingClosed, local
  <2>. QED  BY <1>2, <2>1, <2>2, <2>3, <2>4, <2>5, <2>6, <2>7 DEF Policy
<1>3. ASSUME NEW p \in Procs, FileRead(p) PROVE OneInv'
  <2>1. CASE ReadStore(p) \/ ReadEvents(p)
    BY <1>0, <1>d, <2>1 DEF ReadStore, ReadEvents, local
  <2>2. CASE RecordMissing(p)
    BY <1>0, <1>b, <1>c, <2>2 DEF RecordMissing, Leave, local
  <2>3. CASE AppendRaises(p)
    BY <1>0, <1>b, <1>c, <2>3 DEF AppendRaises, Leave, local
  <2>. QED  BY <1>3, <2>1, <2>2, <2>3 DEF FileRead
<1>4. ASSUME NEW p \in Procs, FileWrite(p) PROVE OneInv'
  <2>1. CASE MarkException(p)
    BY <1>0, <1>b, <2>1 DEF MarkException, Leave
  <2>2. CASE CreateAttempt(p) \/ MarkSent(p) \/ MarkReceived(p) \/ MarkResult(p)
               \/ MarkDiscrepancy(p)
    BY <1>c, <2>2 DEF CreateAttempt, MarkSent, MarkReceived, MarkResult, MarkDiscrepancy,
       ReplaceStore, local
  <2>3. CASE AppendSubmitted(p) \/ AppendOutcome(p) \/ AppendDiscrepancy(p)
    BY <1>c, <2>3 DEF AppendSubmitted, AppendOutcome, AppendDiscrepancy, AddEvent, local
  <2>. QED  BY <1>4, <2>1, <2>2, <2>3 DEF FileWrite
<1>5. ASSUME NEW p \in Procs, PlaceOrder(p) PROVE OneInv'
  BY <1>5, OneOrder
<1>6. ASSUME NEW p \in Procs, Verify(p) PROVE OneInv'
  BY <1>0, <1>6, <1>b, <1>c DEF Verify, Verified, Discrepancy, LookupRaises, Leave, local
<1>7. ASSUME NEW p \in Procs, Crash(p) PROVE OneInv'
  BY <1>0, <1>7, <1>b DEF Crash
<1>8. ASSUME NEW p \in Procs, NEW r \in Requests, Submit(p, r) PROVE OneInv'
  BY <1>0, <1>8, <1>a DEF Submit, Goto
<1>9. CASE EditSettings \/ Tick \/ UNCHANGED vars
  BY <1>0, <1>9, <1>d DEF EditSettings, Tick, vars, local
<1>10. CASE BrokerActs
  <2>1. PICK t \in DOMAIN book : \E st \in B!BrokerMove(book, t) : book' = B!Moved(book, t, st)
    BY <1>10 DEF BrokerActs
  <2>2. book' = B!Moved(book, t, "CLOSED")
    BY <2>1 DEF B!BrokerMove, OneInv
  <2>. QED  BY <1>0, <1>10, <1>d, <2>2 DEF BrokerActs, local
<1>. QED
  BY <1>1, <1>2, <1>3, <1>4, <1>5, <1>6, <1>7, <1>8, <1>9, <1>10 DEF Next, Run

\* A sole process, market orders the broker fills or cancels at once, no ALLOW_ADD: a
\* trade is never opened next to an open one on its symbol, whatever crashes, times
\* out or is closed at the broker between the policy and the order, unless the
\* broker left the older one out of a list or answered its close without closing it.
THEOREM OneTradePerSymbol ==
  SoleProcess /\ OrdersAtOnce /\ NeverAdds => (Spec => []OneOpenTrade)
<1> SUFFICES ASSUME SoleProcess, OrdersAtOnce, NeverAdds PROVE Spec => []OneOpenTrade
  OBVIOUS
<1>1. Init => OneInv
  BY DEF Init, OneInv, OneOpenTrade
<1>2. TypeOK /\ OneInv /\ [Next]_vars => OneInv'
  BY NextOne
<1>3. OneInv => OneOpenTrade
  BY DEF OneInv
<1>. QED  BY <1>1, <1>2, <1>3, TypeCorrect, PTL DEF Spec
-----------------------------------------------------------------------------
(***************************************************************************)
(* No drift that nothing explains: a sole process with fresh ids, orders   *)
(* that are filled or cancelled at once, and no fault but a lookup that    *)
(* fails.                                                                  *)
(***************************************************************************)
NoFaults == Faults \subseteq {"lookup"}

\* Every record is the only one with its id.
LEMMA AllUnambiguous ==
  ASSUME TypeOK, IInv, IdsInv
  PROVE  \A i \in DOMAIN store : Unambiguous(store, i)
<1> SUFFICES ASSUME NEW i \in DOMAIN store, NEW j \in DOMAIN store, store[j].id = store[i].id
             PROVE  j = i
  BY DEF Unambiguous
<1>1. store[i].id = <<"uuid", store[i].n>> /\ store[j].id = <<"uuid", store[j].n>>
  BY DEF IdsInv, Fresh
<1>2. \A x, y : <<"uuid", x>> = <<"uuid", y>> => x = y
  OBVIOUS
<1>3. store[i].n = store[j].n
  BY <1>1, <1>2
<1>4. /\ store \in Seq(Record)
      /\ i \in Nat /\ j \in Nat /\ store[i].n \in 1..attempts
  BY DEF TypeOK, IInv, InOrder
<1>5. /\ i < j => store[i].n < store[j].n
      /\ j < i => store[j].n < store[i].n
  BY DEF IInv, InOrder
<1>6. store[i].n \in Nat
  BY <1>4
<1>. QED  BY <1>3, <1>4, <1>5, <1>6

\* Where a record may be unfinished, and where a trade may be in the answer only.
Pursued == Unsettled \cup {"failed"}
Awaited == {"received", "result"}

DriftCalmStep(p) ==
  /\ pc[p] \in Pursued => pc'[p] \in Pursued /\ job'[p] = job[p]
  /\ pc[p] \in Awaited => pc'[p] \in Awaited /\ job'[p] = job[p] /\ reply'[p] = reply[p]

\* Steps that leave the records alone and place no order.
LEMMA DriftCalm ==
  ASSUME TypeOK, DriftInv, store' = store, Shrinks(book, book'),
         \A p \in Procs : DriftCalmStep(p)
  PROVE  DriftInv'
<1>1. \A t \in DOMAIN book' : book'[t].state \notin {"PENDING", "LATE"}
  BY DEF Shrinks, Pending
<1>2. ASSUME NEW i \in DOMAIN store, store[i].status \in UnfinishedStatuses
      PROVE  \E p \in Procs : pc'[p] \in Unsettled \cup {"failed"} /\ job'[p].n = store[i].n
  <2>1. PICK p \in Procs : pc[p] \in Pursued /\ job[p].n = store[i].n
    BY <1>2 DEF DriftInv, Pursued
  <2>. QED  BY <2>1 DEF DriftCalmStep, Pursued
<1>3. ASSUME NEW t \in DOMAIN book', book'[t].state = "OPEN",
             \A i \in DOMAIN store : store[i].trade # t
      PROVE  \E p \in Procs :
               pc'[p] \in {"received", "result"} /\ job'[p].n = book'[t].n /\ reply'[p].trade = t
  <2>1. t \in DOMAIN book /\ book[t].state = "OPEN" /\ book'[t].n = book[t].n
    BY <1>3 DEF Shrinks
  <2>2. PICK p \in Procs : pc[p] \in Awaited /\ job[p].n = book[t].n /\ reply[p].trade = t
    BY <1>3, <2>1 DEF DriftInv, Awaited
  <2>. QED  BY <2>1, <2>2 DEF DriftCalmStep, Awaited
<1>. QED  BY <1>1, <1>2, <1>3 DEF DriftInv

\* A process that pursues no attempt leaves no record unfinished and no trade unnamed.
LEMMA DriftNone ==
  ASSUME SoleProcess, DriftInv, NEW p \in Procs, pc[p] \notin Pursued
  PROVE  /\ \A i \in DOMAIN store : store[i].status \notin UnfinishedStatuses
         /\ \A t \in DOMAIN book : book[t].state = "OPEN" =>
              \E i \in DOMAIN store : store[i].trade = t
BY DEF DriftInv, SoleProcess, Pursued, Unsettled

\* The updates: the status of the record in hand, and the trade of the answer.
LEMMA DriftMark ==
  ASSUME SoleInv, SoleProcess, IdsInv, DriftInv, NEW p \in Procs,
         MarkSent(p) \/ MarkReceived(p) \/ MarkResult(p) \/ MarkDiscrepancy(p)
           \/ MarkException(p)
  PROVE  DriftInv'
<1> DEFINE k == First(store, job[p].id)
<1>1. /\ view[p].store = store /\ book' = book /\ store \in Seq(Record)
      /\ Working(p) /\ pc[p] \notin BeforeRecord /\ RecordInHand /\ TypeOK /\ IInv
  BY DEF MarkSent, MarkReceived, MarkResult, MarkDiscrepancy, MarkException, ReplaceStore,
         SoleInv, SurfaceInv, IInv, ViewsFresh, StoreSteps, Working, BeforeRecord, TypeOK
<1>2. \A i \in DOMAIN store : Unambiguous(store, i)
  BY <1>1, AllUnambiguous
<1>3. Holds(store, job[p].id)
  BY <1>1, OwnRecord
<1>4. k \in DOMAIN store /\ store[k].id = job[p].id
  BY <1>1, <1>3, FirstFound
<1>5. store[k].n = job[p].n /\ \A i \in DOMAIN store : store[i].n = job[p].n => i = k
  BY <1>1, <1>2, <1>4, OwnRecord
<1>6. \A q \in Procs : q = p
  BY DEF SoleProcess
<1>7. Known(p, store[k])
  BY <1>1, <1>2, <1>4, <1>5 DEF RecordInHand
<1>8. \A i \in DOMAIN store : store[i].status \in UnfinishedStatuses => i = k /\ pc[p] \in Pursued
  BY <1>5, <1>6 DEF DriftInv, Pursued
<1>9. \A t \in DOMAIN book : book[t].state = "OPEN" /\ (\A i \in DOMAIN store : store[i].trade # t) =>
        pc[p] \in Awaited /\ job[p].n = book[t].n /\ reply[p].trade = t
  BY <1>6 DEF DriftInv, Awaited
<1>10. DOMAIN book = 1..Len(book) /\ Len(book) \in Nat
       /\ \A t \in DOMAIN book : book[t].state \notin {"PENDING", "LATE"}
  BY <1>1 DEF TypeOK, DriftInv
<1> HIDE DEF k
<1>11. CASE MarkResult(p)
  <2>1. /\ store' = WithResult(store, job[p].id, Parsed(reply[p].tx), reply[p].trade)
        /\ pc[p] = "result"
    BY <1>1, <1>11 DEF MarkResult, ReplaceStore
  <2>2. /\ DOMAIN store' = DOMAIN store
        /\ \A i \in DOMAIN store :
             /\ store'[i].trade = IF i = k THEN reply[p].trade ELSE store[i].trade
             /\ store'[i].status = IF i = k THEN Parsed(reply[p].tx) ELSE store[i].status
    BY <1>1, <2>1, ResultUpdate DEF k
  <2>3. Parsed(reply[p].tx) \notin UnfinishedStatuses
    BY DEF Parsed, UnfinishedStatuses, OpenUnfinished, CloseUnfinished
  <2>4. \A i \in DOMAIN store' : store'[i].status \notin UnfinishedStatuses
    BY <1>8, <2>2, <2>3
  <2>5. store[k].trade = NoTrade
    BY <1>7, <2>1 DEF Known, Unsettled
  <2>6. ASSUME NEW t \in DOMAIN book, book[t].state = "OPEN",
               \A i \in DOMAIN store' : store'[i].trade # t
        PROVE  FALSE
    <3>1. \A i \in DOMAIN store : i # k => store[i].trade # t
      BY <2>2, <2>6
    <3>2. store[k].trade # t
      BY <1>10, <2>5 DEF NoTrade
    <3>3. reply[p].trade = t
      BY <1>9, <2>6, <3>1, <3>2
    <3>. QED  BY <1>4, <2>2, <2>6, <3>3
  <2>. QED  BY <1>1, <1>10, <2>4, <2>6 DEF DriftInv
<1>12. CASE ~ MarkResult(p)
  <2>1. PICK st : /\ store' = WithStatus(store, job[p].id, st)
                  /\ st \in UnfinishedStatuses => pc'[p] \in Unsettled /\ job'[p] = job[p]
                  /\ pc[p] \in Awaited =>
                       pc'[p] \in Awaited /\ job'[p] = job[p] /\ reply'[p] = reply[p]
    <3>1. CASE MarkSent(p) \/ MarkReceived(p)
      BY <1>1, <3>1 DEF MarkSent, MarkReceived, ReplaceStore, local, Goto, TypeOK, Unsettled,
         Awaited
    <3>2. CASE MarkDiscrepancy(p) \/ MarkException(p)
      <4>1. "DISCREPANCY" \notin UnfinishedStatuses /\ "EXCEPTION" \notin UnfinishedStatuses
        BY DEF UnfinishedStatuses, OpenUnfinished, CloseUnfinished
      <4>. QED
        BY <1>1, <3>2, <4>1 DEF MarkDiscrepancy, MarkException, ReplaceStore, Awaited
    <3>. QED  BY <1>12, <3>1, <3>2
  <2>2. /\ DOMAIN store' = DOMAIN store
        /\ \A i \in DOMAIN store :
             /\ store'[i].n = store[i].n /\ store'[i].trade = store[i].trade
             /\ store'[i].status = IF i = k THEN st ELSE store[i].status
    BY <1>1, <2>1, StatusUpdate DEF k
  <2>3. ASSUME NEW i \in DOMAIN store', store'[i].status \in UnfinishedStatuses
        PROVE  pc'[p] \in Unsettled \cup {"failed"} /\ job'[p].n = store'[i].n
    BY <1>5, <1>8, <2>1, <2>2, <2>3
  <2>4. ASSUME NEW t \in DOMAIN book', book'[t].state = "OPEN",
               \A i \in DOMAIN store' : store'[i].trade # t
        PROVE  pc'[p] \in {"received", "result"} /\ job'[p].n = book'[t].n /\ reply'[p].trade = t
    BY <1>1, <1>9, <2>1, <2>2, <2>4 DEF Awaited
  <2>. QED  BY <1>1, <1>10, <2>3, <2>4 DEF DriftInv
<1>. QED  BY <1>11, <1>12

\* A new record is unfinished, and its attempt under way.
LEMMA DriftCreate ==
  ASSUME SoleInv, SoleProcess, DriftInv, NEW p \in Procs, CreateAttempt(p)
  PROVE  DriftInv'
<1> DEFINE r == AttemptRecord(job[p].n, job[p].id, KeyOf[job[p].req], now)
<1>1. /\ view[p].store = store /\ book' = book /\ job' = job /\ TypeOK
      /\ pc[p] = "create" /\ pc'[p] = "submitted" /\ store' = Append(store, r)
  BY DEF CreateAttempt, ReplaceStore, Goto, TypeOK, local, SoleInv, IInv, ViewsFresh, StoreSteps
<1>2. r \in Record /\ r.n = job[p].n
  BY <1>1, AttemptRecordType, ConstantsAssumption DEF TypeOK, AttemptRecord
<1> HIDE DEF r
<1>3. /\ DOMAIN store = 1..Len(store) /\ Len(store) \in Nat
      /\ DOMAIN store' = 1..(Len(store) + 1)
      /\ \A i \in 1..Len(store) : store'[i] = store[i]
      /\ store'[Len(store) + 1] = r
  BY <1>1, <1>2, AppendRecord DEF TypeOK
<1>4. pc[p] \notin Pursued
  BY <1>1 DEF Pursued, Unsettled
<1>5. /\ \A i \in DOMAIN store : store[i].status \notin UnfinishedStatuses
      /\ \A t \in DOMAIN book : book[t].state = "OPEN" =>
           \E i \in DOMAIN store : store[i].trade = t
  BY <1>4, DriftNone
<1>6. ASSUME NEW i \in DOMAIN store', store'[i].status \in UnfinishedStatuses
      PROVE  pc'[p] \in Unsettled \cup {"failed"} /\ job'[p].n = store'[i].n
  <2>1. store'[i] = r
    BY <1>3, <1>5, <1>6
  <2>. QED  BY <1>1, <1>2, <2>1 DEF Unsettled
<1>7. \A t \in DOMAIN book' : book'[t].state = "OPEN" =>
        \E i \in DOMAIN store' : store'[i].trade = t
  BY <1>1, <1>3, <1>5
<1>8. \A t \in DOMAIN book' : book'[t].state \notin {"PENDING", "LATE"}
  BY <1>1 DEF DriftInv
<1>. QED  BY <1>6, <1>7, <1>8 DEF DriftInv

\* The order is answered, so that its trade is in the answer.
LEMMA DriftPlace ==
  ASSUME SoleInv, SoleProcess, OrdersAtOnce, NoFaults, DriftInv, NEW p \in Procs,
         PlaceOrder(p)
  PROVE  DriftInv'
<1>1. /\ pc[p] = "place" /\ book \in Seq(B!Order) /\ job' = job /\ store' = store
      /\ pc \in [Procs -> Steps] /\ reply \in [Procs -> [tx : SUBSET Transactions, trade : Nat]]
      /\ TypeOK /\ \A q \in Procs : q = p
  BY DEF PlaceOrder, OrderFilled, OrderNetted, OrderCanceled, OrderRests, OrderRefused,
         OrderLate, Placed, TypeOK, SoleInv, SoleProcess, files
<1>2. "late" \notin Faults /\ "garbled" \notin Faults /\ "timeout" \notin Faults
  BY DEF NoFaults
<1>3. /\ \A i \in DOMAIN store : store[i].status \in UnfinishedStatuses => job[p].n = store[i].n
      /\ \A t \in DOMAIN book : book[t].state = "OPEN" =>
           \E i \in DOMAIN store : store[i].trade = t
      /\ \A t \in DOMAIN book : book[t].state \notin Pending
  BY <1>1 DEF DriftInv, Pending
<1>4. ASSUME NEW b \in Seq(B!Order), Shrinks(book, b), NEW state,
             state \in {"OPEN", "CANCELED", "NETTED"},
             NEW tx, NEW trade, book' = Append(b, OrderIn(p, state)), Answer(p, tx, trade),
             state = "OPEN" => trade = Len(b) + 1
      PROVE  DriftInv'
  <2>1. pc'[p] = "received" /\ reply'[p].trade = trade
    BY <1>1, <1>2, <1>4 DEF Answer, Goto
  <2>2. /\ Len(b) \in Nat /\ DOMAIN b = 1..Len(b)
        /\ DOMAIN book' = 1..(Len(b) + 1)
        /\ \A t \in DOMAIN b : book'[t] = b[t]
        /\ book'[Len(b) + 1] = OrderIn(p, state)
    BY <1>4, AppendedBook
  <2>3. OrderIn(p, state).n = job[p].n /\ OrderIn(p, state).state = state
    BY DEF OrderIn
  <2>4. ASSUME NEW t \in DOMAIN book', book'[t].state = "OPEN",
               \A i \in DOMAIN store' : store'[i].trade # t
        PROVE  job'[p].n = book'[t].n /\ reply'[p].trade = t
    <3>1. t \notin DOMAIN b
      BY <1>1, <1>3, <1>4, <2>2, <2>4 DEF Shrinks
    <3>2. t = Len(b) + 1
      BY <2>2, <3>1
    <3>. QED  BY <1>1, <1>4, <2>1, <2>2, <2>3, <2>4, <3>2
  <2>5. \A t \in DOMAIN book' : book'[t].state \notin {"PENDING", "LATE"}
    BY <1>4, <2>2, <2>3 DEF Shrinks, Pending
  <2>. QED  BY <1>1, <1>3, <2>1, <2>4, <2>5 DEF DriftInv, Unsettled
<1>5. Shrinks(book, book) /\ \A t : Shrinks(book, B!Moved(book, t, "CLOSED"))
  BY <1>1, <1>3, ShrinksMoved
<1>6. CASE OrderFilled(p) \/ OrderCanceled(p)
  BY <1>1, <1>4, <1>5, <1>6 DEF OrderFilled, OrderCanceled
<1>7. CASE OrderNetted(p)
  <2>1. PICK t \in B!Against(book, SymbolOf[job[p].req], SideOf[job[p].req]) :
             book' = Append(B!Moved(book, t, "CLOSED"), OrderIn(p, "NETTED"))
    BY <1>7 DEF OrderNetted
  <2>2. t \in DOMAIN book
    BY DEF B!Against, B!OpenOn
  <2>3. B!Moved(book, t, "CLOSED") \in Seq(B!Order)
    BY <1>1, <2>2, BookType DEF B!OrderStates
  <2>. QED  BY <1>4, <1>5, <1>7, <2>1, <2>3 DEF OrderNetted
<1>8. CASE OrderRests(p) \/ OrderLate(p)
  BY <1>8 DEF OrderRests, OrderLate, OrdersAtOnce
<1>9. CASE OrderRefused(p)
  <2>1. book' = book /\ pc'[p] = "failed"
    BY <1>1, <1>9 DEF OrderRefused, Goto
  <2>2. DriftCalmStep(p)
    BY <1>1, <2>1 DEF DriftCalmStep, Pursued, Awaited, Unsettled
  <2>. QED  BY <1>1, <1>5, <2>1, <2>2, DriftCalm
<1>. QED  BY <1>6, <1>7, <1>8, <1>9 DEF PlaceOrder

LEMMA NextDrift ==
  SoleProcess /\ OrdersAtOnce /\ NoFaults /\ SoleInv /\ IdsInv /\ DriftInv /\ [Next]_vars
    => DriftInv'
<1> SUFFICES ASSUME SoleProcess, OrdersAtOnce, NoFaults, SoleInv, IdsInv, DriftInv, [Next]_vars
             PROVE  DriftInv'
  OBVIOUS
<1> USE DEF Pursued, Awaited, Unsettled
<1>0. /\ \A p, q \in Procs : q = p
      /\ TypeOK /\ IInv /\ RecordInHand
      /\ Shrinks(book, book) /\ \A t : Shrinks(book, B!Moved(book, t, "CLOSED"))
      /\ pc \in [Procs -> Steps]
  BY ShrinksMoved DEF SoleProcess, SoleInv, SurfaceInv, TypeOK, DriftInv, Pending
<1>1. /\ "crash" \notin Faults /\ "timeout" \notin Faults /\ "disk" \notin Faults
  BY DEF NoFaults
<1>a. ASSUME store' = store, Shrinks(book, book'), pc' = pc, job' = job, reply' = reply
      PROVE  DriftInv'
  BY <1>0, <1>a, DriftCalm DEF DriftCalmStep
<1>b. ASSUME NEW p \in Procs, store' = store, Shrinks(book, book'), pc[p] \notin Pursued
      PROVE  DriftInv'
  BY <1>0, <1>b, DriftCalm DEF DriftCalmStep
<1>2. ASSUME NEW p \in Procs, Start(p) PROVE DriftInv'
  BY <1>0, <1>2, <1>b DEF Start, files
<1>3. ASSUME NEW p \in Procs, Policy(p) PROVE DriftInv'
  <2>1. /\ pc[p] \in {"quote", "listing", "closing"} /\ store' = store
        /\ Shrinks(book, book')
    BY <1>0, <1>1, <1>3 DEF Policy, Refuse, PassPolicy, CloseExistingFirst, ListExisting,
       CloseExisting, CloseExistingRaises, ExistingClosed, files
  <2>. QED  BY <1>b, <2>1
<1>4. ASSUME NEW p \in Procs, FileRead(p) PROVE DriftInv'
  <2>1. CASE ReadStore(p) \/ ReadEvents(p)
    BY <1>0, <1>a, <2>1 DEF ReadStore, ReadEvents, files, local
  <2>2. CASE RecordMissing(p)
    <3>1. Working(p) /\ pc[p] \notin BeforeRecord /\ ~ Holds(store, job[p].id)
      BY <2>2 DEF RecordMissing, StoreSteps, Working, BeforeRecord
    <3>. QED  BY <1>0, <3>1, OwnRecord
  <2>3. CASE AppendRaises(p)
    BY <1>1, <2>3 DEF AppendRaises
  <2>. QED  BY <1>4, <2>1, <2>2, <2>3 DEF FileRead
<1>5. ASSUME NEW p \in Procs, FileWrite(p) PROVE DriftInv'
  <2>1. CASE CreateAttempt(p)
    BY <2>1, DriftCreate
  <2>2. CASE MarkSent(p) \/ MarkReceived(p) \/ MarkResult(p) \/ MarkDiscrepancy(p)
               \/ MarkException(p)
    BY <2>2, DriftMark
  <2>3. CASE AppendSubmitted(p)
    <3>1. /\ pc[p] = "submitted" /\ pc'[p] = "send" /\ job' = job /\ store' = store
          /\ book' = book
      BY <1>0, <2>3 DEF AppendSubmitted, AddEvent, Goto, local
    <3>. QED  BY <1>0, <3>1, DriftCalm DEF DriftCalmStep
  <2>4. CASE AppendOutcome(p) \/ AppendDiscrepancy(p)
    <3>1. pc[p] \in {"outcome", "flag"} /\ store' = store /\ book' = book
      BY <2>4 DEF AppendOutcome, AppendDiscrepancy, AddEvent
    <3>. QED  BY <1>0, <1>b, <3>1
  <2>. QED  BY <1>5, <2>1, <2>2, <2>3, <2>4 DEF FileWrite
<1>6. ASSUME NEW p \in Procs, PlaceOrder(p) PROVE DriftInv'
  BY <1>6, DriftPlace
<1>7. ASSUME NEW p \in Procs, Verify(p) PROVE DriftInv'
  BY <1>0, <1>7, <1>b DEF Verify, Verified, Discrepancy, LookupRaises, files
<1>8. ASSUME NEW p \in Procs, Crash(p) PROVE DriftInv'
  BY <1>1, <1>8 DEF Crash
<1>9. ASSUME NEW p \in Procs, NEW r \in Requests, Submit(p, r) PROVE DriftInv'
  BY <1>0, <1>9, <1>b DEF Submit, files
<1>10. CASE EditSettings \/ Tick \/ UNCHANGED vars
  BY <1>0, <1>10, <1>a DEF EditSettings, Tick, vars, files, local
<1>11. CASE BrokerActs
  <2>1. PICK t \in DOMAIN book : \E st \in B!BrokerMove(book, t) : book' = B!Moved(book, t, st)
    BY <1>11 DEF BrokerActs
  <2>2. book' = B!Moved(book, t, "CLOSED")
    BY <2>1 DEF B!BrokerMove, DriftInv
  <2>. QED  BY <1>0, <1>11, <1>a, <2>2 DEF BrokerActs, files, local
<1>. QED
  BY <1>2, <1>3, <1>4, <1>5, <1>6, <1>7, <1>8, <1>9, <1>10, <1>11 DEF Next, Run

\* A sole process with fresh ids whose orders are filled or cancelled at once, and
\* that meets no fault but a failing lookup: between two attempts the reconciler
\* has nothing to report.  Every other fault may leave it something.
THEOREM NoDrift ==
  SoleProcess /\ UuidsOnly /\ OrdersAtOnce /\ NoFaults => (Spec => []NoUnexplainedDrift)
<1> SUFFICES ASSUME SoleProcess, UuidsOnly, OrdersAtOnce, NoFaults
             PROVE  Spec => []NoUnexplainedDrift
  OBVIOUS
<1> DEFINE I == SoleInv /\ IdsInv /\ DriftInv
<1>1. Init => I
  <2>1. Init => SoleInv
    BY InitType, InitInv, InitTruth, InitSurface DEF SoleInv
  <2>2. Init => DriftInv
    BY DEF Init, DriftInv
  <2>. QED  BY <2>1, <2>2, InitTruth
<1>2. I /\ [Next]_vars => I'
  <2>1. SoleInv /\ [Next]_vars => SoleInv'
    BY NextType, NextInv, NextCopies, NextTruth, NextSurface, SoleIsOwn DEF SoleInv, SurfaceInv
  <2>2. SoleInv /\ IdsInv /\ [Next]_vars => IdsInv'
    BY NextIds DEF SoleInv
  <2>. QED  BY <2>1, <2>2, NextDrift
<1>3. I => NoUnexplainedDrift
  <2> SUFFICES ASSUME I, Quiet PROVE Unfinished(store) = {} /\ UnknownOpenTrades = {}
    BY DEF NoUnexplainedDrift
  <2>1. \A p \in Procs : pc[p] \notin {"received", "result"} \cup Unsettled \cup {"failed"}
    BY DEF Quiet, Unsettled
  <2>2. \A i \in DOMAIN store : store[i].status \notin UnfinishedStatuses
    BY <2>1 DEF DriftInv
  <2>3. ASSUME NEW t \in DOMAIN book, book[t].state = "OPEN"
        PROVE  t \in KnownTrades(store)
    <3>1. PICK i \in DOMAIN store : store[i].trade = t
      BY <2>1, <2>3 DEF DriftInv
    <3>2. book \in Seq(B!Order)
      BY DEF SoleInv, TypeOK
    <3>3. t # NoTrade
      BY <3>2 DEF NoTrade
    <3>. QED  BY <3>1, <3>3 DEF KnownTrades
  <2>. QED  BY <2>2, <2>3 DEF Unfinished, UnknownOpenTrades
<1>. QED  BY <1>1, <1>2, <1>3, PTL DEF Spec
=============================================================================
