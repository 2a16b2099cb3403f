------------------------ MODULE SignalIngestionProofs ------------------------
(***************************************************************************)
(* Theorems about SignalIngestion, for any messages, names and faults.     *)
(***************************************************************************)
EXTENDS SignalIngestion, FiniteOrders, TLAPS

TypeInv == TypeOK /\ InHandPosted

View == [signals : Seq(Signal), events : SUBSET SignalId]

\* The control part of the state, and the part on disk.
ControlType ==
  /\ pc' \in [Ingestors -> Steps]
  /\ job' \in [Ingestors -> Nat]
  /\ todo' \in [Ingestors -> SUBSET Nat]
  /\ view' \in [Ingestors -> View]
  /\ \A q \in Ingestors : todo'[q] \subseteq DOMAIN posts /\ job'[q] \in 0..Len(posts)

FilesType ==
  offset' \in Nat \cup {Torn} /\ signals' \in Seq(Signal) /\ events' \subseteq SignalId

\* What the leaves below use of the types.
LEMMA Typed ==
  ASSUME TypeInv
  PROVE  /\ Len(posts) \in Nat /\ DOMAIN posts = 1..Len(posts)
         /\ pc \in [Ingestors -> Steps] /\ job \in [Ingestors -> Nat]
         /\ todo \in [Ingestors -> SUBSET Nat] /\ view \in [Ingestors -> View]
         /\ \A q \in Ingestors : todo[q] \subseteq DOMAIN posts /\ job[q] \in 0..Len(posts)
BY DEF TypeInv, TypeOK, InHandPosted, View

LEMMA StepType ==
  ASSUME TypeInv, ControlType, FilesType, UNCHANGED <<together, posts>>, confirmed' \in Nat
  PROVE  TypeInv'
BY DEF TypeInv, TypeOK, InHandPosted, ControlType, FilesType, View

LEMMA InitType == Init => TypeInv
BY ConstantsAssumption
DEF Init, TypeInv, TypeOK, InHandPosted, NoMessage, NoOffset, NoView, Steps

\* Ending a process, or finishing with its message, keeps the types.
LEMMA LeaveType ==
  ASSUME TypeInv, NEW p \in Ingestors, Stop(p) \/ Resume(p) \/ Raise(p)
  PROVE  ControlType
<1>1. Home(p) \in Steps /\ "down" \in Steps /\ NoView \in View
  BY DEF Home, Steps, NoView, View
<1>2. PICK s \in Steps : pc' = [pc EXCEPT ![p] = s]
  BY <1>1 DEF Stop, Resume, Raise, Goto
<1>3. view' = [view EXCEPT ![p] = NoView] /\ job' = [job EXCEPT ![p] = NoMessage]
  BY DEF Stop, Resume, Raise
<1>4. todo' = todo \/ todo' = [todo EXCEPT ![p] = {}]
  BY DEF Stop, Resume, Raise
<1>. QED
  BY <1>1, <1>2, <1>3, <1>4, Typed DEF ControlType, NoMessage

\* So does a step from one place in the code to the next.
LEMMA GotoType ==
  ASSUME TypeInv, NEW p \in Ingestors, NEW s \in Steps, Goto(p, s), UNCHANGED <<job, todo, view>>
  PROVE  ControlType
BY Typed DEF Goto, ControlType

\* A message in hand is posted whatever is known of it.
LEMMA HandleType ==
  ASSUME TypeInv, NEW p \in Ingestors, NEW m \in 0..Len(posts), Handle(p, m)
  PROVE  /\ pc' \in [Ingestors -> Steps]
         /\ job' \in [Ingestors -> Nat]
         /\ \A q \in Ingestors : job'[q] \in 0..Len(posts)
<1>1. PICK s \in Steps, j \in 0..Len(posts) :
         pc' = [pc EXCEPT ![p] = s] /\ job' = [job EXCEPT ![p] = j]
  <2>1. 0 \in 0..Len(posts)
    BY Typed
  <2>. QED  BY <2>1 DEF Handle, Goto, Home, Steps, NoMessage
<1>. QED  BY <1>1, Typed

LEMMA FetchType ==
  ASSUME TypeInv, NEW p \in Ingestors, Fetch(p)
  PROVE  TypeInv'
<1>1. FilesType /\ UNCHANGED <<together, posts>>
  <2>1. CASE SetOffset(p)
    BY <2>1 DEF SetOffset, FilesType, TypeInv, TypeOK, outside
  <2>2. CASE ~ SetOffset(p)
    <3>1. UNCHANGED <<together, posts, signals, events>>
      BY <2>2
      DEF Fetch, Poll, PollTorn, TruncateOffset, BatchDone, TakePushed, TakeOlder,
          ImportDone, outside
    <3>2. offset' = offset \/ offset' = Torn
      <4>1. CASE Poll(p) \/ PollTorn(p) \/ BatchDone(p) \/ ImportDone(p)
        BY <4>1 DEF Poll, PollTorn, BatchDone, ImportDone, outside
      <4>2. CASE TakePushed(p) \/ TakeOlder(p)
        BY <4>2 DEF TakePushed, TakeOlder, outside
      <4>3. CASE TruncateOffset(p)
        BY <4>3 DEF TruncateOffset
      <4>. QED  BY <2>2, <4>1, <4>2, <4>3 DEF Fetch
    <3>. QED  BY <3>1, <3>2 DEF FilesType, TypeInv, TypeOK
  <2>. QED  BY <2>1, <2>2
<1>2. CASE Poll(p)
  <2>1. confirmed' \in Nat
    <3>1. confirmed \in Nat /\ offset \in Nat
      BY <1>2 DEF Poll, TypeInv, TypeOK
    <3>2. confirmed' = Max({confirmed, offset})
      BY <1>2 DEF Poll
    <3>. QED  BY <3>1, <3>2, MaxOfTwo
  <2>2. /\ todo'[p] \subseteq DOMAIN posts /\ todo' \in [Ingestors -> SUBSET Nat]
        /\ \A q \in Ingestors : q # p => todo'[q] = todo[q]
    BY <1>2 DEF Poll, TypeInv, TypeOK
  <2>3. pc' \in [Ingestors -> Steps]
    BY <1>2 DEF Poll, Goto, Steps, TypeInv, TypeOK
  <2>4. ControlType
    BY <1>2, <2>2, <2>3, Typed DEF Poll, ControlType
  <2>. QED  BY <1>1, <2>1, <2>4, StepType
<1>3. CASE ~ Poll(p)
  <2>1. confirmed' = confirmed
    BY <1>3
    DEF Fetch, Stop, PollTorn, TruncateOffset, SetOffset, BatchDone, TakePushed, TakeOlder,
        ImportDone, outside
  <2>2. ControlType
    <3>1. CASE PollTorn(p) \/ ImportDone(p)
      BY <3>1, LeaveType DEF PollTorn, ImportDone, outside
    <3>2. CASE TruncateOffset(p)
      <4>1. Min(todo[p]) \in DOMAIN posts
        BY <3>2, MinMember, Typed DEF TruncateOffset
      <4>2. /\ pc' = [pc EXCEPT ![p] = "offset"] /\ view' = view
            /\ job' = [job EXCEPT ![p] = Min(todo[p])]
            /\ todo' = [todo EXCEPT ![p] = todo[p] \ {Min(todo[p])}]
        BY <3>2 DEF TruncateOffset, Drop, Goto
      <4>. QED
        BY <4>1, <4>2, Typed DEF ControlType, Steps
    <3>3. CASE SetOffset(p)
      <4>1. job[p] \in 0..Len(posts) /\ Handle(p, job[p]) /\ UNCHANGED <<todo, view>>
        BY <3>3, Typed DEF SetOffset, outside
      <4>. QED
        BY <4>1, HandleType, Typed DEF ControlType
    <3>4. CASE BatchDone(p)
      <4>1. Goto(p, "poll") /\ "poll" \in Steps /\ UNCHANGED <<job, todo, view>>
        BY <3>4 DEF BatchDone, Steps, outside
      <4>. QED  BY <4>1, GotoType
    <3>5. CASE TakePushed(p) \/ TakeOlder(p)
      <4>1. PICK m \in todo[p] : Drop(p, m) /\ Handle(p, m) /\ UNCHANGED view
        <5>1. CASE TakeOlder(p)
          BY <5>1, MaxMember, Typed DEF TakeOlder, outside
        <5>. QED  BY <3>5, <5>1 DEF TakePushed, outside
      <4>2. m \in 0..Len(posts)
        BY Typed
      <4>. QED
        BY <4>1, <4>2, HandleType, Typed DEF Drop, ControlType
    <3>. QED  BY <1>3, <3>1, <3>2, <3>3, <3>4, <3>5 DEF Fetch
  <2>. QED  BY <1>1, <2>1, <2>2, StepType DEF TypeInv, TypeOK
<1>. QED  BY <1>2, <1>3

\* update_signal keeps the list of records one.
LEMMA LatencyType ==
  ASSUME NEW s \in Seq(Signal), NEW i
  PROVE  [s EXCEPT ![i].latency = TRUE] \in Seq(Signal)
<1> DEFINE t == [s EXCEPT ![i].latency = TRUE]
<1>1. t = [k \in DOMAIN s |-> IF k = i THEN [s[i] EXCEPT !.latency = TRUE] ELSE s[k]]
  OBVIOUS
<1>2. \A k \in DOMAIN s : s[k] \in Signal
  OBVIOUS
<1>3. \A k \in DOMAIN s : t[k] \in Signal
  <2> SUFFICES ASSUME NEW k \in DOMAIN s PROVE t[k] \in Signal
    OBVIOUS
  <2>1. s[k] \in Signal
    BY <1>2
  <2>2. [s[k] EXCEPT !.latency = TRUE] \in Signal
    <3>1. \A r \in Signal : [r EXCEPT !.latency = TRUE] \in Signal
      BY Zenon DEF Signal
    <3>. QED  BY <2>1, <3>1
  <2>3. t[k] = s[k] \/ t[k] = [s[k] EXCEPT !.latency = TRUE]
    <3> HIDE DEF t
    <3>. QED  BY <1>1
  <2> HIDE DEF t
  <2>. QED  BY <2>1, <2>2, <2>3
<1>4. DOMAIN s = 1..Len(s)
  OBVIOUS
<1> HIDE DEF t
<1>5. t \in [1..Len(s) -> Signal]
  BY <1>1, <1>3, <1>4
<1>6. t \in Seq(Signal)
  BY <1>5
<1>. QED  BY <1>6 DEF t

LEMMA SaveType ==
  ASSUME TypeInv, NEW p \in Ingestors, Save(p)
  PROVE  TypeInv'
<1>1. IdOf(p) \in SignalId
  BY ConstantsAssumption DEF IdOf, SignalId, TypeInv, TypeOK
<1>2. UNCHANGED outside
  BY DEF Save, Duplicate, NotYetStored, ReadSignals, SaveRaw, ReadEvents, Announce,
         UpdateLatency, RecordGone
<1>3. FilesType
  <2>1. CASE SaveRaw(p)
    <3>1. [id |-> IdOf(p), latency |-> FALSE] \in Signal
      BY <1>1 DEF Signal
    <3>2. view[p].signals \in Seq(Signal)
      BY Typed DEF View
    <3>3. signals' \in Seq(Signal)
      BY <2>1, <3>1, <3>2 DEF SaveRaw
    <3>. QED  BY <2>1, <3>3 DEF SaveRaw, FilesType, TypeInv, TypeOK
  <2>2. CASE Announce(p)
    BY <1>1, <2>2 DEF Announce, FilesType, TypeInv, TypeOK
  <2>3. CASE UpdateLatency(p)
    <3>1. view[p].signals \in Seq(Signal)
      BY Typed DEF View
    <3>. QED
      BY <2>3, <3>1, LatencyType DEF UpdateLatency, FilesType, TypeInv, TypeOK
  <2>. QED
    BY <2>1, <2>2, <2>3
    DEF Save, Duplicate, NotYetStored, ReadSignals, ReadEvents, RecordGone, FilesType,
        TypeInv, TypeOK
<1>4. ControlType
  <2>1. CASE Duplicate(p) \/ UpdateLatency(p) \/ RecordGone(p)
    BY <2>1, LeaveType DEF Duplicate, UpdateLatency, RecordGone
  <2>2. CASE NotYetStored(p) \/ SaveRaw(p)
    <3>1. PICK s \in Steps : Goto(p, s) /\ UNCHANGED <<job, todo, view>>
      BY <2>2 DEF NotYetStored, SaveRaw, Steps, outside
    <3>. QED  BY <3>1, GotoType
  <2>3. CASE Announce(p)
    <3>1. \/ Resume(p)
          \/ Goto(p, "readLatency") /\ "readLatency" \in Steps /\ UNCHANGED <<job, todo, view>>
      BY <2>3 DEF Announce, Steps, outside
    <3>. QED  BY <3>1, LeaveType, GotoType
  <2>4. CASE ReadSignals(p) \/ ReadEvents(p)
    <3>1. PICK s \in Steps : pc' = [pc EXCEPT ![p] = s]
      BY <2>4 DEF ReadSignals, ReadEvents, Goto, Steps
    <3>2. view' \in [Ingestors -> View] /\ UNCHANGED <<job, todo>>
      BY <2>4 DEF ReadSignals, ReadEvents, TypeInv, TypeOK, View
    <3>. QED
      BY <3>1, <3>2, Typed DEF ControlType
  <2>. QED  BY <2>1, <2>2, <2>3, <2>4 DEF Save
<1>. QED
  BY <1>2, <1>3, <1>4, StepType DEF outside, TypeInv, TypeOK

LEMMA OtherType ==
  ASSUME TypeInv, NEW p \in Ingestors, Start(p) \/ Fail(p)
  PROVE  TypeInv'
<1>1. FilesType /\ UNCHANGED outside
  BY DEF Start, Fail, PollRaises, SaveRaises, Crash, FilesType, TypeInv, TypeOK
<1>2. ControlType
  <2>1. CASE Fail(p)
    BY <2>1, LeaveType DEF Fail, PollRaises, SaveRaises, Crash
  <2>2. CASE Start(p)
    <3>1. PICK s \in Steps : pc' = [pc EXCEPT ![p] = s]
      BY <2>2 DEF Start, Goto, Home, Steps
    <3>2. /\ todo' \in [Ingestors -> SUBSET Nat] /\ UNCHANGED <<job, view>>
          /\ \A q \in Ingestors : todo'[q] \subseteq DOMAIN posts
      BY <2>2 DEF Start, TypeInv, TypeOK, InHandPosted
    <3>. QED
      BY <3>1, <3>2, Typed DEF ControlType
  <2>. QED  BY <2>1, <2>2
<1>. QED
  BY <1>1, <1>2, StepType DEF outside, TypeInv, TypeOK

LEMMA PostType ==
  ASSUME TypeInv, NEW kind \in {"text", "other"}, Post(kind)
  PROVE  TypeInv'
<1>1. /\ posts' \in Seq({"text", "other"}) /\ Len(posts') = Len(posts) + 1
      /\ DOMAIN posts' = DOMAIN posts \cup {Len(posts) + 1}
  BY DEF Post, TypeInv, TypeOK
<1>2. /\ todo' \in [Ingestors -> SUBSET Nat]
      /\ \A q \in Ingestors : todo'[q] \subseteq DOMAIN posts'
  BY <1>1 DEF Post, TypeInv, TypeOK, InHandPosted
<1>. QED
  BY <1>1, <1>2 DEF Post, TypeInv, TypeOK, InHandPosted

LEMMA TypeInvariant == Spec => []TypeInv
<1>1. TypeInv /\ [Next]_vars => TypeInv'
  <2>1. CASE UNCHANGED vars
    BY <2>1 DEF vars, outside, TypeInv, TypeOK, InHandPosted
  <2>. QED
    BY <2>1, FetchType, SaveType, OtherType, PostType DEF Next, Run
<1>. QED  BY <1>1, InitType, PTL DEF Spec

\* Whatever is posted, in whatever order it is handled and wherever a process
\* stops, the files and the processes' copies of them stay well formed.
THEOREM TypeCorrect == Spec => []TypeOK
<1>1. TypeInv => TypeOK
  BY DEF TypeInv
<1>. QED  BY <1>1, TypeInvariant, PTL

-----------------------------------------------------------------------------
(***************************************************************************)
(* One ingestor at a time.                                                 *)
(***************************************************************************)

\* Replacing the list by one with the same ids changes no answer about ids.
LEMMA SameIds ==
  ASSUME NEW s, NEW i
  PROVE  LET t == [s EXCEPT ![i].latency = TRUE]
         IN  DOMAIN t = DOMAIN s /\ \A k \in DOMAIN s : t[k].id = s[k].id
<1> DEFINE t == [s EXCEPT ![i].latency = TRUE]
<1>1. t = [k \in DOMAIN s |-> IF k = i THEN [s[i] EXCEPT !.latency = TRUE] ELSE s[k]]
  OBVIOUS
<1>2. [s[i] EXCEPT !.latency = TRUE].id = s[i].id
  OBVIOUS
<1> HIDE DEF t
<1>3. DOMAIN t = DOMAIN s /\ \A k \in DOMAIN s : t[k].id = s[k].id
  BY <1>1, <1>2
<1>. QED  BY <1>3 DEF t

\* Appending a record stores its id and keeps the others.
LEMMA AppendStores ==
  ASSUME NEW s \in Seq(Signal), NEW r \in Signal
  PROVE  /\ StoredIn(Append(s, r), r.id)
         /\ \A id : StoredIn(s, id) => StoredIn(Append(s, r), id)
         /\ (~ StoredIn(s, r.id) /\ \A i, j \in DOMAIN s : s[i].id = s[j].id => i = j)
              => \A i, j \in DOMAIN Append(s, r) :
                   Append(s, r)[i].id = Append(s, r)[j].id => i = j
<1> DEFINE t == Append(s, r)
<1>1. /\ DOMAIN s = 1..Len(s) /\ DOMAIN t = 1..(Len(s) + 1) /\ Len(s) \in Nat
      /\ t[Len(s) + 1] = r /\ \A i \in DOMAIN s : t[i] = s[i]
  OBVIOUS
<1> HIDE DEF t
<1>2. StoredIn(t, r.id)
  BY <1>1 DEF StoredIn
<1>3. \A id : StoredIn(s, id) => StoredIn(t, id)
  BY <1>1 DEF StoredIn
<1>4. ASSUME ~ StoredIn(s, r.id), \A i, j \in DOMAIN s : s[i].id = s[j].id => i = j,
             NEW i \in DOMAIN t, NEW j \in DOMAIN t, t[i].id = t[j].id
      PROVE  i = j
  <2>1. i \in DOMAIN s \/ i = Len(s) + 1
    BY <1>1
  <2>2. j \in DOMAIN s \/ j = Len(s) + 1
    BY <1>1
  <2>. QED  BY <1>1, <1>4, <2>1, <2>2 DEF StoredIn
<1>. QED  BY <1>2, <1>3, <1>4 DEF t

AloneFacts == OneUp /\ CopiesFresh /\ AnswerHolds /\ UniqueSignals /\ EventHasSignal

LEMMA Alone == ASSUME AloneInv, together = {} PROVE AloneFacts
BY DEF AloneInv, AloneFacts

\* After a step of the ingestor that is up, what it knows is all there is to know.
LEMMA StepAlone ==
  ASSUME TypeInv, AloneFacts, NEW p \in Ingestors, \A q \in Ingestors : q # p => pc[q] = "down",
         NEW s, Goto(p, s), together = {} => UniqueSignals' /\ EventHasSignal',
         together' = together,
         s \in {"write", "writeLatency"} => view'[p].signals = signals',
         s = "writeEvents" => view'[p].events = events',
         s \in {"read", "write"} => ~ StoredIn(signals', <<SourceOf[p], job'[p]>>),
         s \in {"readEvents", "writeEvents"} => StoredIn(signals', <<SourceOf[p], job'[p]>>)
  PROVE  AloneFacts'
<1>1. pc'[p] = s /\ \A q \in Ingestors : q # p => pc'[q] = "down"
  BY Typed DEF Goto
<1>2. OneUp' /\ CopiesFresh'
  BY <1>1 DEF OneUp, CopiesFresh
<1>3. ASSUME NEW q \in Ingestors
      PROVE  /\ pc'[q] \in {"read", "write"} => ~ StoredIn(signals', <<SourceOf[q], job'[q]>>)
             /\ pc'[q] \in {"readEvents", "writeEvents"}
                  => StoredIn(signals', <<SourceOf[q], job'[q]>>)
  BY <1>1
<1>4. AnswerHolds'
  BY <1>3 DEF AnswerHolds, IdOf, StoredIn
<1>5. UniqueSignals' /\ EventHasSignal'
  BY DEF UniqueSignals, EventHasSignal
<1>. QED  BY <1>2, <1>4, <1>5 DEF AloneFacts

LEMMA OthersDown ==
  ASSUME AloneFacts, NEW p \in Ingestors, pc[p] # "down"
  PROVE  \A q \in Ingestors : q # p => pc[q] = "down"
BY DEF AloneFacts, OneUp

SilentSteps == {"down", "poll", "batch", "offset", "listen", "iterate", "exists"}

\* A step that leaves signals and events alone, to a place the invariant says nothing about.
LEMMA QuietStep ==
  ASSUME TypeInv, AloneFacts, UNCHANGED <<together, signals, events>>,
         NEW p \in Ingestors, pc[p] # "down", NEW s \in SilentSteps, Goto(p, s)
  PROVE  AloneFacts'
<1>1. UniqueSignals' /\ EventHasSignal'
  BY DEF AloneFacts, UniqueSignals, EventHasSignal, StoredIn
<1>. QED  BY <1>1, OthersDown, StepAlone DEF SilentSteps

LEMMA LeavesQuietly ==
  ASSUME NEW p \in Ingestors, Stop(p) \/ Resume(p) \/ Raise(p)
  PROVE  \E s \in SilentSteps : Goto(p, s)
BY DEF Stop, Resume, Raise, Home, SilentSteps

LEMMA FetchAlone ==
  ASSUME TypeInv, AloneFacts, NEW p \in Ingestors, Fetch(p) \/ Fail(p)
  PROVE  AloneFacts'
<1>1. pc[p] # "down" /\ UNCHANGED <<together, signals, events>>
  BY DEF Fetch, Poll, PollTorn, TruncateOffset, SetOffset, BatchDone, TakePushed, TakeOlder,
         ImportDone, Fail, PollRaises, SaveRaises, Crash, outside
<1>2. \E s \in SilentSteps : Goto(p, s)
  <2>1. CASE Fail(p) \/ PollTorn(p) \/ ImportDone(p)
    BY <2>1, LeavesQuietly DEF Fail, PollRaises, SaveRaises, Crash, PollTorn, ImportDone
  <2>2. CASE Poll(p) \/ TruncateOffset(p) \/ BatchDone(p)
    BY <2>2 DEF Poll, TruncateOffset, BatchDone, SilentSteps
  <2>3. CASE SetOffset(p) \/ TakePushed(p) \/ TakeOlder(p)
    <3>1. PICK m : Handle(p, m)
      BY <2>3 DEF SetOffset, TakePushed, TakeOlder
    <3>. QED  BY <3>1 DEF Handle, Home, SilentSteps
  <2>. QED  BY <2>1, <2>2, <2>3 DEF Fetch
<1>. QED  BY <1>1, <1>2, QuietStep

LEMMA SaveAlone ==
  ASSUME TypeInv, AloneFacts, together = {}, NEW p \in Ingestors, Save(p)
  PROVE  AloneFacts'
<1>1. /\ pc[p] # "down" /\ \A q \in Ingestors : q # p => pc[q] = "down"
      /\ UNCHANGED outside /\ together' = together
  <2>1. pc[p] # "down" /\ UNCHANGED outside
    BY DEF Save, Duplicate, NotYetStored, ReadSignals, SaveRaw, ReadEvents, Announce,
           UpdateLatency, RecordGone
  <2>. QED  BY <2>1, OthersDown DEF outside
<1>2. CASE Duplicate(p) \/ RecordGone(p)
  <2>1. (\E s \in SilentSteps : Goto(p, s)) /\ UNCHANGED <<signals, events>>
    BY <1>2, LeavesQuietly DEF Duplicate, RecordGone
  <2>. QED  BY <1>1, <2>1, QuietStep
<1>3. CASE NotYetStored(p) \/ ReadSignals(p) \/ ReadEvents(p)
  <2>1. UNCHANGED <<signals, events, job>>
    BY <1>3 DEF NotYetStored, ReadSignals, ReadEvents
  <2>2. UniqueSignals' /\ EventHasSignal'
    BY <1>1, <2>1 DEF AloneFacts, UniqueSignals, EventHasSignal, StoredIn
  <2>3. CASE NotYetStored(p)
    <3>1. Goto(p, "read") /\ ~ StoredIn(signals, <<SourceOf[p], job[p]>>)
      BY <2>3 DEF NotYetStored, IdOf
    <3>. QED  BY <1>1, <2>1, <2>2, <3>1, StepAlone
  <2>4. CASE ReadSignals(p)
    <3>1. /\ Goto(p, IF pc[p] = "read" THEN "write" ELSE "writeLatency")
          /\ view'[p].signals = signals
          /\ pc[p] = "read" => ~ StoredIn(signals, <<SourceOf[p], job[p]>>)
      BY <2>4, Typed DEF ReadSignals, View, AloneFacts, AnswerHolds, IdOf
    <3>2. PICK s : s = IF pc[p] = "read" THEN "write" ELSE "writeLatency"
      OBVIOUS
    <3>. QED  BY <1>1, <2>1, <2>2, <3>1, <3>2, StepAlone
  <2>5. CASE ReadEvents(p)
    <3>1. /\ Goto(p, "writeEvents") /\ view'[p].events = events
          /\ StoredIn(signals, <<SourceOf[p], job[p]>>)
      BY <2>5, Typed DEF ReadEvents, View, AloneFacts, AnswerHolds, IdOf
    <3>. QED  BY <1>1, <2>1, <2>2, <3>1, StepAlone
  <2>. QED  BY <1>3, <2>3, <2>4, <2>5
<1>4. CASE SaveRaw(p)
  <2> DEFINE id == <<SourceOf[p], job[p]>>
             r == [id |-> id, latency |-> FALSE]
  <2>1. /\ signals' = Append(signals, r) /\ events' = events /\ job' = job
        /\ Goto(p, "readEvents") /\ ~ StoredIn(signals, id)
    BY <1>4 DEF SaveRaw, IdOf, AloneFacts, CopiesFresh, AnswerHolds
  <2>2. r \in Signal /\ r.id = id /\ signals \in Seq(Signal)
    BY ConstantsAssumption, Typed DEF Signal, SignalId, TypeInv, TypeOK
  <2> HIDE DEF r, id
  <2>3. StoredIn(signals', id) /\ UniqueSignals' /\ EventHasSignal'
    BY <1>1, <2>1, <2>2, AppendStores DEF AloneFacts, UniqueSignals, EventHasSignal, StoredIn
  <2>. QED  BY <1>1, <2>1, <2>3, StepAlone DEF id
<1>5. CASE Announce(p)
  <2>1. /\ signals' = signals /\ events' = events \cup {<<SourceOf[p], job[p]>>}
        /\ StoredIn(signals, <<SourceOf[p], job[p]>>)
    BY <1>5 DEF Announce, IdOf, AloneFacts, CopiesFresh, AnswerHolds
  <2>2. UniqueSignals' /\ EventHasSignal'
    BY <1>1, <2>1 DEF AloneFacts, UniqueSignals, EventHasSignal, StoredIn
  <2>3. PICK s \in SilentSteps \cup {"readLatency"} : Goto(p, s)
    BY <1>5, LeavesQuietly DEF Announce
  <2>. QED  BY <1>1, <2>2, <2>3, StepAlone DEF SilentSteps
<1>6. CASE UpdateLatency(p)
  <2>1. PICK i : signals' = [signals EXCEPT ![i].latency = TRUE]
    BY <1>6 DEF UpdateLatency, AloneFacts, CopiesFresh
  <2>2. DOMAIN signals' = DOMAIN signals /\ \A k \in DOMAIN signals : signals'[k].id = signals[k].id
    BY <2>1, SameIds
  <2>3. events' = events
    BY <1>6 DEF UpdateLatency
  <2>4. UniqueSignals' /\ EventHasSignal'
    BY <1>1, <2>2, <2>3 DEF AloneFacts, UniqueSignals, EventHasSignal, StoredIn
  <2>5. PICK s \in SilentSteps : Goto(p, s)
    BY <1>6, LeavesQuietly DEF UpdateLatency
  <2>. QED  BY <1>1, <2>4, <2>5, StepAlone DEF SilentSteps
<1>. QED  BY <1>2, <1>3, <1>4, <1>5, <1>6 DEF Save

\* An ingestor starts when no other is up.
LEMMA StartAlone ==
  ASSUME TypeInv, AloneFacts, together = {}, NEW p \in Ingestors, Start(p)
  PROVE  AloneFacts'
<1>1. \A q \in Ingestors : q # p => pc[q] = "down"
  BY DEF Start
<1>2. PICK s \in SilentSteps : Goto(p, s)
  BY DEF Start, Home, SilentSteps
<1>3. UNCHANGED <<together, signals, events>>
  BY DEF Start, outside
<1>4. UniqueSignals' /\ EventHasSignal'
  BY <1>3 DEF AloneFacts, UniqueSignals, EventHasSignal, StoredIn
<1>. QED  BY <1>1, <1>2, <1>3, <1>4, StepAlone DEF SilentSteps

LEMMA NextAlone == TypeInv /\ AloneInv /\ [Next]_vars => AloneInv'
<1> SUFFICES ASSUME TypeInv, AloneInv, [Next]_vars PROVE AloneInv'
  OBVIOUS
<1>1. together' = together
  BY DEF Next, vars, outside, Start, Post, Run, Fetch, Save, Fail, Poll, PollTorn,
         TruncateOffset, SetOffset, BatchDone, TakePushed, TakeOlder, ImportDone, Duplicate,
         NotYetStored, ReadSignals, SaveRaw, ReadEvents, Announce, UpdateLatency, RecordGone,
         PollRaises, SaveRaises, Crash
<1>2. CASE together = {}
  <2>1. AloneFacts
    BY <1>2, Alone
  <2>2. ASSUME NEW kind \in {"text", "other"}, Post(kind) PROVE AloneFacts'
    BY <2>1, <2>2
    DEF Post, AloneFacts, OneUp, CopiesFresh, AnswerHolds, UniqueSignals, EventHasSignal,
        StoredIn, IdOf
  <2>3. ASSUME UNCHANGED vars PROVE AloneFacts'
    BY <2>1, <2>3
    DEF vars, outside, AloneFacts, OneUp, CopiesFresh, AnswerHolds, UniqueSignals,
        EventHasSignal, StoredIn, IdOf
  <2>4. AloneFacts'
    BY <1>2, <2>1, <2>2, <2>3, FetchAlone, SaveAlone, StartAlone DEF Next, Run
  <2>. QED  BY <2>4 DEF AloneFacts, AloneInv
<1>3. CASE together # {}
  BY <1>1, <1>3 DEF AloneInv, UniqueSignals, EventHasSignal
<1>. QED  BY <1>2, <1>3

LEMMA AloneInvariant == Spec => []AloneInv
<1>1. Init => AloneInv
  BY DEF Init, AloneInv, OneUp, CopiesFresh, AnswerHolds, UniqueSignals, EventHasSignal, StoredIn
<1>2. TypeInv /\ AloneInv /\ [Next]_vars => AloneInv'
  BY NextAlone
<1>. QED  BY <1>1, <1>2, TypeInvariant, PTL DEF Spec

\* With one ingestor at a time, and wherever it is stopped, no message is stored twice.
THEOREM MessageStoredOnce == Spec => []UniqueSignals
<1>1. AloneInv => UniqueSignals
  BY DEF AloneInv
<1>. QED  BY <1>1, AloneInvariant, PTL

\* With one ingestor at a time, a SIGNAL_RECEIVED event never lacks its record.
THEOREM EveryEventHasSignal == Spec => []EventHasSignal
<1>1. AloneInv => EventHasSignal
  BY DEF AloneInv
<1>. QED  BY <1>1, AloneInvariant, PTL
-----------------------------------------------------------------------------
(***************************************************************************)
(* One ingestor at a time: the files are a MessageStore.                   *)
(***************************************************************************)
\* What is in hand stays worth saving when p goes on with message m.
LEMMA WorthMove ==
  ASSUME TypeInv, WorthInHand, posts' = posts, NEW p \in Ingestors, NEW s, Goto(p, s),
         NEW m, job' = [job EXCEPT ![p] = m],
         s = "offset" => m \in DOMAIN posts, s \in Saving => m \in Worth
  PROVE  WorthInHand'
<1>1. Worth' = Worth
  BY DEF Worth
<1>2. ASSUME NEW q \in Ingestors
      PROVE  /\ pc'[q] = "offset" => job'[q] \in DOMAIN posts
             /\ pc'[q] \in Saving => job'[q] \in Worth
  <2>1. CASE q = p
    BY <2>1, Typed DEF Goto
  <2>2. CASE q # p
    BY <2>2, Typed DEF Goto, WorthInHand
  <2>. QED  BY <2>1, <2>2
<1>. QED  BY <1>1, <1>2 DEF WorthInHand

LEMMA WorthLeave ==
  ASSUME TypeInv, WorthInHand, posts' = posts, NEW p \in Ingestors,
         Stop(p) \/ Resume(p) \/ Raise(p)
  PROVE  WorthInHand'
<1>1. PICK s \in SilentSteps \ {"offset", "exists"} : Goto(p, s)
  BY DEF Stop, Resume, Raise, Home, SilentSteps
<1>2. job' = [job EXCEPT ![p] = NoMessage]
  BY DEF Stop, Resume, Raise
<1>3. s # "offset" /\ s \notin Saving
  BY DEF SilentSteps, Saving
<1>. QED  BY <1>1, <1>2, <1>3, WorthMove

LEMMA WorthStays ==
  ASSUME TypeInv, WorthInHand, posts' = posts, NEW p \in Ingestors, NEW s, Goto(p, s), job' = job,
         s # "offset", s \in Saving => pc[p] \in Saving
  PROVE  WorthInHand'
<1>1. job' = [job EXCEPT ![p] = job[p]]
  BY Typed
<1>2. s \in Saving => job[p] \in Worth
  BY DEF WorthInHand
<1>. QED  BY <1>1, <1>2, WorthMove

LEMMA WorthHandled ==
  ASSUME TypeInv, WorthInHand, posts' = posts, NEW p \in Ingestors, NEW m \in DOMAIN posts, Handle(p, m)
  PROVE  WorthInHand'
<1> DEFINE s == IF posts[m] = "text" THEN "exists" ELSE Home(p)
           j == IF posts[m] = "text" THEN m ELSE NoMessage
<1>1. Goto(p, s) /\ job' = [job EXCEPT ![p] = j]
  BY DEF Handle
<1>2. s # "offset" /\ (s \in Saving => j \in Worth)
  BY DEF Home, Saving, Worth
<1> HIDE DEF s, j
<1>. QED  BY <1>1, <1>2, WorthMove

LEMMA WorthNext == TypeInv /\ WorthInHand /\ [Next]_vars => WorthInHand'
<1> SUFFICES ASSUME TypeInv, WorthInHand, [Next]_vars PROVE WorthInHand'
  OBVIOUS
<1>1. ASSUME NEW kind \in {"text", "other"}, Post(kind) PROVE WorthInHand'
  <2>1. posts' = Append(posts, kind) /\ UNCHANGED <<pc, job>> /\ posts \in Seq({"text", "other"})
    BY <1>1 DEF Post, TypeInv, TypeOK
  <2>2. DOMAIN posts \subseteq DOMAIN posts' /\ \A m \in DOMAIN posts : posts'[m] = posts[m]
    BY <2>1
  <2>. QED  BY <2>1, <2>2 DEF WorthInHand, Worth
<1>2. ASSUME NEW p \in Ingestors, Start(p) PROVE WorthInHand'
  <2>1. posts' = posts /\ job' = job
    BY <1>2 DEF Start, outside
  <2>2. PICK s \in SilentSteps \ {"offset", "exists"} : Goto(p, s)
    BY <1>2 DEF Start, Home, SilentSteps
  <2>3. s # "offset" /\ s \notin Saving
    BY DEF SilentSteps, Saving
  <2>. QED  BY <2>1, <2>2, <2>3, WorthStays
<1>3. ASSUME NEW p \in Ingestors, Run(p) \/ Fail(p) PROVE WorthInHand'
  <2>0. posts' = posts
    BY <1>3 DEF Run, Fetch, Save, Fail, Poll, PollTorn, TruncateOffset, SetOffset, BatchDone,
         TakePushed, TakeOlder, ImportDone, Duplicate, NotYetStored, ReadSignals, SaveRaw,
         ReadEvents, Announce, UpdateLatency, RecordGone, PollRaises, SaveRaises, Crash, outside
  <2>1. CASE \/ Fail(p) \/ PollTorn(p) \/ ImportDone(p) \/ Duplicate(p) \/ UpdateLatency(p)
             \/ RecordGone(p) \/ (Announce(p) /\ p # "bot")
    <3>1. Stop(p) \/ Resume(p) \/ Raise(p)
      BY <2>1 DEF Fail, PollRaises, SaveRaises, Crash, PollTorn, ImportDone, Duplicate,
           UpdateLatency, RecordGone, Announce
    <3>. QED  BY <2>0, <3>1, WorthLeave
  <2>2. CASE Poll(p) \/ BatchDone(p)
    <3>1. PICK s \in {"poll", "batch"} : Goto(p, s)
      BY <2>2 DEF Poll, BatchDone
    <3>2. job' = job /\ s # "offset" /\ s \notin Saving
      BY <2>2 DEF Poll, BatchDone, Saving
    <3>. QED  BY <2>0, <3>1, <3>2, WorthStays
  <2>3. CASE \/ NotYetStored(p) \/ ReadSignals(p) \/ SaveRaw(p) \/ ReadEvents(p)
             \/ (Announce(p) /\ p = "bot")
    <3>1. PICK s : Goto(p, s) /\ s # "offset"
      BY <2>3 DEF NotYetStored, ReadSignals, SaveRaw, ReadEvents, Announce, Resume, Home
    <3>2. job' = job /\ pc[p] \in Saving
      BY <2>3 DEF NotYetStored, ReadSignals, SaveRaw, ReadEvents, Announce, Saving, Resume, Home
    <3>. QED  BY <2>0, <3>1, <3>2, WorthStays
  <2>4. CASE TruncateOffset(p)
    <3>1. todo[p] \subseteq 1..Len(posts) /\ todo[p] # {} /\ Len(posts) \in Nat
      BY <2>4, Typed DEF TruncateOffset
    <3>2. Min(todo[p]) \in DOMAIN posts
      BY <3>1, MinMember, Typed
    <3>3. /\ Goto(p, "offset") /\ job' = [job EXCEPT ![p] = Min(todo[p])]
          /\ "offset" \notin Saving
      BY <2>4 DEF TruncateOffset, Saving
    <3>. QED  BY <2>0, <3>2, <3>3, WorthMove
  <2>5. CASE SetOffset(p)
    <3>1. job[p] \in DOMAIN posts /\ Handle(p, job[p])
      BY <2>5 DEF SetOffset, WorthInHand
    <3>. QED  BY <2>0, <3>1, WorthHandled
  <2>6. CASE TakePushed(p)
    <3>1. PICK m \in todo[p] : Handle(p, m)
      BY <2>6 DEF TakePushed
    <3>. QED  BY <2>0, <3>1, Typed, WorthHandled
  <2>7. CASE TakeOlder(p)
    <3>1. todo[p] \subseteq 1..Len(posts) /\ todo[p] # {} /\ Len(posts) \in Nat
      BY <2>7, Typed DEF TakeOlder
    <3>2. Max(todo[p]) \in DOMAIN posts
      BY <3>1, MaxMember, Typed
    <3>. QED  BY <2>0, <2>7, <3>2, WorthHandled DEF TakeOlder
  <2>. QED
    BY <1>3, <2>1, <2>2, <2>3, <2>4, <2>5, <2>6, <2>7 DEF Run, Fetch, Save
<1>4. CASE UNCHANGED vars
  BY <1>4 DEF vars, outside, WorthInHand, Worth
<1>. QED  BY <1>1, <1>2, <1>3, <1>4 DEF Next

LEMMA WorthInvariant == Spec => []WorthInHand
<1>1. Init => WorthInHand
  BY DEF Init, WorthInHand, Saving
<1>. QED  BY <1>1, WorthNext, TypeInvariant, PTL DEF Spec

LEMMA IdsAppended ==
  ASSUME NEW s \in Seq(Signal), NEW r \in Signal
  PROVE  Ids(Append(s, r)) = Append(Ids(s), r.id)
<1> DEFINE t == Append(s, r)
           n == Len(s)
           u == Ids(s)
           w == Append(u, r.id)
<1>1. /\ n \in Nat /\ DOMAIN s = 1..n /\ DOMAIN t = 1..(n + 1)
      /\ t[n + 1] = r /\ \A i \in 1..n : t[i] = s[i] /\ s[i].id \in SignalId
  <2>1. /\ n \in Nat /\ DOMAIN s = 1..n /\ DOMAIN t = 1..(n + 1)
        /\ t[n + 1] = r /\ \A i \in 1..n : t[i] = s[i] /\ s[i] \in Signal
    OBVIOUS
  <2> HIDE DEF t, n
  <2>. QED  BY <2>1 DEF Signal
<1>2. r.id \in SignalId
  BY DEF Signal
<1> HIDE DEF t, n
<1>3. u = [i \in 1..n |-> s[i].id] /\ Ids(t) = [i \in 1..(n + 1) |-> t[i].id]
  BY <1>1 DEF Ids
<1>4. u \in Seq(SignalId) /\ Len(u) = n /\ \A i \in 1..n : u[i] = s[i].id
  BY <1>1, <1>3
<1> HIDE DEF u
<1>5. /\ w \in Seq(SignalId) /\ Len(w) = n + 1 /\ w[n + 1] = r.id
      /\ \A i \in 1..n : w[i] = u[i]
  BY <1>1, <1>2, <1>4
<1>6. w = [i \in 1..(n + 1) |-> w[i]]
  BY <1>1, <1>5
<1> HIDE DEF w
<1>7. \A i \in 1..(n + 1) : w[i] = t[i].id
  <2>1. \A i \in 1..(n + 1) : i = n + 1 \/ i \in 1..n
    BY <1>1
  <2>. QED  BY <1>1, <1>4, <1>5, <2>1
<1>. QED  BY <1>3, <1>6, <1>7 DEF t, u, w

\* A step that leaves the chat, the signals' ids and the events alone stutters.
LEMMA PromiseStutters ==
  ASSUME UNCHANGED <<together, posts, events>>, Ids(signals)' = Ids(signals)
  PROVE  UNCHANGED Promise!vars
BY DEF Promise!vars, Worth

LEMMA PromiseStep ==
  TypeInv /\ AloneInv /\ WorthInHand /\ [Next]_vars => [Promise!Next]_(Promise!vars)
<1> SUFFICES ASSUME TypeInv, AloneInv, WorthInHand, [Next]_vars
             PROVE  Promise!Next \/ UNCHANGED Promise!vars
  BY Zenon
<1>1. ASSUME NEW kind \in {"text", "other"}, Post(kind) PROVE Promise!Post
  <2>1. /\ posts' = Append(posts, kind) /\ UNCHANGED <<together, signals, events>>
        /\ posts \in Seq({"text", "other"})
    BY <1>1 DEF Post, TypeInv, TypeOK
  <2>2. DOMAIN posts \subseteq DOMAIN posts' /\ \A m \in DOMAIN posts : posts'[m] = posts[m]
    BY <2>1
  <2>3. Worth \subseteq Worth' /\ Ids(signals)' = Ids(signals)
    BY <2>1, <2>2 DEF Worth, Ids
  <2>. QED  BY <2>1, <2>3 DEF Promise!Post
<1>2. CASE UNCHANGED vars
  BY <1>2, PromiseStutters DEF vars, outside, Ids
<1>3. ASSUME NEW p \in Ingestors, Start(p) \/ Fetch(p) \/ Fail(p) PROVE UNCHANGED Promise!vars
  <2>1. UNCHANGED <<together, posts, signals, events>>
    BY <1>3 DEF Start, Fetch, Fail, Poll, PollTorn, TruncateOffset, SetOffset, BatchDone,
         TakePushed, TakeOlder, ImportDone, PollRaises, SaveRaises, Crash, outside
  <2>. QED  BY <2>1, PromiseStutters DEF Ids
<1>4. ASSUME NEW p \in Ingestors, Save(p) PROVE Promise!Next \/ UNCHANGED Promise!vars
  <2>1. UNCHANGED <<together, posts>> /\ pc[p] # "down"
    BY <1>4 DEF Save, Duplicate, NotYetStored, ReadSignals, SaveRaw, ReadEvents, Announce,
         UpdateLatency, RecordGone, outside
  <2>2. CASE together # {}
    BY <2>1, <2>2 DEF Promise!vars, Worth
  <2>3. CASE together = {}
    <3>1. AloneFacts
      BY <2>3, Alone
    <3>2. CASE \/ Duplicate(p) \/ NotYetStored(p) \/ ReadSignals(p) \/ ReadEvents(p)
               \/ RecordGone(p)
      <4>1. UNCHANGED <<signals, events>>
        BY <3>2 DEF Duplicate, NotYetStored, ReadSignals, ReadEvents, RecordGone
      <4>. QED  BY <2>1, <4>1, PromiseStutters DEF Ids
    <3>3. CASE SaveRaw(p)
      <4> DEFINE id == IdOf(p)
                 r == [id |-> id, latency |-> FALSE]
      <4>1. /\ signals' = Append(signals, r) /\ events' = events /\ ~ StoredIn(signals, id)
            /\ signals \in Seq(Signal)
        BY <3>1, <3>3 DEF SaveRaw, AloneFacts, CopiesFresh, AnswerHolds, TypeInv, TypeOK
      <4>2. id \in Sources \X Worth
        BY <3>3, ConstantsAssumption DEF SaveRaw, WorthInHand, Saving, IdOf
      <4>3. r.id = id
        OBVIOUS
      <4> HIDE DEF id, r
      <4>4. Ids(signals)' = Append(Ids(signals), id)
        <5>1. r \in Signal
          BY <4>2, Typed DEF r, Signal, SignalId, TypeInv, TypeOK, Worth, InHandPosted
        <5>2. Ids(Append(signals, r)) = Append(Ids(signals), r.id)
          BY <4>1, <5>1, IdsAppended
        <5>. QED  BY <4>1, <4>3, <5>2 DEF Ids
      <4>5. \A i \in DOMAIN Ids(signals) : Ids(signals)[i] # id
        BY <4>1 DEF Ids, StoredIn
      <4>6. Promise!Store
        BY <2>1, <2>3, <4>1, <4>2, <4>4, <4>5 DEF Promise!Store, Worth
      <4>. QED  BY <4>6 DEF Promise!Next
    <3>4. CASE Announce(p)
      <4>1. /\ signals' = signals /\ events' = events \cup {IdOf(p)} /\ StoredIn(signals, IdOf(p))
        BY <3>1, <3>4 DEF Announce, AloneFacts, CopiesFresh, AnswerHolds
      <4>2. PICK i \in DOMAIN signals : signals[i].id = IdOf(p)
        BY <4>1 DEF StoredIn
      <4>3. i \in DOMAIN Ids(signals) /\ Ids(signals)[i] = IdOf(p) /\ Ids(signals)' = Ids(signals)
        BY <4>1, <4>2 DEF Ids
      <4>4. Promise!Announce
        BY <2>1, <2>3, <4>1, <4>3 DEF Promise!Announce, Worth
      <4>. QED  BY <4>4 DEF Promise!Next
    <3>5. CASE UpdateLatency(p)
      <4>1. PICK i : signals' = [signals EXCEPT ![i].latency = TRUE]
        BY <3>1, <3>5 DEF UpdateLatency, AloneFacts, CopiesFresh
      <4>2. /\ DOMAIN signals' = DOMAIN signals
            /\ \A k \in DOMAIN signals : signals'[k].id = signals[k].id
        BY <4>1, SameIds
      <4>3. Ids(signals)' = Ids(signals) /\ events' = events
        BY <3>5, <4>2 DEF Ids, UpdateLatency
      <4>. QED  BY <2>1, <4>3, PromiseStutters
    <3>. QED  BY <1>4, <3>2, <3>3, <3>4, <3>5 DEF Save
  <2>. QED  BY <2>2, <2>3
<1>. QED  BY <1>1, <1>2, <1>3, <1>4 DEF Next, Run, Promise!Next

\* With one ingestor at a time the files are a store that only grows: every message worth it
\* is stored once at most, what is stored or announced stays, and nothing is announced that
\* is not stored, although every step writes back a whole file that was read before.
THEOREM IngestionImplementsStore == Spec => StoreSpec
<1>1. Init => Promise!Init
  BY DEF Init, Promise!Init, Worth, Ids
<1>. QED  BY <1>1, PromiseStep, TypeInvariant, AloneInvariant, WorthInvariant, PTL
          DEF Spec, StoreSpec, Promise!Spec
-----------------------------------------------------------------------------
(***************************************************************************)
(* Two ingestors at a time.                                                *)
(***************************************************************************)
\* What a step of p may do about one message, in terms of the numbers of its records:
\* leave, find it new, take a copy of the file, or write a copy back.
Turns(p, n, m, a, w, k, c, a2, w2, k2, c2) ==
  \/ m = n /\ a2 = a \ {p} /\ w2 = w \ {p} /\ k2 = k \ {p}
  \/ m = n /\ n = 0 /\ p \notin a \cup k /\ a2 = a \cup {p} /\ w2 = w /\ k2 = k
  \/ m = n /\ p \in a /\ a2 = a /\ w2 = w \cup {p} /\ k2 = k /\ c2[p] = n
  \/ m = n /\ p \notin a /\ a2 = a /\ w2 = w /\ k2 = k \cup {p} /\ c2[p] = n
  \/ p \in w /\ m = c[p] + 1 /\ a2 = a \ {p} /\ w2 = w \ {p} /\ k2 = k
  \/ p \in k /\ m = c[p] /\ a2 = a /\ w2 = w /\ k2 = k \ {p}

\* The numbers stay within bounds if nobody but one other is at it.
LEMMA TurnBounded ==
  ASSUME NEW p, NEW n \in Nat, NEW m \in Nat, NEW a, NEW w, NEW k, NEW c, NEW a2, NEW w2, NEW k2, NEW c2,
         w \subseteq a, a \cap k = {},
         \A q \in a \cup k : c[q] \in Nat,
         \A q \in a \cup k : q # p => c2[q] = c[q],
         \A q, r \in (a \cup k) \ {p} : q = r,
         Bounded(n, a, w, k, c), Turns(p, n, m, a, w, k, c, a2, w2, k2, c2)
  PROVE  Bounded(m, a2, w2, k2, c2)
<1>0. /\ n <= 2 /\ (a # {} => n <= 1)
      /\ \A q \in w : c[q] <= n
      /\ \A q \in k : c[q] <= 2 /\ c[q] <= n + 1 /\ n <= c[q] + 1
      /\ \A q, r \in a : q # r => n = 0
      /\ \A q \in a, r \in k : c[r] <= 1 /\ (n = 1 => c[r] = 1)
      /\ \A q, r \in k : c[q] <= c[r] + 1
  BY DEF Bounded
<1>1. CASE m = n /\ a2 = a \ {p} /\ w2 = w \ {p} /\ k2 = k \ {p}
  BY <1>0, <1>1 DEF Bounded
<1>2. CASE m = n /\ n = 0 /\ p \notin a \cup k /\ a2 = a \cup {p} /\ w2 = w /\ k2 = k
  <2>1. \A q \in w2 \cup k2 : c2[q] = c[q]
    BY <1>2
  <2>2. \A q \in k2 : c2[q] <= 1
    BY <1>0, <1>2, <2>1
  <2>3. \A q, r \in a2 : q # r => m = 0
    BY <1>2
  <2>4. \A q \in a2, r \in k2 : c2[r] <= 1 /\ (m = 1 => c2[r] = 1)
    BY <1>2, <2>2
  <2>5. /\ m <= 2 /\ (a2 # {} => m <= 1)
        /\ \A q \in w2 : c2[q] <= m
    BY <1>0, <1>2, <2>1
  <2>6. /\ \A q \in k2 : c2[q] <= 2 /\ c2[q] <= m + 1 /\ m <= c2[q] + 1
        /\ \A q, r \in k2 : c2[q] <= c2[r] + 1
    BY <1>0, <1>2, <2>1
  <2>. QED  BY <2>3, <2>4, <2>5, <2>6 DEF Bounded
<1>3. CASE m = n /\ p \in a /\ a2 = a /\ w2 = w \cup {p} /\ k2 = k /\ c2[p] = n
  BY <1>0, <1>3 DEF Bounded
<1>4. CASE m = n /\ p \notin a /\ a2 = a /\ w2 = w /\ k2 = k \cup {p} /\ c2[p] = n
  <2>1. \A q \in k2 : q = p \/ (q \in k /\ q # p /\ c2[q] = c[q])
    BY <1>4
  <2>2. \A q \in w2 : c2[q] = c[q]
    BY <1>4
  <2>3. \A q, r \in k2 : c2[q] <= c2[r] + 1
    BY <1>0, <1>4, <2>1
  <2>4. \A q \in k2 : c2[q] <= 2 /\ c2[q] <= m + 1 /\ m <= c2[q] + 1
    BY <1>0, <1>4, <2>1
  <2>5. \A q \in a2, r \in k2 : c2[r] <= 1 /\ (m = 1 => c2[r] = 1)
    BY <1>0, <1>4, <2>1
  <2>. QED  BY <1>0, <1>4, <2>2, <2>3, <2>4, <2>5 DEF Bounded
<1>5. CASE p \in w /\ m = c[p] + 1 /\ a2 = a \ {p} /\ w2 = w \ {p} /\ k2 = k
  BY <1>0, <1>5 DEF Bounded
<1>6. CASE p \in k /\ m = c[p] /\ a2 = a /\ w2 = w /\ k2 = k \ {p}
  BY <1>0, <1>6 DEF Bounded
<1>. QED  BY <1>1, <1>2, <1>3, <1>4, <1>5, <1>6 DEF Turns

\* Counting the records of a message.
LEMMA CopiesCount ==
  ASSUME NEW s \in Seq(Signal)
  PROVE  /\ \A id : Copies(s, id) \in Nat /\ (~ StoredIn(s, id) => Copies(s, id) = 0)
         /\ \A r \in Signal : \A id :
              Copies(Append(s, r), id) = Copies(s, id) + (IF r.id = id THEN 1 ELSE 0)
<1>1. /\ DOMAIN s = 1..Len(s) /\ Len(s) \in Nat
  OBVIOUS
<1>2. \A id : IsFiniteSet({i \in DOMAIN s : s[i].id = id})
  <2>1. IsFiniteSet(DOMAIN s)
    BY <1>1, FS_Interval
  <2>. QED  BY <2>1, FS_Subset
<1>3. ASSUME NEW id PROVE Copies(s, id) \in Nat /\ (~ StoredIn(s, id) => Copies(s, id) = 0)
  <2>1. Copies(s, id) \in Nat
    BY <1>2, FS_CardinalityType DEF Copies
  <2>2. ~ StoredIn(s, id) => {i \in DOMAIN s : s[i].id = id} = {}
    BY DEF StoredIn
  <2>. QED  BY <2>1, <2>2, FS_EmptySet DEF Copies
<1>4. ASSUME NEW r \in Signal, NEW id
      PROVE  Copies(Append(s, r), id) = Copies(s, id) + (IF r.id = id THEN 1 ELSE 0)
  <2> DEFINE t == Append(s, r)
             S == {i \in DOMAIN s : s[i].id = id}
             U == {i \in DOMAIN t : t[i].id = id}
             n == Len(s) + 1
  <2>1. /\ DOMAIN t = DOMAIN s \cup {n} /\ n \notin DOMAIN s
        /\ t[n] = r /\ \A i \in DOMAIN s : t[i] = s[i]
    BY <1>1
  <2> HIDE DEF t, n
  <2>2. U = IF r.id = id THEN S \cup {n} ELSE S
    BY <2>1
  <2>3. n \notin S
    BY <2>1
  <2>4. IsFiniteSet(S)
    BY <1>2
  <2> HIDE DEF S, U
  <2>5. Cardinality(U) = Cardinality(S) + (IF r.id = id THEN 1 ELSE 0) 
    <3>1. CASE r.id = id
      BY <2>2, <2>3, <2>4, <3>1, FS_AddElement
    <3>2. CASE r.id # id
      BY <2>2, <2>4, <3>2, FS_CardinalityType
    <3>. QED  BY <3>1, <3>2
  <2>. QED  BY <2>5 DEF Copies, S, U, t
<1>. QED  BY <1>3, <1>4

\* The other ingestors, their messages and their copies stay as they are.
OthersKept(p) ==
  \A q \in Ingestors : q # p => pc'[q] = pc[q] /\ job'[q] = job[q] /\ view'[q] = view[q]

LEMMA OnlyOne ==
  ASSUME TypeInv, NEW p \in Ingestors, Run(p) \/ Fail(p)
  PROVE  OthersKept(p) /\ pc[p] # "down"
<1>0. /\ pc \in [Ingestors -> Steps] /\ job \in [Ingestors -> Nat] /\ view \in [Ingestors -> View]
  BY Typed
<1>1. CASE Fetch(p)
  BY <1>0, <1>1
  DEF Fetch, Poll, PollTorn, TruncateOffset, SetOffset, BatchDone, TakePushed, TakeOlder,
      ImportDone, OthersKept, Goto, Stop, Handle, Drop
<1>2. CASE Save(p)
  BY <1>0, <1>2
  DEF Save, Duplicate, NotYetStored, ReadSignals, SaveRaw, ReadEvents, Announce,
      UpdateLatency, RecordGone, OthersKept, Goto, Resume, Raise, Stop, View
<1>3. CASE Fail(p)
  BY <1>0, <1>3
  DEF Fail, PollRaises, SaveRaises, Crash, OthersKept, Goto, Resume, Raise, Stop
<1>. QED  BY <1>1, <1>2, <1>3 DEF Run

\* What a step is for the records of one message.
Turned(p, id) ==
  Turns(p, Copies(signals, id), Copies(signals', id),
        Adding(id), Writing(id), Carrying(id), [q \in Ingestors |-> Copies(view[q].signals, id)],
        Adding(id)', Writing(id)', Carrying(id)', [q \in Ingestors |-> Copies(view'[q].signals, id)])

\* A step to a place where no list of signals is at stake.
LEMMA LeavesTurn ==
  ASSUME TypeInv, NEW p \in Ingestors, OthersKept(p), NEW id, signals' = signals,
         pc'[p] \notin {"read", "write", "writeLatency"}
  PROVE  Turned(p, id)
<1>1. /\ Adding(id)' = Adding(id) \ {p} /\ Writing(id)' = Writing(id) \ {p}
      /\ Carrying(id)' = Carrying(id) \ {p}
  BY DEF OthersKept, Adding, Writing, Carrying, IdOf
<1>. QED  BY <1>1 DEF Turned, Turns

LEMMA SaveTurn ==
  ASSUME TypeInv, NEW p \in Ingestors, Save(p), NEW id \in SignalId
  PROVE  Turned(p, id)
<1> DEFINE c == [q \in Ingestors |-> Copies(view[q].signals, id)]
           c2 == [q \in Ingestors |-> Copies(view'[q].signals, id)]
<1>0. /\ pc \in [Ingestors -> Steps] /\ job \in [Ingestors -> Nat] /\ view \in [Ingestors -> View]
      /\ signals \in Seq(Signal) /\ view[p].signals \in Seq(Signal)
  BY Typed DEF View, TypeInv, TypeOK
<1>1. OthersKept(p)
  BY OnlyOne DEF Run
<1>2. c[p] = Copies(view[p].signals, id) /\ c2[p] = Copies(view'[p].signals, id)
  OBVIOUS
<1> HIDE DEF c, c2
<1>3. CASE Duplicate(p) \/ RecordGone(p) \/ ReadEvents(p) \/ Announce(p)
  <2>1. signals' = signals
    BY <1>3 DEF Duplicate, RecordGone, ReadEvents, Announce
  <2>2. pc'[p] \notin {"read", "write", "writeLatency"}
    BY <1>0, <1>3
    DEF Duplicate, RecordGone, ReadEvents, Announce, Raise, Stop, Resume, Goto, Home
  <2>. QED  BY <1>1, <2>1, <2>2, LeavesTurn
<1>4. CASE NotYetStored(p)
  <2>1. /\ pc[p] = "exists" /\ pc'[p] = "read" /\ signals' = signals /\ job' = job
        /\ ~ StoredIn(signals, IdOf(p))
    BY <1>0, <1>4 DEF NotYetStored, Goto
  <2>2. /\ p \notin Adding(id) \cup Carrying(id) /\ p \notin Writing(id)
        /\ Adding(id)' = IF IdOf(p) = id THEN Adding(id) \cup {p} ELSE Adding(id)
        /\ Writing(id)' = Writing(id) /\ Carrying(id)' = Carrying(id)
    BY <1>1, <2>1 DEF OthersKept, Adding, Writing, Carrying, IdOf
  <2>3. IdOf(p) = id => Copies(signals, id) = 0
    BY <1>0, <2>1, CopiesCount
  <2>4. Adding(id) \ {p} = Adding(id) /\ Writing(id) \ {p} = Writing(id)
        /\ Carrying(id) \ {p} = Carrying(id)
    BY <2>2
  <2>5. CASE IdOf(p) = id
    BY <2>1, <2>2, <2>3, <2>5 DEF Turned, Turns
  <2>6. CASE IdOf(p) # id
    BY <2>1, <2>2, <2>4, <2>6 DEF Turned, Turns
  <2>. QED  BY <2>5, <2>6
<1>5. CASE ReadSignals(p)
  <2>1. /\ pc[p] \in {"read", "readLatency"} /\ signals' = signals /\ job' = job
        /\ pc'[p] = IF pc[p] = "read" THEN "write" ELSE "writeLatency"
        /\ view'[p].signals = signals
    BY <1>0, <1>5 DEF ReadSignals, Goto, View
  <2>2. c2[p] = Copies(signals, id)
    BY <1>2, <2>1
  <2>3. CASE pc[p] = "read" /\ IdOf(p) = id
    <3>1. /\ p \in Adding(id) /\ Adding(id)' = Adding(id)
          /\ Writing(id)' = Writing(id) \cup {p} /\ Carrying(id)' = Carrying(id)
      BY <1>1, <2>1, <2>3 DEF OthersKept, Adding, Writing, Carrying, IdOf
    <3>. QED  BY <2>1, <2>2, <3>1 DEF Turned, Turns, c2
  <2>4. CASE ~ (pc[p] = "read" /\ IdOf(p) = id)
    <3>1. /\ p \notin Adding(id) /\ Adding(id)' = Adding(id)
          /\ Writing(id)' = Writing(id) /\ Carrying(id)' = Carrying(id) \cup {p}
      BY <1>1, <2>1, <2>4 DEF OthersKept, Adding, Writing, Carrying, IdOf
    <3>. QED  BY <2>1, <2>2, <3>1 DEF Turned, Turns, c2
  <2>. QED  BY <2>3, <2>4
<1>6. CASE SaveRaw(p)
  <2> DEFINE r == [id |-> IdOf(p), latency |-> FALSE]
  <2>1. /\ pc[p] = "write" /\ pc'[p] = "readEvents" /\ job' = job
        /\ signals' = Append(view[p].signals, r)
    BY <1>0, <1>6 DEF SaveRaw, Goto
  <2>2. r \in Signal /\ r.id = IdOf(p)
    BY <1>0, ConstantsAssumption DEF Signal, SignalId, IdOf
  <2> HIDE DEF r
  <2>3. Copies(signals', id) = c[p] + (IF IdOf(p) = id THEN 1 ELSE 0) /\ c[p] \in Nat
    BY <1>0, <1>2, <2>1, <2>2, CopiesCount
  <2>4. CASE IdOf(p) = id
    <3>1. /\ p \in Writing(id) /\ Adding(id)' = Adding(id) \ {p}
          /\ Writing(id)' = Writing(id) \ {p} /\ Carrying(id)' = Carrying(id)
      BY <1>1, <2>1, <2>4 DEF OthersKept, Adding, Writing, Carrying, IdOf
    <3>. QED  BY <2>3, <2>4, <3>1 DEF Turned, Turns, c
  <2>5. CASE IdOf(p) # id
    <3>1. /\ p \in Carrying(id) /\ Adding(id)' = Adding(id)
          /\ Writing(id)' = Writing(id) /\ Carrying(id)' = Carrying(id) \ {p}
      BY <1>1, <2>1, <2>5 DEF OthersKept, Adding, Writing, Carrying, IdOf
    <3>2. Copies(signals', id) = c[p]
      BY <2>3, <2>5
    <3>. QED  BY <3>1, <3>2 DEF Turned, Turns, c
  <2>. QED  BY <2>4, <2>5
<1>7. CASE UpdateLatency(p)
  <2>1. PICK i : signals' = [view[p].signals EXCEPT ![i].latency = TRUE]
    BY <1>7 DEF UpdateLatency
  <2>2. /\ DOMAIN signals' = DOMAIN view[p].signals
        /\ \A j \in DOMAIN view[p].signals : signals'[j].id = view[p].signals[j].id
    BY <2>1, SameIds
  <2>3. {j \in DOMAIN signals' : signals'[j].id = id}
          = {j \in DOMAIN view[p].signals : view[p].signals[j].id = id}
    BY <2>2
  <2>4. Copies(signals', id) = c[p]
    BY <1>2, <2>3 DEF Copies
  <2>5. pc[p] = "writeLatency" /\ pc'[p] \notin {"read", "write", "writeLatency"}
    BY <1>0, <1>7 DEF UpdateLatency, Resume, Goto, Home
  <2>6. /\ p \in Carrying(id) /\ Adding(id)' = Adding(id)
        /\ Writing(id)' = Writing(id) /\ Carrying(id)' = Carrying(id) \ {p}
    BY <1>1, <2>5 DEF OthersKept, Adding, Writing, Carrying, IdOf
  <2>. QED  BY <2>4, <2>6 DEF Turned, Turns, c
<1>. QED  BY <1>3, <1>4, <1>5, <1>6, <1>7 DEF Save

LEMMA TakesTurn ==
  ASSUME TypeInv, NEW p \in Ingestors, Run(p) \/ Fail(p), NEW id \in SignalId
  PROVE  Turned(p, id)
<1>1. OthersKept(p)
  BY OnlyOne
<1>2. CASE Fetch(p) \/ Fail(p)
  <2>1. signals' = signals
    BY <1>2 DEF Fetch, Poll, PollTorn, TruncateOffset, SetOffset, BatchDone, TakePushed, TakeOlder,
         ImportDone, Fail, PollRaises, SaveRaises, Crash, outside
  <2>2. \E s \in SilentSteps : Goto(p, s)
    <3>1. CASE Fail(p) \/ PollTorn(p) \/ ImportDone(p)
      BY <3>1, LeavesQuietly DEF Fail, PollRaises, SaveRaises, Crash, PollTorn, ImportDone
    <3>2. CASE Poll(p) \/ TruncateOffset(p) \/ BatchDone(p)
      BY <3>2 DEF Poll, TruncateOffset, BatchDone, SilentSteps
    <3>3. CASE SetOffset(p) \/ TakePushed(p) \/ TakeOlder(p)
      <4>1. PICK m : Handle(p, m)
        BY <3>3 DEF SetOffset, TakePushed, TakeOlder
      <4>. QED  BY <4>1 DEF Handle, Home, SilentSteps
    <3>. QED  BY <1>2, <3>1, <3>2, <3>3 DEF Fetch
  <2>3. pc'[p] \notin {"read", "write", "writeLatency"}
    BY <2>2, Typed DEF Goto, SilentSteps
  <2>. QED  BY <1>1, <2>1, <2>3, LeavesTurn
<1>. QED  BY <1>2, SaveTurn DEF Run

PairInv ==
  OnlyTogether /\ (Cardinality(together) <= 2 => \A id \in SignalId : CopiesBounded(id))

\* Whoever is at it besides p is one and the same.
LEMMA OneOther ==
  ASSUME TypeInv, OnlyTogether, Cardinality(together) <= 2,
         NEW p \in Ingestors, pc[p] # "down"
  PROVE  \A q, r \in Ingestors : q # p /\ r # p /\ pc[q] # "down" /\ pc[r] # "down" => q = r
<1> SUFFICES ASSUME NEW q \in Ingestors, NEW r \in Ingestors, q # p, r # p,
                    pc[q] # "down", pc[r] # "down", q # r
             PROVE  FALSE
  OBVIOUS
<1>1. {p, q, r} \subseteq together
  BY DEF OnlyTogether
<1>2. IsFiniteSet({"bot", "live", "import"})
  <2>1. IsFiniteSet({"bot"})
    BY FS_Singleton
  <2>2. IsFiniteSet({"bot"} \cup {"live"})
    BY <2>1, FS_AddElement
  <2>3. IsFiniteSet(({"bot"} \cup {"live"}) \cup {"import"})
    BY <2>2, FS_AddElement
  <2>4. ({"bot"} \cup {"live"}) \cup {"import"} = {"bot", "live", "import"}
    OBVIOUS
  <2>. QED  BY <2>3, <2>4
<1>3. IsFiniteSet(together)
  BY <1>2, FS_Subset, ConstantsAssumption DEF TypeInv, TypeOK
<1>4. IsFiniteSet({p}) /\ Cardinality({p}) = 1
  BY FS_Singleton
<1>5. IsFiniteSet({p} \cup {q}) /\ Cardinality({p} \cup {q}) = 2
  BY <1>4, FS_AddElement
<1>6. Cardinality(({p} \cup {q}) \cup {r}) = 3
  BY <1>5, FS_AddElement
<1>7. ({p} \cup {q}) \cup {r} \subseteq together
  BY <1>1
<1>8. Cardinality(({p} \cup {q}) \cup {r}) <= Cardinality(together)
  BY <1>3, <1>7, FS_Subset
<1>9. Cardinality(together) \in Nat
  BY <1>3, FS_CardinalityType
<1>. QED  BY <1>6, <1>8, <1>9

LEMMA TurnPair ==
  ASSUME TypeInv, OnlyTogether, Cardinality(together) <= 2, NEW id \in SignalId,
         CopiesBounded(id), TypeInv', NEW p \in Ingestors, Run(p) \/ Fail(p)
  PROVE  CopiesBounded(id)'
<1> DEFINE c == [q \in Ingestors |-> Copies(view[q].signals, id)]
           c2 == [q \in Ingestors |-> Copies(view'[q].signals, id)]
<1>1. OthersKept(p) /\ pc[p] # "down" /\ Turned(p, id)
  BY OnlyOne, TakesTurn
<1>2. Copies(signals, id) \in Nat /\ Copies(signals', id) \in Nat
  BY CopiesCount DEF TypeInv, TypeOK
<1>3. /\ Writing(id) \subseteq Adding(id) /\ Adding(id) \cap Carrying(id) = {}
      /\ Adding(id) \cup Carrying(id) \subseteq {q \in Ingestors : pc[q] # "down"}
  BY DEF Adding, Writing, Carrying
<1>4. \A q \in Ingestors : c[q] \in Nat
  BY CopiesCount DEF TypeInv, TypeOK
<1>5. \A q \in Ingestors : q # p => c2[q] = c[q]
  BY <1>1 DEF OthersKept
<1>6. \A q, r \in (Adding(id) \cup Carrying(id)) \ {p} : q = r
  BY <1>1, <1>3, OneOther
<1>7. /\ Bounded(Copies(signals, id), Adding(id), Writing(id), Carrying(id), c)
      /\ Turns(p, Copies(signals, id), Copies(signals', id), Adding(id), Writing(id),
               Carrying(id), c, Adding(id)', Writing(id)', Carrying(id)', c2)
  BY <1>1 DEF CopiesBounded, Turned
<1> HIDE DEF c, c2
<1>8. Bounded(Copies(signals', id), Adding(id)', Writing(id)', Carrying(id)', c2)
  BY <1>2, <1>3, <1>4, <1>5, <1>6, <1>7, TurnBounded
<1>. QED  BY <1>8 DEF CopiesBounded, c2

\* Nothing changes for the records of a message when their files and copies do not.
LEMMA NoTurn ==
  ASSUME NEW id, CopiesBounded(id), UNCHANGED <<signals, job, view>>,
         \A q \in Ingestors : pc'[q] = pc[q] \/
           {pc[q], pc'[q]} \cap {"read", "write", "writeLatency"} = {}
  PROVE  CopiesBounded(id)'
<1>1. /\ Adding(id)' = Adding(id) /\ Writing(id)' = Writing(id) /\ Carrying(id)' = Carrying(id)
  BY DEF Adding, Writing, Carrying, IdOf
<1>. QED  BY <1>1 DEF CopiesBounded

LEMMA NextPair == TypeInv /\ TypeInv' /\ PairInv /\ [Next]_vars => PairInv'
<1> SUFFICES ASSUME TypeInv, TypeInv', PairInv, [Next]_vars PROVE PairInv'
  OBVIOUS
<1>0. together' = together
  BY DEF Next, vars, outside, Start, Post, Run, Fetch, Save, Fail, Poll, PollTorn,
         TruncateOffset, SetOffset, BatchDone, TakePushed, TakeOlder, ImportDone, Duplicate,
         NotYetStored, ReadSignals, SaveRaw, ReadEvents, Announce, UpdateLatency, RecordGone,
         PollRaises, SaveRaises, Crash
<1>1. ASSUME NEW p \in Ingestors, Run(p) \/ Fail(p) PROVE PairInv'
  <2>1. OnlyTogether'
    <3>1. \A q \in Ingestors : pc'[q] # "down" => pc[q] # "down"
      BY <1>1, OnlyOne DEF OthersKept
    <3>. QED  BY <1>0, <3>1 DEF OnlyTogether, PairInv
  <2>2. ASSUME Cardinality(together) <= 2, NEW id \in SignalId PROVE CopiesBounded(id)'
    BY <1>1, <2>2, TurnPair DEF PairInv
  <2>. QED  BY <1>0, <2>1, <2>2 DEF PairInv
<1>2. ASSUME UNCHANGED <<signals, job, view>>, OnlyTogether',
             \A q \in Ingestors : pc'[q] = pc[q] \/
               {pc[q], pc'[q]} \cap {"read", "write", "writeLatency"} = {}
      PROVE  PairInv'
  BY <1>0, <1>2, NoTurn DEF PairInv
<1>3. ASSUME NEW p \in Ingestors, Start(p) PROVE PairInv'
  <2>1. /\ pc[p] = "down" /\ pc'[p] \notin {"read", "write", "writeLatency"}
        /\ \A q \in Ingestors : q # p => pc'[q] = pc[q]
    BY <1>3, Typed DEF Start, Goto, Home
  <2>2. OnlyTogether'
    <3>1. \A q \in Ingestors : q # p /\ pc[q] # "down" => {p, q} \subseteq together
      BY <1>3 DEF Start
    <3>. QED  BY <1>0, <2>1, <3>1 DEF OnlyTogether, PairInv
  <2>3. UNCHANGED <<signals, job, view>>
    BY <1>3 DEF Start
  <2>. QED  BY <1>2, <2>1, <2>2, <2>3
<1>4. ASSUME (\E kind \in {"text", "other"} : Post(kind)) \/ UNCHANGED vars PROVE PairInv'
  <2>1. UNCHANGED <<signals, job, view, pc>>
    BY <1>4 DEF Post, vars
  <2>. QED  BY <1>0, <1>2, <2>1 DEF OnlyTogether, PairInv
<1>. QED  BY <1>1, <1>3, <1>4 DEF Next

LEMMA InitPair == Init => PairInv
<1> SUFFICES ASSUME Init PROVE PairInv
  OBVIOUS
<1>1. \A p \in Ingestors : pc[p] = "down"
  BY DEF Init
<1>2. ASSUME NEW id PROVE CopiesBounded(id)
  <2>1. Adding(id) = {} /\ Writing(id) = {} /\ Carrying(id) = {}
    BY <1>1 DEF Adding, Writing, Carrying
  <2>2. Copies(signals, id) = 0
    <3>1. {i \in DOMAIN signals : signals[i].id = id} = {}
      BY DEF Init
    <3>. QED  BY <3>1, FS_EmptySet DEF Copies
  <2>. QED  BY <2>1, <2>2 DEF CopiesBounded, Bounded
<1>. QED  BY <1>1, <1>2 DEF PairInv, OnlyTogether

\* Two ingestors that run at the same time, each with a stale copy of the file or not,
\* wherever they are stopped, never leave more than two records of a message.
THEOREM TwoCopiesAtMost == Spec => []OneCopyEach
<1>1. TypeInv /\ PairInv => OneCopyEach
  <2> SUFFICES ASSUME TypeInv, PairInv, Cardinality(together) <= 2, NEW i \in DOMAIN signals
               PROVE  Copies(signals, signals[i].id) <= 2
    BY DEF OneCopyEach
  <2>1. signals[i] \in Signal
    BY DEF TypeInv, TypeOK
  <2>2. signals[i].id \in SignalId
    BY <2>1 DEF Signal
  <2>. QED  BY <2>2 DEF PairInv, CopiesBounded, Bounded
<1>. QED  BY <1>1, InitPair, NextPair, TypeInvariant, PTL DEF Spec
=============================================================================
