------------------------ MODULE ExecutionStoreProofs ------------------------
(***************************************************************************)
(* What the operations of ExecutionStore do to a list of records: lemmas   *)
(* for the proofs about the executors that share the file.                 *)
(***************************************************************************)
EXTENDS ExecutionStore, FiniteOrders, TLAPS

Statuses == UnfinishedStatuses \cup FinalStatuses

\* The loop of update_attempt stops at a record of the id if there is one, and
\* at the only one if there is only one.
LEMMA FirstFound ==
  ASSUME NEW s \in Seq(Record), NEW id, Holds(s, id)
  PROVE  /\ First(s, id) \in DOMAIN s
         /\ s[First(s, id)].id = id
<1> DEFINE T == {i \in DOMAIN s : s[i].id = id}
<1>1. T \subseteq 1..Len(s) /\ T # {} /\ Len(s) \in Nat
  BY DEF Holds
<1>2. \E i \in T : \A j \in T : i <= j
  <2> HIDE DEF T
  <2>. QED  BY <1>1, LeastPlace
<1>3. \E i \in DOMAIN s : s[i].id = id /\ \A j \in DOMAIN s : s[j].id = id => i <= j
  BY <1>2
<1>. QED  BY <1>3 DEF First

\* update_attempt with a status changes the status of one record and nothing else.
LEMMA StatusUpdate ==
  ASSUME NEW s \in Seq(Record), NEW id, NEW st
  PROVE  LET t == WithStatus(s, id, st)
         IN  /\ DOMAIN t = DOMAIN s
             /\ \A i \in DOMAIN s :
                  /\ t[i].n = s[i].n /\ t[i].id = s[i].id /\ t[i].key = s[i].key
                  /\ t[i].trade = s[i].trade /\ t[i].created = s[i].created
                  /\ t[i].status = IF i = First(s, id) THEN st ELSE s[i].status
<1> DEFINE k == First(s, id)
<1>1. WithStatus(s, id, st)
        = [i \in DOMAIN s |-> IF i = k THEN [s[k] EXCEPT !.status = st] ELSE s[i]]
  BY DEF WithStatus
<1>2. \A i \in DOMAIN s : s[i] \in Record
  OBVIOUS
<1>. QED  BY <1>1, <1>2 DEF Record

\* With a result, also the trade of that record.
LEMMA ResultUpdate ==
  ASSUME NEW s \in Seq(Record), NEW id, NEW st, NEW tr
  PROVE  LET t == WithResult(s, id, st, tr)
         IN  /\ DOMAIN t = DOMAIN s
             /\ \A i \in DOMAIN s :
                  /\ t[i].n = s[i].n /\ t[i].id = s[i].id /\ t[i].key = s[i].key
                  /\ t[i].created = s[i].created
                  /\ t[i].trade = IF i = First(s, id) THEN tr ELSE s[i].trade
                  /\ t[i].status = IF i = First(s, id) THEN st ELSE s[i].status
<1> DEFINE k == First(s, id)
<1>1. WithResult(s, id, st, tr)
        = [i \in DOMAIN s |->
             IF i = k THEN [[s[k] EXCEPT !.status = st] EXCEPT !.trade = tr] ELSE s[i]]
  BY DEF WithResult
<1>2. \A i \in DOMAIN s : s[i] \in Record
  OBVIOUS
<1>. QED  BY <1>1, <1>2 DEF Record

\* An update keeps a list of records a list of records.
LEMMA WithStatusType ==
  ASSUME NEW s \in Seq(Record), NEW id, NEW st \in Statuses
  PROVE  WithStatus(s, id, st) \in Seq(Record)
<1> DEFINE k == First(s, id)
           t == WithStatus(s, id, st)
<1>1. t = [i \in DOMAIN s |-> IF i = k THEN [s[k] EXCEPT !.status = st] ELSE s[i]]
  BY DEF WithStatus
<1>2. \A i \in DOMAIN s : s[i] \in Record
  OBVIOUS
<1>3. \A r \in Record : [r EXCEPT !.status = st] \in Record
  BY Zenon DEF Record, Statuses
<1> HIDE DEF t
<1>4. \A i \in DOMAIN s : t[i] \in Record
  BY <1>1, <1>2, <1>3
<1>5. t \in [1..Len(s) -> Record]
  BY <1>1, <1>4
<1>6. t \in Seq(Record)
  BY <1>5
<1>. QED  BY <1>6 DEF t

LEMMA WithResultType ==
  ASSUME NEW s \in Seq(Record), NEW id, NEW st \in Statuses, NEW tr \in Nat
  PROVE  WithResult(s, id, st, tr) \in Seq(Record)
<1> DEFINE k == First(s, id)
           t == WithResult(s, id, st, tr)
<1>1. t = [i \in DOMAIN s |->
             IF i = k THEN [[s[k] EXCEPT !.status = st] EXCEPT !.trade = tr] ELSE s[i]]
  BY DEF WithResult
<1>2. \A i \in DOMAIN s : s[i] \in Record
  OBVIOUS
<1>3. \A r \in Record : [[r EXCEPT !.status = st] EXCEPT !.trade = tr] \in Record
  BY Zenon DEF Record, Statuses
<1> HIDE DEF t
<1>4. \A i \in DOMAIN s : t[i] \in Record
  BY <1>1, <1>2, <1>3
<1>5. t \in [1..Len(s) -> Record]
  BY <1>1, <1>4
<1>6. t \in Seq(Record)
  BY <1>5
<1>. QED  BY <1>6 DEF t

\* So does the record of a new attempt (create_attempt), or of a new close.
LEMMA AttemptRecordType ==
  ASSUME NEW s \in Seq(Record), NEW n \in Nat, NEW id \in RequestIds,
         NEW k \in Keys, NEW time \in Nat
  PROVE  /\ AttemptRecord(n, id, k, time) \in Record
         /\ Append(s, AttemptRecord(n, id, k, time)) \in Seq(Record)
<1>1. AttemptRecord(n, id, k, time) \in Record
  BY DEF AttemptRecord, Record, UnfinishedStatuses, OpenUnfinished, NoTrade
<1>. QED  BY <1>1

LEMMA CloseRecordType ==
  ASSUME NEW s \in Seq(Record), NEW n \in Nat, NEW id \in RequestIds,
         NEW tr \in Nat, NEW time \in Nat
  PROVE  /\ CloseRecord(n, id, tr, time) \in Record
         /\ Append(s, CloseRecord(n, id, tr, time)) \in Seq(Record)
<1>1. CloseRecord(n, id, tr, time) \in Record
  BY DEF CloseRecord, Record, UnfinishedStatuses, CloseUnfinished, NoKey
<1>. QED  BY <1>1

\* Appending keeps every record in its place.
LEMMA AppendRecord ==
  ASSUME NEW s \in Seq(Record), NEW r \in Record
  PROVE  LET t == Append(s, r)
         IN  /\ Len(s) \in Nat /\ DOMAIN s = 1..Len(s)
             /\ DOMAIN t = 1..(Len(s) + 1)
             /\ \A i \in 1..Len(s) : t[i] = s[i]
             /\ t[Len(s) + 1] = r
OBVIOUS
=============================================================================
