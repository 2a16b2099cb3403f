--------------------------- MODULE ExecutionStore ---------------------------
(***************************************************************************)
(* The contents of data/execution_state.json and the operations of         *)
(* ExecutionStore on it, as operators: every operation of the class reads  *)
(* the whole file, changes the list and replaces the file, and the modules *)
(* that use this one decide what may happen between the read and the       *)
(* replacement.                                                            *)
(*                                                                         *)
(* A record keeps the fields the control flow depends on.  n numbers the   *)
(* attempts and is in no JSON record: it identifies the attempt a record   *)
(* was created for, which request_id does not always do.                   *)
(***************************************************************************)
EXTENDS Naturals, Sequences

CONSTANTS
  Keys,      \* idempotency keys
  Signals    \* external signal ids given by the callers

NoTrade == 0   \* broker_trade_id is None
NoKey == 0     \* a TRADE_CLOSE record has no idempotency_key

\* A request id is the caller's signal id, or a fresh uuid (numbered here).
RequestIds == ({"uuid"} \X Nat) \cup ({"signal"} \X Signals)

OpenUnfinished ==
  {"ATTEMPT_STARTED", "BROKER_REQUEST_SENT", "BROKER_RESPONSE_RECEIVED"}

CloseUnfinished ==
  {"CLOSE_ATTEMPT_STARTED", "CLOSE_REQUEST_SENT", "CLOSE_RESPONSE_RECEIVED"}

UnfinishedStatuses == OpenUnfinished \cup CloseUnfinished

\* What the executors write last: the parsed answer (_parse_oanda_response has no
\* REJECTED), the discrepancy, and the plain strings EXCEPTION and CLOSED.
FinalStatuses ==
  {"FILLED", "CANCELED", "PENDING", "UNKNOWN", "DISCREPANCY", "EXCEPTION", "CLOSED"}

Record ==
  [n : Nat, id : RequestIds, key : Keys \cup {NoKey},
   status : UnfinishedStatuses \cup FinalStatuses, trade : Nat, created : Nat]

AttemptRecord(n, id, key, now) ==
  [n |-> n, id |-> id, key |-> key,
   status |-> "ATTEMPT_STARTED", trade |-> NoTrade, created |-> now]

CloseRecord(n, id, trade, now) ==
  [n |-> n, id |-> id, key |-> NoKey,
   status |-> "CLOSE_ATTEMPT_STARTED", trade |-> trade, created |-> now]

\* The records update_attempt's loop would stop at; it stops at the first.
Holds(s, id) == \E i \in DOMAIN s : s[i].id = id

First(s, id) ==
  CHOOSE i \in DOMAIN s : s[i].id = id /\ \A j \in DOMAIN s : s[j].id = id => i <= j

\* update_attempt with a new status only, and with the parsed result.
WithStatus(s, id, status) == [s EXCEPT ![First(s, id)].status = status]

\* Mutant: the result is stored without its trade id.
WithResultNoTrade(s, id, status, trade) ==
  [s EXCEPT ![First(s, id)].status = status]

\* Mutant: the result goes to the newest record.
WithResultLast(s, id, status, trade) ==
  [s EXCEPT ![Len(s)].status = status, ![Len(s)].trade = trade]

WithResult(s, id, status, trade) ==
  [s EXCEPT ![First(s, id)].status = status, ![First(s, id)].trade = trade]

\* What get_unfinished_attempts returns.
Unfinished(s) == {i \in DOMAIN s : s[i].status \in UnfinishedStatuses}

\* known_trade_ids of the startup reconciler.
KnownTrades(s) == {s[i].trade : i \in DOMAIN s} \ {NoTrade}

\* Mutant: `<` in place of `<=` at the end of the window.
KeyBlockedOffByOne(s, key, now, w) ==
  \E i \in DOMAIN s : s[i].key = key /\ now < s[i].created + w

\* PersistentIdempotencyStore.exists: a record of the key is not older than w.
KeyBlocked(s, key, now, w) ==
  \E i \in DOMAIN s : s[i].key = key /\ now <= s[i].created + w
=============================================================================
