-------------------------- MODULE MCTradeExecution --------------------------
(***************************************************************************)
(* Small instances of TradeExecution.  Requests are model values q1..q3;   *)
(* each configuration picks the functions below that make its questions    *)
(* arise.                                                                  *)
(***************************************************************************)
EXTENDS TradeExecution

CONSTANTS q1, q2, k1, k2, s1, sigA

\* All requests trade one symbol; q2 sells, so that it may be netted.
OneSymbol == [r \in Requests |-> s1]
SellSecond == [r \in Requests |-> IF r = q2 THEN "sell" ELSE "buy"]
AllBuy == [r \in Requests |-> "buy"]

\* Every request has a key of its own.
OwnKeys == [r \in Requests |-> IF r = q1 THEN k1 ELSE k2]

\* q1 has a uuid for every attempt, q2 a caller's id that a retry repeats.
MixedIds == [r \in Requests |-> IF r = q2 THEN sigA ELSE NoSignal]
FreshIds == [r \in Requests |-> NoSignal]

\* main.py: every run submits one id, and the prices in the key differ.
OneId == [r \in Requests |-> sigA]

AddAll == [r \in Requests |-> "ALLOW_ADD"]
RejectAll == [r \in Requests |-> "REJECT_IF_EXISTS"]
CloseAll == [r \in Requests |-> "CLOSE_EXISTING_FIRST"]
RejectOrClose == [r \in Requests |->
  IF r = q1 THEN "REJECT_IF_EXISTS" ELSE "CLOSE_EXISTING_FIRST"]
AddOrClose == [r \in Requests |->
  IF r = q1 THEN "ALLOW_ADD" ELSE "CLOSE_EXISTING_FIRST"]

Trading == [kill |-> FALSE, allowLive |-> TRUE]
Running == {Trading}
KillOrNot == {Trading, [Trading EXCEPT !.kill = TRUE]}
=============================================================================
