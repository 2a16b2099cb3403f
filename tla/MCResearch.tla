----------------------------- MODULE MCResearch -----------------------------
(***************************************************************************)
(* A small instance of Research.                                           *)
(***************************************************************************)
EXTENDS Research, TLC

\* With and without an entry; the last has its levels on the wrong sides.
MCPlans ==
  {[action |-> "buy", entry |-> NoPrice, stop |-> 4, target |-> 7],
   [action |-> "buy", entry |-> 4, stop |-> 3, target |-> 6],
   [action |-> "sell", entry |-> 6, stop |-> 7, target |-> 4],
   [action |-> "sell", entry |-> 6, stop |-> 4, target |-> 6]}

\* A price may jump over a level.
MCMoves == {-1, 2, 3}

\* Halves of an R: whole and fractional results, and one beyond the target.
MCOutcomes == {-2, -1, 0, 3}

Symmetry == Permutations(Sources)

At(label, at, price) == [label |-> label, at |-> at, price |-> price]

MCWords ==
  {[word |-> "BUY"], [word |-> "SELL"], [word |-> "CLOSE NOW"], [word |-> "MOVE SL"],
   [symbol |-> "EUR_USD"],
   At("ENTRY", FALSE, 2), At("", TRUE, 2), At("LIMIT", FALSE, 2),
   At("SL", FALSE, 1), At("SL", TRUE, 1), At("TP", FALSE, 3), At("TP", TRUE, 3)}
=============================================================================
