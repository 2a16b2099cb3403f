--------------------------- MODULE OrderAuthority ---------------------------
(***************************************************************************)
(* What the trade executor promises about the orders it sends, with all    *)
(* of its machinery left out.                                              *)
(*                                                                         *)
(* An attempt is granted before an order may be placed for it, each grant  *)
(* is good for one order, and two grants for one idempotency key are more  *)
(* than Window time units apart.  TradeExecution is shown to implement     *)
(* this for a single process: a grant is a record of the execution store,  *)
(* an order is an entry of the broker's book.                              *)
(***************************************************************************)
EXTENDS Naturals, Sequences

CONSTANTS
  Names,    \* what attempts are told apart by
  Keys,     \* idempotency keys
  Window    \* how long a key stays blocked (window_seconds, 300 in the code)

VARIABLES
  clock,    \* the current time
  granted,  \* the grants given so far: [n, key, at]
  placed    \* the attempt of every order placed, in their order

vars == <<clock, granted, placed>>

Init ==
  /\ clock = 0
  /\ granted = {}
  /\ placed = <<>>

Blocked(k) == \E g \in granted : g.key = k /\ clock <= g.at + Window

Grant ==
  /\ \E k \in Keys, n \in Names :
        /\ ~ Blocked(k)
        /\ \A g \in granted : g.n # n
        /\ granted' = granted \cup {[n |-> n, key |-> k, at |-> clock]}
  /\ UNCHANGED <<clock, placed>>

Place ==
  /\ \E g \in granted :
        /\ \A t \in DOMAIN placed : placed[t] # g.n
        /\ placed' = Append(placed, g.n)
  /\ UNCHANGED <<clock, granted>>

Advance ==
  /\ clock' = clock + 1
  /\ UNCHANGED <<granted, placed>>

Next == Grant \/ Place \/ Advance

Spec == Init /\ [][Next]_vars
=============================================================================
