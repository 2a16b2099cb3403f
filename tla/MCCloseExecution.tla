-------------------------- MODULE MCCloseExecution --------------------------
(***************************************************************************)
(* A small instance of CloseExecution: two processes that close one trade, *)
(* and one process alone, with every fault and with those that let a call  *)
(* come to its end.                                                        *)
(***************************************************************************)
EXTENDS CloseExecution

CONSTANTS p1, p2

Circumstances(crew, faults, trades, retries, n) ==
  [crew |-> crew, faults |-> faults, trades |-> trades, retries |-> retries, calls |-> n]

MCWorlds ==
  {Circumstances({p1, p2}, {"crash", "timeout", "lookup"}, {1}, 1, 2),
   Circumstances({p1}, FaultKinds, {1, 2}, 2, 2),
   Circumstances({p1}, FaultKinds, {1}, 2, 3),
   Circumstances({p1}, {"timeout", "lag", "lookup"}, {1, 2}, 2, 2)}
=============================================================================
