------------------------------ MODULE Research ------------------------------
(***************************************************************************)
(* The offline parts side by side: the replay of signals (SignalReplay),   *)
(* the learning layer (SourceLearning) and the way from a message to a     *)
(* paper trade (SignalParsing).  Nothing of one reads what another keeps,  *)
(* so every order of their steps is as good as any other: a behaviour      *)
(* follows one of them.                                                    *)
(***************************************************************************)
EXTENDS SignalReplay, SourceLearning, SignalParsing

VARIABLE lane   \* the part that moves

vars == <<lane, ticks, candles, posts, ledger, memory, message, signal, parsed, papers>>

Init ==
  /\ lane \in {"replay", "learning", "desk"}
  /\ ReplayInit /\ LearnInit /\ DeskInit

Next ==
  /\ \/ lane = "replay" /\ ReplayNext /\ UNCHANGED <<learnVars, deskVars>>
     \/ lane = "learning" /\ LearnNext /\ UNCHANGED <<replayVars, deskVars>>
     \/ lane = "desk" /\ DeskNext /\ UNCHANGED <<replayVars, learnVars>>
  /\ UNCHANGED lane

Spec == Init /\ [][Next]_vars

\* The three parts keep prices, results and messages of their types: a candle's
\* prices are positive, a source's results have whole counts, and a paper trade has
\* both its levels.
TypeOK == ReplayTypeOK /\ LearnTypeOK /\ DeskTypeOK
=============================================================================
