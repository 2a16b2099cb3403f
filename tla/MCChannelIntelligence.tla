------------------------ MODULE MCChannelIntelligence ------------------------
(***************************************************************************)
(* A small instance of ChannelIntelligence: the thresholds are scaled down *)
(* so that a few trades reach every grade.                                 *)
(***************************************************************************)
EXTENDS ChannelIntelligence

\* Losing, breaking even, and enough for one loss and an average above 1 R.
MCResults == {-1, 0, 4}

\* As the defaults: maxStreak < pauseStreak < rejectStreak.
MCThresholds ==
  [minSignals |-> 2, minRR |-> 1, maxDrawdown |-> 2,
   maxStreak |-> 1, pauseStreak |-> 2, rejectStreak |-> 3]
=============================================================================
