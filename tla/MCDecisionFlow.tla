--------------------------- MODULE MCDecisionFlow ---------------------------
(***************************************************************************)
(* A small instance of DecisionFlow.                                       *)
(***************************************************************************)
EXTENDS DecisionFlow, TLC

\* The defaults of DecisionConfig.
MCConfig ==
  [base |-> 50, channel |-> 20, ensemble |-> 15, fusion |-> 10, ml |-> 5,
   approve |-> 50, reject |-> 25]

\* A complete signal, and one with nothing but its symbol and action.
MCFeatures ==
  {[symbol |-> TRUE, action |-> TRUE, entry |-> p, stop |-> p, valid |-> p,
    targets |-> IF p THEN 2 ELSE 0, reward |-> IF p THEN 15 ELSE 0, source |-> 60] :
     p \in BOOLEAN}

MCOpinions == {<<"eur", "buy">>, <<"eur", "sell">>, <<"gbp", "buy">>}

MCWeight == [s \in Sources |-> 100]

\* One position of eur reaches the symbol's limit.
MCStop == [s \in Symbols |-> IF s = "eur" THEN 2 ELSE 3]

MCLimits == [trades |-> 3, symbol |-> 4, source |-> 4, account |-> 7]

MCCapital == [base |-> 8, policy |-> 4, minUnits |-> 1, maxUnits |-> 2, maxValue |-> 4]

Symmetry == Permutations(Sources) \cup Permutations(Flows)
=============================================================================
