--------------------------- MODULE SourceLearning ---------------------------
(***************************************************************************)
(* The learning layer: PerformanceMemory, SourceEvaluator,                 *)
(* RecommendationEngine and ModelTrainingDataset, around one ledger.       *)
(*                                                                         *)
(* The memory of a source is kept up to date outcome by outcome            *)
(* (ingest_outcome) or built from all events (build).  The first knows     *)
(* only five numbers of a source and makes up results that fit them; the   *)
(* second reads a ledger into which the layer writes its own events, too.  *)
(*                                                                         *)
(* Results are in units of 1/R of the risk of a trade.                     *)
(***************************************************************************)
EXTENDS Integers, Sequences, FiniteSets, Functions

CONSTANTS
  Sources,
  Outcomes,     \* realized_r of closed trades
  R,            \* 1.0 in these units
  Recent,       \* results that count as recent, 5 in the code
  MaxOutcomes,  \* bound: closed trades
  MaxReviews    \* bound: recommendations and training runs

ASSUME LearningAssumption ==
  /\ Outcomes \subseteq Int /\ R \in Nat \ {0} /\ Recent \in Nat \ {0}
  /\ MaxOutcomes \in Nat /\ MaxReviews \in Nat

VARIABLES
  ledger,   \* the events, oldest first
  memory    \* what the caller holds: a SourcePerformance for some sources

learnVars == <<ledger, memory>>

(***************************************************************************)
(* outcome  a closed trade; payload.realized_r is its result               *)
(* example  TRAINING_EXAMPLE_CREATED; the result is under payload.features *)
(* advice   a recommendation about a source                                *)
(***************************************************************************)
Event == [kind : {"outcome", "example", "advice"}, source : Sources, r : Int]
Performance == [trades : Nat, wins : Nat, losses : Nat, net : Int, recent : Int]
-----------------------------------------------------------------------------
(***************************************************************************)
(* PerformanceMemory.                                                      *)
(***************************************************************************)
Count(values, Test(_)) == Cardinality({i \in DOMAIN values : Test(values[i])})

\* values[-5:]: the places with fewer than Recent places after them.
Latest(places) == {i \in places : Cardinality({j \in places : j > i}) < Recent}

\* _performance, of results at any places of a list.
Summary(values) ==
  [trades |-> Cardinality(DOMAIN values),
   wins   |-> Count(values, LAMBDA v : v > 0),
   losses |-> Count(values, LAMBDA v : v < 0),
   net    |-> SumFunction(values),
   recent |-> SumFunctionOnSet(values, Latest(DOMAIN values))]

Whole(p) == [i \in 1..p.trades |->
  IF i <= p.wins THEN R ELSE IF i <= p.wins + p.losses THEN -R ELSE 0]

\* _values_from_performance: whole wins, whole losses and zeros, the last of which
\* takes up the difference to the net.
Values(p) ==
  [i \in 1..p.trades |->
     IF i = p.trades THEN Whole(p)[i] + (p.net - SumFunction(Whole(p))) ELSE Whole(p)[i]]

\* Mutant: a result is looked for deeper in the payload.
IsResultAnywhere(e) == e.kind \in {"outcome", "example"}

\* build takes the events with a source and a realized_r.
IsResult(e) == e.kind = "outcome"

ResultsOf(s) ==
  [i \in {i \in DOMAIN ledger : IsResult(ledger[i]) /\ ledger[i].source = s} |-> ledger[i].r]

Build == [s \in {s \in Sources : DOMAIN ResultsOf(s) # {}} |-> Summary(ResultsOf(s))]

\* ingest_outcome: every source of the memory is turned into values and back.
Ingest(s, r) ==
  LET values(t) == IF t \in DOMAIN memory THEN Values(memory[t]) ELSE <<>>
  IN  [t \in DOMAIN memory \cup {s} |->
         Summary(IF t = s THEN Append(values(t), r) ELSE values(t))]
-----------------------------------------------------------------------------
(***************************************************************************)
(* SourceEvaluator and RecommendationEngine.                               *)
(***************************************************************************)
\* Mutant: the recent results alone decide.
HealthRecent(p) ==
  IF p.trades > 0 /\ p.recent < 0 THEN "deteriorating"
  ELSE IF p.trades > 0 /\ p.recent > 0 THEN "improving" ELSE "stable"

Health(p) ==
  IF p.trades > 0 /\ p.recent < 0 /\ p.net <= 0 THEN "deteriorating"
  ELSE IF p.trades > 0 /\ p.recent > 0 /\ p.net > 0 THEN "improving" ELSE "stable"

Advice(p) ==
  CASE Health(p) = "deteriorating" -> "pause"
    [] Health(p) = "improving"     -> "promote"
    [] OTHER                       -> "continue_paper"
-----------------------------------------------------------------------------
LearnInit == ledger = <<>> /\ memory = <<>>

Number(kind) == Count(ledger, LAMBDA e : e.kind = kind)

\* A trade is closed: its event is in the ledger, its TradeOutcome in the memory.
CloseTrade ==
  /\ Number("outcome") < MaxOutcomes
  /\ \E s \in Sources, r \in Outcomes :
       /\ ledger' = Append(ledger, [kind |-> "outcome", source |-> s, r |-> r])
       /\ memory' = Ingest(s, r)

\* A caller that starts again builds its memory from the ledger.
Rebuild == memory' = Build /\ UNCHANGED ledger

\* recommend: two events, or three, all of one recommendation.
Recommend ==
  /\ Number("advice") < MaxReviews
  /\ \E s \in DOMAIN memory :
       ledger' = Append(ledger, [kind |-> "advice", source |-> s, r |-> 0])
  /\ UNCHANGED memory

\* from_events: an example for each result, also for one that has one already.
WithExamples ==
  LET log[k \in 0..Len(ledger)] ==
        IF k = 0 THEN ledger
        ELSE IF IsResult(ledger[k]) THEN Append(log[k - 1], [ledger[k] EXCEPT !.kind = "example"])
        ELSE log[k - 1]
  IN  log[Len(ledger)]

Train ==
  /\ Number("example") < MaxReviews
  /\ \E k \in DOMAIN ledger : IsResult(ledger[k])
  /\ ledger' = WithExamples
  /\ UNCHANGED memory

LearnNext == CloseTrade \/ Rebuild \/ Recommend \/ Train
LearnSpec == LearnInit /\ [][LearnNext]_learnVars
-----------------------------------------------------------------------------
(***************************************************************************)
(* Properties.                                                             *)
(***************************************************************************)
Traded(s) == {i \in DOMAIN ledger : ledger[i].kind = "outcome" /\ ledger[i].source = s}
History(s) == [i \in Traded(s) |-> ledger[i].r]

LearnTypeOK ==
  /\ ledger \in Seq(Event)
  /\ DOMAIN memory \subseteq Sources
  /\ \A s \in DOMAIN memory : memory[s] \in Performance

\* Whether it was built or kept up to date, and whatever the layer has written into
\* the ledger meanwhile, the memory has the trades and the net of the trades that were
\* closed; the wins and losses, too, as long as all results are whole.
MemoryTotals ==
  /\ DOMAIN memory = {s \in Sources : Traded(s) # {}}
  /\ \A s \in DOMAIN memory :
       LET true == Summary(History(s))
       IN  /\ memory[s].trades = true.trades /\ memory[s].net = true.net
           /\ (\A i \in Traded(s) : ledger[i].r \in {R, 0, -R}) =>
                memory[s].wins = true.wins /\ memory[s].losses = true.losses

\* The recent results of an incremental memory are made up, but the advice never
\* turns into its opposite for it, and it is the same while all results are recent.
AdviceSound ==
  \A s \in DOMAIN memory :
    LET advised == Advice(memory[s])
        deserved == Advice(Summary(History(s)))
    IN  /\ {advised, deserved} # {"promote", "pause"}
        /\ Cardinality(Traded(s)) <= Recent => advised = deserved
-----------------------------------------------------------------------------
(***************************************************************************)
(* What holds all the time, for the proof of the two.                      *)
(***************************************************************************)

\* A summary does not have more wins and losses than trades, and its recent results
\* are all of them as long as there are few.
Plausible(p) == p.wins + p.losses <= p.trades /\ (p.trades <= Recent => p.recent = p.net)

LearnInv ==
  /\ LearnTypeOK
  /\ MemoryTotals
  /\ \A s \in DOMAIN memory : Plausible(memory[s])
=============================================================================
