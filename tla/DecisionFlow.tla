---------------------------- MODULE DecisionFlow ----------------------------
(***************************************************************************)
(* From parsed signals to positions: the way a signal takes through        *)
(* DecisionEngine, EnsembleDecisionEngine or StrategyFusionEngine,         *)
(* RiskEngine, CapitalAllocator and ExecutionRequestFactory, put together  *)
(* as tests/e2e/helpers.py and tests/pipeline do.                          *)
(*                                                                         *)
(* The parts keep no state: each is given values that were true when its   *)
(* caller read them.  So several decisions are in flight at once, and      *)
(* between two steps of one the portfolio changes and candidates age.      *)
(*                                                                         *)
(* Money is in whole units, the allocator's multipliers in quarters (their *)
(* product in sixteenths), the decision score in hundredths.               *)
(***************************************************************************)
EXTENDS Naturals, Sequences, FiniteSets, FiniteSetsExt, Functions

CONSTANTS
  Flows,        \* decisions that may be in flight at once
  Sources,
  Symbols,
  Opinions,     \* what a signal may say, a symbol and an action
  Grades,       \* the grades the sources have, "NONE" without channel intelligence
  ChannelScores, \* channel scores, 0..100
  Consensus,    \* scores of approved ensemble decisions, 0..100
  Features,     \* the ModelInputFeatures of signals
  Config,       \* DecisionConfig: base, approve, reject and the weights of channel,
                \*   ensemble, fusion and ml
  Weight,       \* Sources -> 0..100, the ensemble's source_scores and the weights of
                \*   the strategy signals
  MinimumWeight, \* of StrategyFusionEngine
  StopDistance, \* Symbols -> Nat, |entry - stop| of a signal for one unit
  Limits,       \* RiskPolicy: trades, symbol, source, account
  Capital,      \* AllocationConfig and the account: base, policy (risk amounts),
                \*   minUnits, maxUnits, maxValue (maximum_position_value in units)
  MinChannelScore, \* minimum_channel_score of the allocator
  Multipliers,  \* products of the allocator's other multipliers, in quarters
  MaxSignals,   \* bound: signals decided upon
  MaxExpired    \* bound: candidates that get stale

ASSUME ConstantsAssumption ==
  /\ Opinions \subseteq Symbols \X {"buy", "sell"}
  /\ ChannelScores \subseteq 0..100 /\ Consensus \subseteq 0..100
  /\ Features \subseteq [symbol : BOOLEAN, action : BOOLEAN, entry : BOOLEAN,
                         stop : BOOLEAN, valid : BOOLEAN, targets : Nat, reward : Nat,
                         source : 0..100]
  /\ Config \in [base : 0..100, channel : 0..100, ensemble : 0..100, fusion : 0..100,
                  ml : 0..100, approve : 0..100, reject : 0..100]
  /\ MinimumWeight \in Nat
  /\ Weight \in [Sources -> 0..100] /\ StopDistance \in [Symbols -> Nat]
  /\ Limits \in [trades : Nat, symbol : Nat, source : Nat, account : Nat]
  /\ Capital \in [base : Nat, policy : Nat, minUnits : Nat \ {0}, maxUnits : Nat,
                  maxValue : Nat]
  /\ Capital.minUnits <= Capital.maxUnits
  /\ MinChannelScore \in 0..100 /\ Multipliers \subseteq Nat /\ MaxSignals \in Nat /\ MaxExpired \in Nat

VARIABLES
  pool,       \* the candidates, in the order DecisionEngine made them
  expired,    \* how many of them, the oldest, are past max_signal_age_seconds
  pc,         \* where each decision is
  job,        \* the candidate in hand
  positions   \* the open positions, with the candidate that led to each

vars == <<pool, expired, pc, job, positions>>

Actions == {"buy", "sell"}
Statuses == {"APPROVED_FOR_RISK", "PAPER_ONLY", "OBSERVE_ONLY", "REJECTED"}
Candidate == [source : Sources, symbol : Symbols, action : Actions, status : Statuses]

NoJob == [c |-> 0, status |-> "REJECTED", units |-> 0]
-----------------------------------------------------------------------------
(***************************************************************************)
(* DecisionEngine.                                                         *)
(***************************************************************************)
StatusFromChannel(grade) ==
  CASE grade = "REJECTED"            -> "REJECTED"
    [] grade = "PAPER"               -> "PAPER_ONLY"
    [] grade \in {"PROMOTING", "LIVE", "NONE"} -> "APPROVED_FOR_RISK"
    [] OTHER                         -> "OBSERVE_ONLY"

\* MLModel._score_features.  The reward is in tenths of the risk, 0 when the entry, the
\* stop or the target is missing.
SignalQuality(f) ==
  LET Worth(present, points) == IF present THEN points ELSE 0
  IN  Worth(f.symbol, 10) + Worth(f.action, 10) + Worth(f.entry, 10) + Worth(f.stop, 20)
      + Worth(f.valid, 5) + Min({15, 5 * f.targets}) + Min({20, f.reward})
      + Min({10, f.source \div 10})

\* What the advisors say of a signal, if they are asked: an ensemble or a fusion that
\* disagrees adds as little as one that is not there.
Advice ==
  [ensemble : Consensus \cup {0}, fusion : {0, 100},
   ml : {SignalQuality(f) : f \in Features} \cup {0}]

DecisionScore(grade, channelScore, advice) ==
  LET channel == IF grade = "NONE" THEN 0 ELSE Config.channel * channelScore
      advised == Config.ensemble * advice.ensemble + Config.fusion * advice.fusion
                 + Config.ml * advice.ml
  IN  Min({100, Config.base + (channel + advised) \div 100})

Tradable == {"APPROVED_FOR_RISK", "PAPER_ONLY"}

\* _outcome_status and _candidate_for_outcome: the status the candidate leaves with.
Decided(status, score) ==
  IF status = "REJECTED" THEN "REJECTED"
  ELSE IF score >= Config.approve /\ status \in Tradable THEN status
  ELSE IF score <= Config.reject THEN "REJECTED"
  ELSE "OBSERVE_ONLY"

\* Mutant: a candidate that is not valid gets the outcome for a status.
CandidateStatusOutcome(valid, grade, channelScore, advice) ==
  IF valid THEN Decided(StatusFromChannel(grade), DecisionScore(grade, channelScore, advice))
  ELSE "HOLD"

CandidateStatus(valid, grade, channelScore, advice) ==
  IF valid THEN Decided(StatusFromChannel(grade), DecisionScore(grade, channelScore, advice))
  ELSE "OBSERVE_ONLY"

\* The statuses a signal may be given.
Outcomes ==
  {CandidateStatus(valid, grade, score, advice) :
     valid \in BOOLEAN, grade \in Grades, score \in ChannelScores, advice \in Advice}
-----------------------------------------------------------------------------
(***************************************************************************)
(* EnsembleDecisionEngine.  A list holds places of the pool.               *)
(***************************************************************************)
Eligible(c) == pool[c].status \in Tradable
Stale(c) == c <= expired

\* _votes: the first candidate of a source that is eligible and not stale.
Votes(list) ==
  LET May(i) == Eligible(list[i]) /\ ~ Stale(list[i])
  IN  {list[i] : i \in {i \in DOMAIN list :
         May(i) /\ \A j \in 1..(i - 1) :
           May(j) => pool[list[j]].source # pool[list[i]].source}}

\* grouped: the weight behind every opinion.
Says(c) == <<pool[c].symbol, pool[c].action>>
Tally(votes) ==
  [o \in Symbols \X Actions |->
     MapThenSumSet(LAMBDA c : Weight[pool[c].source], {c \in votes : Says(c) = o})]

\* conflict_threshold 0.4, of the weight behind the symbol.
Conflict(tally) ==
  \E s \in Symbols :
    LET total == tally[s, "buy"] + tally[s, "sell"]
    IN  total > 0 /\ \A a \in Actions : 10 * tally[s, a] >= 4 * total

\* Mutant: there is no threshold.
CarriesAny(tally, o) == tally[o] > 0

\* consensus_threshold 0.6, of the whole weight.
Carries(tally, o) == tally[o] > 0 /\ 10 * tally[o] >= 6 * SumFunction(tally)

Position(list, c) == Min({i \in DOMAIN list : list[i] = c})

\* max() takes the first group of the largest weight, in the order of the votes.
Leader(list, votes, tally) ==
  LET best == {c \in votes : \A d \in votes : tally[Says(d)] <= tally[Says(c)]}
  IN  CHOOSE c \in best : \A d \in best : Position(list, c) <= Position(list, d)

\* Mutant: the candidate is taken from the list as it came.
MatchesAny(c, opinion) == Says(c) = opinion

\* _representative asks whether a candidate is eligible, not whether it voted.
Matches(c, opinion) == Says(c) = opinion /\ Eligible(c)

Representative(list, opinion) ==
  list[Min({i \in DOMAIN list : Matches(list[i], opinion)})]

\* The candidate the ensemble approves, 0 for none.
Approved(list) ==
  LET votes == Votes(list)
      tally == Tally(votes)
      opinion == Says(Leader(list, votes, tally))
  IN  IF votes = {} \/ Conflict(tally) THEN 0
      ELSE IF Carries(tally, opinion) THEN Representative(list, opinion)
      ELSE 0
-----------------------------------------------------------------------------
(***************************************************************************)
(* StrategyFusionEngine, with a strategy signal for each candidate.        *)
(***************************************************************************)
\* _valid: neither the age nor another signal of the same source matters.
Strategies(list) == {c \in Range(list) : Eligible(c) /\ Weight[pool[c].source] > 0}

\* Mutant: a tie is good enough.
OutweighsTie(tally, o) ==
  tally[o] >= MinimumWeight /\ 2 * tally[o] >= SumFunction(tally)

\* Mutant: the strategies have to be unanimous.
OutweighsAll(tally, o) ==
  tally[o] >= MinimumWeight /\ tally[o] = SumFunction(tally)

\* More weight than all other opinions together.
Outweighs(tally, o) ==
  tally[o] >= MinimumWeight /\ 2 * tally[o] > SumFunction(tally)

\* The candidate the fusion approves, 0 for none.
Fused(list) ==
  LET valid == Strategies(list)
      tally == Tally(valid)
      opinion == Says(Leader(list, valid, tally))
      behind == {i \in DOMAIN list : list[i] \in valid /\ Says(list[i]) = opinion}
  IN  IF valid = {} THEN 0
      ELSE IF Outweighs(tally, opinion) THEN list[Min(behind)] ELSE 0
-----------------------------------------------------------------------------
(***************************************************************************)
(* RiskEngine and CapitalAllocator.                                        *)
(***************************************************************************)
Exposure(held) == MapThenSumSet(LAMBDA p : p.risk, held)
OfSymbol(s) == {p \in positions : pool[p.c].symbol = s}
OfSource(s) == {p \in positions : pool[p.c].source = s}

\* Mutant: a limit may be reached before the next trade.
WithinLimitsReached(c) ==
  /\ Cardinality(positions) < Limits.trades
  /\ Exposure(OfSymbol(pool[c].symbol)) <= Limits.symbol
  /\ Exposure(OfSource(pool[c].source)) <= Limits.source
  /\ Exposure(positions) <= Limits.account

\* _check.  The risk of the candidate itself is not part of it.  One account and
\* one broker, so that limit and the ones on currencies, groups and strategies,
\* which are of the same form, are the account's.
WithinLimits(c) ==
  /\ Cardinality(positions) < Limits.trades
  /\ Exposure(OfSymbol(pool[c].symbol)) < Limits.symbol
  /\ Exposure(OfSource(pool[c].source)) < Limits.source
  /\ Exposure(positions) < Limits.account

\* The default channel_weight_rules, in quarters.
ChannelMultiplier(channelScore) ==
  IF channelScore < MinChannelScore THEN 0
  ELSE IF channelScore >= 90 THEN 4
  ELSE IF channelScore >= 80 THEN 3
  ELSE IF channelScore >= 70 THEN 2 ELSE 1

\* The policy's max_risk_percent bounds the amount before it is multiplied.
RiskAmount(m) == (Min({Capital.base, Capital.policy}) * m) \div 16

\* Mutant: the units are rounded up.
UnitsRoundedUp(m, stop) == Min({(RiskAmount(m) + stop - 1) \div stop, Capital.maxValue})

\* calculated_units: 0 stands for an allocation that is refused.
Units(m, stop) ==
  IF stop = 0 THEN 0 ELSE Min({RiskAmount(m) \div stop, Capital.maxValue})

Clamped(units) == Max({Capital.minUnits, Min({units, Capital.maxUnits})})
-----------------------------------------------------------------------------
Init ==
  /\ pool = <<>> /\ expired = 0
  /\ pc = [f \in Flows |-> "idle"]
  /\ job = [f \in Flows |-> NoJob]
  /\ positions = {}

Goto(f, step) == pc' = [pc EXCEPT ![f] = step]

\* Pipeline.run: parsing, DecisionEngine.evaluate, the two ledger events.
Decide ==
  /\ Len(pool) < MaxSignals
  /\ \E s \in Sources, o \in Opinions, status \in Outcomes :
       pool' = Append(pool, [source |-> s, symbol |-> o[1], action |-> o[2],
                             status |-> status])
  /\ UNCHANGED <<expired, pc, job, positions>>

\* The oldest candidate that is not stale yet becomes so.
Age ==
  /\ expired < Len(pool) /\ expired < MaxExpired
  /\ expired' = expired + 1
  /\ UNCHANGED <<pool, pc, job, positions>>

\* All the candidates at hand, or the newest alone.
Newest == {Len(pool)} \ {0}
Lists == {[i \in DOMAIN pool |-> i]} \cup {<<c>> : c \in Newest}

Ensemble(f) ==
  /\ pc[f] = "idle"
  /\ \E list \in Lists :
       LET c == Approved(list)
       IN  /\ c # 0
           /\ job' = [job EXCEPT ![f] =
                [c |-> c, status |-> "APPROVED_FOR_RISK", units |-> 0]]
  /\ Goto(f, "risk")
  /\ UNCHANGED <<pool, expired, positions>>

\* StrategyFusionEngine.fuse: the candidate keeps its own status.
Fuse(f) ==
  /\ pc[f] = "idle"
  /\ \E list \in Lists :
       LET c == Fused(list)
       IN  /\ c # 0
           /\ job' = [job EXCEPT ![f] = [c |-> c, status |-> pool[c].status, units |-> 0]]
  /\ Goto(f, "risk")
  /\ UNCHANGED <<pool, expired, positions>>

\* The newest candidate is taken to the risk engine without an ensemble.
Direct(f) ==
  /\ pc[f] = "idle"
  /\ \E c \in Newest :
       job' = [job EXCEPT ![f] =
         [c |-> c, status |-> pool[c].status, units |-> 0]]
  /\ Goto(f, "risk")
  /\ UNCHANGED <<pool, expired, positions>>

Leave(f) ==
  /\ Goto(f, "idle")
  /\ job' = [job EXCEPT ![f] = NoJob]
  /\ UNCHANGED <<pool, expired>>

\* RiskEngine.evaluate with the portfolio of this moment.
AssessRisk(f) ==
  /\ pc[f] = "risk"
  /\ job[f].status = "APPROVED_FOR_RISK"
  /\ WithinLimits(job[f].c)
  /\ Goto(f, "allocate")
  /\ UNCHANGED <<pool, expired, job, positions>>

\* Also when the day's, the week's or the drawdown limit is reached.
RefuseRisk(f) ==
  /\ pc[f] = "risk"
  /\ Leave(f)
  /\ UNCHANGED positions

Stop(f) == StopDistance[pool[job[f].c].symbol]

\* CapitalAllocator.allocate and ExecutionRequestFactory.create.
Allocate(f) ==
  /\ pc[f] = "allocate"
  /\ \E m \in Multipliers, score \in ChannelScores :
       LET units == Units(m * ChannelMultiplier(score), Stop(f))
       IN  /\ units > 0
           /\ job' = [job EXCEPT ![f].units = Clamped(units)]
  /\ Goto(f, "execute")
  /\ UNCHANGED <<pool, expired, positions>>

\* An allocation that is refused raises, and so does a ledger that cannot be
\* written; or the process dies.
Abandon(f) ==
  /\ pc[f] \in {"allocate", "execute"}
  /\ Leave(f)
  /\ UNCHANGED positions

\* The executor opens a trade for a signal once in a duplicate window
\* (OrderAuthority); here the window lasts as long as the position.
Execute(f) ==
  /\ pc[f] = "execute"
  /\ \A p \in positions : p.c # job[f].c
  /\ positions' = positions \cup
       {[c |-> job[f].c, risk |-> job[f].units * Stop(f)]}
  /\ Leave(f)

Close ==
  /\ \E p \in positions : positions' = positions \ {p}
  /\ UNCHANGED <<pool, expired, pc, job>>

Next ==
  \/ Decide \/ Age \/ Close
  \/ \E f \in Flows :
       \/ Ensemble(f) \/ Fuse(f) \/ Direct(f) \/ AssessRisk(f) \/ RefuseRisk(f)
       \/ Allocate(f) \/ Abandon(f) \/ Execute(f)

Spec == Init /\ [][Next]_vars
-----------------------------------------------------------------------------
(***************************************************************************)
(* Properties.                                                             *)
(***************************************************************************)
Jobs == [c : 0..MaxSignals, status : Statuses, units : Nat]

TypeOK ==
  /\ pool \in Seq(Candidate) /\ expired \in 0..Len(pool)
  /\ pc \in [Flows -> {"idle", "risk", "allocate", "execute"}]
  /\ job \in [Flows -> Jobs]
  /\ positions \subseteq [c : DOMAIN pool, risk : Nat \ {0}]

\* A signal held back or rejected when it was decided upon leads to no position,
\* whatever other candidates the ensemble saw it with.
OnlyTradableTraded == \A p \in positions : Eligible(p.c)

\* A position risks no more than the policy allows one trade, if no multiplier
\* exceeds one and a single unit may be traded.
RiskWithinBudget == \A p \in positions : p.risk <= Capital.policy

\* The limits do not count the candidate itself, nor the other decisions in
\* flight: a limit is overrun by at most one trade of each.
Bounded(exposure, limit) == exposure < limit + Cardinality(Flows) * Capital.policy

ExposureBounded ==
  /\ Cardinality(positions) < Limits.trades + Cardinality(Flows)
  /\ Bounded(Exposure(positions), Limits.account)
  /\ \A s \in Symbols : Bounded(Exposure(OfSymbol(s)), Limits.symbol)
  /\ \A s \in Sources : Bounded(Exposure(OfSource(s)), Limits.source)

OneOpinionEach ==
  \A c, d \in DOMAIN pool :
    Eligible(c) /\ Eligible(d) /\ ~ Stale(c) /\ ~ Stale(d) /\ pool[c].source = pool[d].source
      => pool[c].symbol = pool[d].symbol /\ pool[c].action = pool[d].action

Quiet == positions = {} /\ \A f \in Flows : pc[f] = "idle"
Orders == {f \in [DOMAIN pool -> DOMAIN pool] : IsInjective(f)}

Opinion(c) == IF c = 0 THEN <<>> ELSE Says(c)

\* With one opinion of each source, what the ensemble approves does not depend
\* on the order in which its caller lists the candidates.  (This is about the pool
\* alone: it is enough to look before any decision is taken further.)
OrderFree ==
  Quiet /\ OneOpinionEach =>
    Cardinality({Opinion(Approved(list)) : list \in Orders}) = 1

\* The opinion the fusion approves does not depend on the order of the strategies, even
\* if a source has several of them.
FusionOrderFree ==
  Quiet => Cardinality({Opinion(Fused(list)) : list \in Orders}) = 1

\* Every source speaks at most once, is not stale and has some weight.
Orderly ==
  /\ expired = 0
  /\ \A c, d \in DOMAIN pool :
       Eligible(c) /\ Eligible(d) /\ pool[c].source = pool[d].source => c = d
  /\ \A s \in Sources : Weight[s] >= MinimumWeight

\* Two engines for one question: when every source speaks at most once and nothing is
\* stale, the fusion approves what the ensemble approves, the very same candidate.
FusionFollowsEnsemble ==
  Quiet /\ Orderly =>
    \A list \in Orders : Approved(list) # 0 => Fused(list) = Approved(list)

\* tests/unit/decision/test_ensemble.py:92, "stale_signal_ignored": no stale
\* candidate leaves the ensemble approved.
StaleIgnored == \A list \in Lists : Approved(list) # 0 => ~ Stale(Approved(list))
-----------------------------------------------------------------------------
(***************************************************************************)
(* The inductive invariants behind the first four properties (proved in    *)
(* DecisionFlowProofs).                                                    *)
(***************************************************************************)
Approvals == {"allocate", "execute"}
InFlight == {f \in Flows : pc[f] \in Approvals}

\* The candidate in hand is one of the pool, and one that may be traded if it is
\* handed on as approved.
JobsInv ==
  /\ Len(pool) <= MaxSignals
  /\ \A f \in Flows :
       /\ pc[f] # "idle" => job[f].c \in DOMAIN pool
       /\ pc[f] # "idle" /\ job[f].status = "APPROVED_FOR_RISK" => Eligible(job[f].c)
       /\ pc[f] \in Approvals => job[f].status = "APPROVED_FOR_RISK"
       /\ pc[f] = "execute" => job[f].units > 0 /\ Stop(f) > 0

\* No multiplier exceeds one, a single unit may be traded.
PlainSizing ==
  /\ \A m \in Multipliers : m <= 4
  /\ Capital.minUnits = 1

\* The risk of a sized order is within the policy before it becomes a position.
BudgetInv ==
  /\ \A f \in Flows : pc[f] = "execute" => job[f].units * Stop(f) <= Capital.policy
  /\ RiskWithinBudget

\* Room is kept for what the decisions in flight may still add.
Reserved(held, decisions, limit) ==
  Exposure(held) + Cardinality(decisions) * Capital.policy
    < limit + Cardinality(Flows) * Capital.policy

FlightOfSymbol(s) == {f \in InFlight : pool[job[f].c].symbol = s}
FlightOfSource(s) == {f \in InFlight : pool[job[f].c].source = s}

ExposureInv ==
  /\ IsFiniteSet(positions)
  /\ Cardinality(positions) + Cardinality(InFlight) < Limits.trades + Cardinality(Flows)
  /\ Reserved(positions, InFlight, Limits.account)
  /\ \A s \in Symbols : Reserved(OfSymbol(s), FlightOfSymbol(s), Limits.symbol)
  /\ \A s \in Sources : Reserved(OfSource(s), FlightOfSource(s), Limits.source)
=============================================================================
