---------------------------- MODULE SignalReplay ----------------------------
(***************************************************************************)
(* SignalHistoryBacktester: the signals of a source are replayed over the  *)
(* candles of a window after each of them (OandaCandleLoader,              *)
(* SignalBacktester), and ChannelScorecard adds up the results.            *)
(*                                                                         *)
(* A candle is what is left of the prices between two points of time: the  *)
(* first, the highest, the lowest and the last.  The market here moves     *)
(* tick by tick, so that what the replay makes of the candles can be       *)
(* compared with what a trader would have seen.                            *)
(*                                                                         *)
(* Time is counted in ticks, results in units of 1/Unit R.                 *)
(***************************************************************************)
EXTENDS Integers, Sequences, FiniteSets, FiniteSetsExt, Functions

CONSTANTS
  Plans,      \* parsed signals: action, entry (NoPrice without one), stop, target
  Start,      \* the first price
  Moves,      \* by how much a price may differ from the one before
  Span,       \* ticks of a candle (granularity)
  Window,     \* hours_after, in ticks
  Unit,       \* 1 R; results are rounded down to whole units
  PostUntil,  \* bound: ticks before the last signal is posted
  MaxPosts,   \* bound: signals
  MaxTicks    \* bound: ticks

NoPrice == 0

ASSUME ReplayAssumption ==
  /\ Plans \subseteq [action : {"buy", "sell"}, entry : Nat, stop : Nat, target : Nat]
  /\ Start \in Nat /\ Moves \subseteq Int
  /\ Span \in Nat \ {0} /\ Window \in Nat /\ Unit \in Nat \ {0}
  /\ PostUntil \in Nat /\ MaxPosts \in Nat /\ MaxTicks \in Nat

VARIABLES
  ticks,    \* the prices so far
  candles,  \* the candles OANDA makes of them, the last one perhaps forming
  posts     \* the valid signals of the source, each with the time it was posted_at

replayVars == <<ticks, candles, posts>>
-----------------------------------------------------------------------------
(***************************************************************************)
(* OandaCandleLoader.                                                      *)
(***************************************************************************)
\* Mutant: the candle that is still forming is taken, too.
UsableForming(s, c) == s.at <= c.time /\ c.time < s.at + Window

\* A complete candle of the window; backtest_signal looks at the time once more.
Usable(s, c) == c.complete /\ s.at <= c.time /\ c.time < s.at + Window

\* fetch_candles_for_signal_window: the places of the candles it returns.
Loaded(s) == {k \in DOMAIN candles : Usable(s, candles[k])}
-----------------------------------------------------------------------------
(***************************************************************************)
(* SignalBacktester.                                                       *)
(***************************************************************************)
Magnitude(n) == IF n < 0 THEN -n ELSE n
Sign(s) == IF s.action = "buy" THEN 1 ELSE -1

EntryPrice(s, test) == IF s.entry = NoPrice THEN candles[Min(test)].open ELSE s.entry

EntryHit(entry, c) == c.low <= entry /\ entry <= c.high

\* The levels as _check_outcome compares them, for candles and for single prices.
StopHit(s, c) == IF s.action = "buy" THEN c.low <= s.stop ELSE c.high >= s.stop
TargetHit(s, c) == IF s.action = "buy" THEN c.high >= s.target ELSE c.low <= s.target

\* Mutant: a candle with both levels counts as a win.
CheckOutcomeHopeful(s, c) ==
  IF TargetHit(s, c) THEN "WIN" ELSE IF StopHit(s, c) THEN "LOSS" ELSE "NONE"

CheckOutcome(s, c) ==
  IF StopHit(s, c) THEN "LOSS" ELSE IF TargetHit(s, c) THEN "WIN" ELSE "NONE"

\* The loop over the candles: whether the trade was entered and how it ended.
Loop(s, entry, test) ==
  LET run[k \in 0..Len(candles)] ==
        IF k = 0 THEN [entered |-> s.entry = NoPrice, outcome |-> "NONE"]
        ELSE LET before == run[k - 1]
                 in == before.entered \/ EntryHit(entry, candles[k])
             IN  IF k \notin test \/ before.outcome # "NONE" THEN before
                 ELSE [entered |-> in,
                       outcome |-> IF in THEN CheckOutcome(s, candles[k]) ELSE "NONE"]
  IN  run[Len(candles)]

InR(move, risk) == (Unit * move) \div risk

\* realized_r of a win is a distance: it is never negative.
Realized(status, s, entry, close) ==
  LET risk == Magnitude(entry - s.stop)
  IN  CASE status = "WIN"  -> InR(Magnitude(s.target - entry), risk)
        [] status = "LOSS" -> -Unit
        [] status = "OPEN" -> InR(Sign(s) * (close - entry), risk)
        [] OTHER           -> 0

StatusOf(end) ==
  IF end.outcome # "NONE" THEN end.outcome
  ELSE IF end.entered THEN "OPEN" ELSE "NOT_TRIGGERED"

BacktestSignal(s) ==
  LET test == Loaded(s)
      entry == EntryPrice(s, test)
      status == StatusOf(Loop(s, entry, test))
  IN  IF test = {} THEN [status |-> "NO_MARKET_DATA", r |-> 0]
      ELSE IF entry = s.stop THEN [status |-> "INVALID_RISK", r |-> 0]
      ELSE [status |-> status, r |-> Realized(status, s, entry, candles[Max(test)].close)]
-----------------------------------------------------------------------------
(***************************************************************************)
(* ChannelScorecard, over the results of several signals.                  *)
(***************************************************************************)
Decided == {"WIN", "LOSS"}

\* Mutant: what is still open is counted as if it were closed.
ClosedOpenToo(results) == {i \in DOMAIN results : results[i].status \in Decided \cup {"OPEN"}}

\* The runners hand WIN and LOSS to the scorecard as CLOSED.
Closed(results) == {i \in DOMAIN results : results[i].status \in Decided}

Score(results) ==
  [wins |-> Cardinality({i \in Closed(results) : results[i].r > 0}),
   losses |-> Cardinality({i \in Closed(results) : results[i].r < 0}),
   net |-> SumFunction([i \in Closed(results) |-> results[i].r])]
-----------------------------------------------------------------------------
ReplayInit == ticks = <<>> /\ candles = <<>> /\ posts = <<>>

Opened(price) ==
  [time |-> Len(ticks), open |-> price, high |-> price, low |-> price, close |-> price,
   complete |-> Span = 1]

Extended(c, price) ==
  [c EXCEPT !.high = Max({@, price}), !.low = Min({@, price}), !.close = price,
            !.complete = Len(ticks) + 1 = c.time + Span]

\* The market and OANDA's candles (external).
Tick ==
  /\ Len(ticks) < MaxTicks
  /\ \E price \in IF ticks = <<>> THEN {Start} ELSE {ticks[Len(ticks)] + m : m \in Moves} :
       /\ price > NoPrice
       /\ ticks' = Append(ticks, price)
       /\ candles' = IF candles = <<>> \/ candles[Len(candles)].complete
                     THEN Append(candles, Opened(price))
                     ELSE [candles EXCEPT ![Len(candles)] = Extended(@, price)]
  /\ UNCHANGED posts

\* A message that SignalParser finds VALID_SIGNAL is stored, with its time.
Post ==
  /\ Len(posts) < MaxPosts /\ Len(ticks) <= PostUntil
  /\ \E plan \in Plans :
       posts' = Append(posts, [action |-> plan.action, entry |-> plan.entry,
         stop |-> plan.stop, target |-> plan.target, at |-> Len(ticks)])
  /\ UNCHANGED <<ticks, candles>>

ReplayNext == Tick \/ Post
ReplaySpec == ReplayInit /\ [][ReplayNext]_replayVars
-----------------------------------------------------------------------------
(***************************************************************************)
(* What really happened.                                                   *)
(***************************************************************************)
Quote(i) == [low |-> ticks[i], high |-> ticks[i]]

\* The ticks of a candle, and those of the loaded candles, in their order.
TicksOf(c) == (c.time + 1)..(c.time + Span)
Seen(test) == DOMAIN ticks \cap UNION {TicksOf(candles[k]) : k \in test}

\* The price is at the entry, or has just jumped over it.
Reaches(s, seen, i) ==
  \/ ticks[i] = s.entry
  \/ i - 1 \in seen /\ (ticks[i - 1] < s.entry) # (ticks[i] < s.entry)

\* The tick of the entry, and that of the exit; Never if there is none.
Never == MaxTicks + 1
Earliest(S) == Min(S \cup {Never})

EntryTick(s, seen) ==
  IF s.entry = NoPrice THEN Earliest(seen)
  ELSE Earliest({i \in seen : Reaches(s, seen, i)})

ExitTick(s, seen) ==
  LET from == EntryTick(s, seen)
  IN  Earliest({i \in seen : i >= from /\ CheckOutcome(s, Quote(i)) # "NONE"})

RealStatus(s) ==
  LET seen == Seen(Loaded(s))
      exit == ExitTick(s, seen)
  IN  IF seen = {} THEN "NO_MARKET_DATA"
      ELSE IF EntryTick(s, seen) = Never THEN "NOT_TRIGGERED"
      ELSE IF exit = Never THEN "OPEN" ELSE CheckOutcome(s, Quote(exit))

\* Candles do not say in which order two levels of one candle were reached, nor that
\* a price was jumped over between two of them.
EntryUnclear(s, test) ==
  \E k \in test :
    /\ s.entry # NoPrice /\ EntryTick(s, Seen(test)) \in TicksOf(candles[k])
    /\ ~ EntryHit(s.entry, candles[k]) \/ CheckOutcome(s, candles[k]) # "NONE"

ExitUnclear(s, test) ==
  \E k \in test :
    /\ ExitTick(s, Seen(test)) \in TicksOf(candles[k])
    /\ StopHit(s, candles[k]) /\ TargetHit(s, candles[k])

Clear(s) ==
  LET test == Loaded(s)
  IN  ~ EntryUnclear(s, test) /\ (test # {} => EntryPrice(s, test) # s.stop)

(***************************************************************************)
(* Properties.                                                             *)
(***************************************************************************)
Price == Nat \ {NoPrice}

ReplayTypeOK ==
  /\ ticks \in Seq(Price)
  /\ candles \in Seq([time : Nat, open : Price, high : Price, low : Price, close : Price,
                      complete : BOOLEAN])
  /\ posts \in Seq([action : {"buy", "sell"}, entry : Nat, stop : Nat, target : Nat,
                    at : Nat])

\* The replay of the candles finds what happened tick by tick, if the candle of the
\* entry leaves no doubt.  Only when the candle of the exit has both levels may it say
\* that a trade was lost that was won, and it never says the opposite.
ReplayAgrees ==
  \A n \in DOMAIN posts :
    LET s == posts[n]
        status == BacktestSignal(s).status
    IN  Clear(s) => \/ status = RealStatus(s)
                    \/ /\ status = "LOSS" /\ RealStatus(s) = "WIN"
                       /\ ExitUnclear(s, Loaded(s))

\* A win or a loss stays what it is when the market has moved on and the replay is
\* run again.
VerdictFinal ==
  [][\A n \in DOMAIN posts :
       BacktestSignal(posts[n]).status \in Decided =>
         BacktestSignal(posts[n])' = BacktestSignal(posts[n])]_replayVars

\* What a trader who closes at the levels makes of a signal.
Earned(s) ==
  LET entry == EntryPrice(s, Loaded(s))
      status == RealStatus(s)
  IN  [status |-> status,
       r |-> CASE status = "WIN" -> InR(Sign(s) * (s.target - entry), Magnitude(entry - s.stop))
               [] status = "LOSS" -> -Unit
               [] OTHER -> 0]

\* The stop and the target are each on their side of the entry.
Sided(s) ==
  LET entry == EntryPrice(s, Loaded(s))
  IN  Sign(s) * (entry - s.stop) > 0 /\ Sign(s) * (s.target - entry) > 0

\* The score of a source is never better than what its signals earned, for signals
\* that are clear and have their levels where they belong.
ScoreNeverFlatters ==
  LET judged == {n \in DOMAIN posts :
                   Clear(posts[n]) /\ Loaded(posts[n]) # {} /\ Sided(posts[n])}
      claimed == Score([n \in judged |-> BacktestSignal(posts[n])])
      earned == Score([n \in judged |-> Earned(posts[n])])
  IN  /\ claimed.wins <= earned.wins /\ claimed.net <= earned.net
      /\ claimed.losses >= earned.losses
-----------------------------------------------------------------------------
(***************************************************************************)
(* What holds all the time, for the proof of the three.                    *)
(***************************************************************************)

\* The candles follow each other, and all but the last are complete.
CandlesInOrder ==
  /\ candles = <<>> <=> ticks = <<>>
  /\ \A k \in DOMAIN candles :
       LET c == candles[k]
       IN  /\ c.time < Len(ticks)
           /\ c.complete <=> c.time + Span <= Len(ticks)
           /\ IF k = Len(candles) THEN Len(ticks) <= c.time + Span ELSE c.complete
  /\ \A j, k \in DOMAIN candles : j < k => candles[j].time + Span <= candles[k].time

\* A candle has the least and the greatest of its ticks.
CandlesTrue ==
  \A k \in DOMAIN candles :
    LET c == candles[k]
        here == TicksOf(c) \cap DOMAIN ticks
    IN  /\ \A i \in here : c.low <= ticks[i] /\ ticks[i] <= c.high
        /\ \E i \in here : ticks[i] = c.low
        /\ \E i \in here : ticks[i] = c.high

ReplayInv == ReplayTypeOK /\ Len(ticks) <= MaxTicks /\ CandlesInOrder /\ CandlesTrue
=============================================================================
