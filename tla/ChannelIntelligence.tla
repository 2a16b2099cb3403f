------------------------- MODULE ChannelIntelligence -------------------------
(***************************************************************************)
(* ChannelIntelligence: what the platform thinks of a signal source.       *)
(*                                                                         *)
(* A profile holds the rolling statistics of a source's trades, the score  *)
(* computed from them, the grade that follows and an operator's override.  *)
(* Every call reads the profile, computes a new one and saves it whole;    *)
(* saving reads data/channel_profiles.json again and replaces it; the      *)
(* ledger is told afterwards.  A call may be cut off by a crash or by a    *)
(* ledger that raises.                                                     *)
(*                                                                         *)
(* Results are in multiples of R (integers here), the score in hundredths  *)
(* of a point.                                                             *)
(***************************************************************************)
EXTENDS Integers, FiniteSetsExt

CONSTANTS
  Procs,         \* processes that call ChannelIntelligence
  Sources,
  Results,       \* realized_r of the closed trades
  Thresholds,    \* PromotionThresholds, whole numbers
  Faults,        \* the faults that may happen, see FaultKinds
  MaxCalls       \* bound: calls that change a profile

\* crash: a process dies; disk: EventLedger.append raises.
FaultKinds == {"crash", "disk"}

\* The scorer divides by minSignals and maxDrawdown.
ASSUME ConstantsAssumption ==
  /\ Sources # {} /\ Results \subseteq Int
  /\ Faults \subseteq FaultKinds
  /\ MaxCalls \in Nat
  /\ Thresholds \in [minSignals : Nat \ {0}, minRR : Nat, maxDrawdown : Nat \ {0},
                     maxStreak : Nat, pauseStreak : Nat, rejectStreak : Nat]

T == Thresholds

VARIABLES
  profiles,   \* data/channel_profiles.json, by source
  told,       \* the grade in the newest ledger event of each source
  pc,         \* where each process is
  call,       \* the call in hand
  seen,       \* the profile the call has read or made
  view,       \* the copy of the file between its read and its replacement
  begun,      \* how many results were handed to record_trade_result
  returned,   \* how many of these calls returned
  calls       \* how many calls have begun

history == <<begun, returned, calls>>
vars == <<profiles, told, pc, call, seen, view, history>>

Overrides == {"NONE", "FORCE_OBSERVE", "FORCE_PAPER", "FORCE_LIVE", "FORCE_REJECT"}
Grades == {"UNKNOWN", "OBSERVE", "PAPER", "PROMOTING", "LIVE", "PAUSED", "REJECTED"}

\* paper_enabled: the grades whose signals may be traded at all.
Enabled == {"PAPER", "PROMOTING", "LIVE"}

Stats == [closed : Nat, wins : Nat, streak : Nat, grossWin : Nat, grossLoss : Nat,
          peak : Nat, drawdown : Nat]
Scores == 0..10000
Profile == [stats : Stats, score : Scores, grade : Grades, override : Overrides]

NewProfile ==
  [stats |-> [closed |-> 0, wins |-> 0, streak |-> 0, grossWin |-> 0, grossLoss |-> 0,
              peak |-> 0, drawdown |-> 0],
   score |-> 0, grade |-> "UNKNOWN", override |-> "NONE"]

Calls ==
  [source : Sources, kind : {"look", "signal"}]
    \cup [source : Sources, kind : {"result"}, r : Results]
    \cup [source : Sources, kind : {"override"}, to : Overrides]

NoView == [held |-> FALSE, file |-> <<>>]
-----------------------------------------------------------------------------
(***************************************************************************)
(* The pure part: statistics, score, grade.                                *)
(***************************************************************************)
\* Mutant: a score below zero is let through.
ClampAbove(x, top) == Min({x, top})

\* _clamp and the bounds of the stability and the consistency score.
Clamp(x, top) == Max({0, Min({x, top})})

\* total_rr and cumulative_rr, which are the same sum.
Total(s) == s.grossWin - s.grossLoss

\* Mutant: a trade that breaks even is not counted as closed.
WithResultOnlyDecided(s, r) ==
  LET total == Total(s) + r
      peak == Max({s.peak, total})
  IN  [closed |-> s.closed + (IF r = 0 THEN 0 ELSE 1),
       wins |-> s.wins + (IF r > 0 THEN 1 ELSE 0),
       streak |-> IF r < 0 THEN s.streak + 1 ELSE 0,
       grossWin |-> s.grossWin + Max({r, 0}), grossLoss |-> s.grossLoss + Max({-r, 0}),
       peak |-> peak, drawdown |-> Max({s.drawdown, peak - total})]

\* drawdown is max_drawdown; it never shrinks.
WithResult(s, r) ==
  LET total == Total(s) + r
      peak == Max({s.peak, total})
  IN  [closed |-> s.closed + 1,
       wins |-> s.wins + (IF r > 0 THEN 1 ELSE 0),
       streak |-> IF r < 0 THEN s.streak + 1 ELSE 0,
       grossWin |-> s.grossWin + Max({r, 0}), grossLoss |-> s.grossLoss + Max({-r, 0}),
       peak |-> peak, drawdown |-> Max({s.drawdown, peak - total})]

\* A weighted part of the score: x out of whole, rounded down to a hundredth.
Part(weight, x, whole) == (weight * Clamp(x, whole)) \div whole

\* The default weights.
ScoreWeights == [expectancy |-> 3000, winRate |-> 2000, drawdown |-> 2000, consistency |-> 1500,
                 profitFactor |-> 1000, sampleSize |-> 500]

\* ChannelScorer.score; the code rounds the sum.
Score(s) ==
  LET n == s.closed
      w == ScoreWeights
  IN  IF n = 0 THEN Part(w.expectancy, 1, 2)
                      + Part(w.drawdown, T.maxDrawdown - s.drawdown, T.maxDrawdown)
      ELSE Part(w.expectancy, Total(s) + n, 2 * n) + Part(w.winRate, s.wins, n)
             + Part(w.drawdown, T.maxDrawdown - s.drawdown, T.maxDrawdown)
             + (IF T.maxStreak = 0 THEN 0
                ELSE Part(w.consistency, T.maxStreak - s.streak, T.maxStreak))
             + (IF s.grossLoss = 0 THEN 0
                ELSE Part(w.profitFactor, 5 * s.grossWin, 6 * s.grossLoss))
             + Part(w.sampleSize, n, T.minSignals)

\* minimum_win_rate 0.5, minimum_stability 0.5 and minimum_profit_factor 1.2.
\* average_rr is the expectancy, and no loss at all makes the profit factor 0.
PassesQuality(s) ==
  /\ 2 * s.wins >= s.closed
  /\ 10 * Total(s) >= s.closed /\ Total(s) >= T.minRR * s.closed
  /\ s.streak <= T.maxStreak
  /\ 2 * s.drawdown <= T.maxDrawdown
  /\ s.grossLoss > 0 /\ 5 * s.grossWin >= 6 * s.grossLoss

\* Mutant: without an override the grade stays what it was.
ManualGradeKept(override, grade) ==
  CASE override = "FORCE_OBSERVE" -> "OBSERVE" [] override = "FORCE_PAPER" -> "PAPER"
    [] override = "FORCE_LIVE" -> "LIVE" [] override = "FORCE_REJECT" -> "REJECTED"
    [] override = "NONE" -> grade

\* _manual_decision.
ManualGrade(override, grade) ==
  CASE override = "FORCE_OBSERVE" -> "OBSERVE" [] override = "FORCE_PAPER" -> "PAPER"
    [] override = "FORCE_LIVE" -> "LIVE" [] override = "FORCE_REJECT" -> "REJECTED"
    [] override = "NONE" -> "UNKNOWN"

\* _promotion_decision: the tests in the code's order.
Decision(p) ==
  LET s == p.stats
  IN  CASE p.override # "NONE" -> ManualGrade(p.override, p.grade)
        [] p.override = "NONE" ->
             IF s.streak >= T.rejectStreak THEN "REJECTED"
             ELSE IF s.streak >= T.pauseStreak \/ s.drawdown > T.maxDrawdown THEN "PAUSED"
             ELSE IF s.closed < T.minSignals \/ ~ PassesQuality(s) THEN "OBSERVE"
             ELSE IF p.score >= 8000 THEN "LIVE"
             ELSE IF p.score >= 7000 THEN "PROMOTING"
             ELSE IF p.score >= 5500 THEN "PAPER"
             ELSE "OBSERVE"

\* Mutant: the new profile is made from scratch.
RescoredFresh(p, s) ==
  LET scored == [NewProfile EXCEPT !.stats = s, !.score = Score(s)]
  IN  [scored EXCEPT !.grade = Decision(scored)]

\* Mutant: the grade is decided before the score.
RescoredLate(p, s) ==
  LET graded == [p EXCEPT !.stats = s]
  IN  [graded EXCEPT !.grade = Decision(graded), !.score = Score(s)]

\* _update_profile.
Rescored(p, s) ==
  LET scored == [p EXCEPT !.stats = s, !.score = Score(s)]
  IN  [scored EXCEPT !.grade = Decision(scored)]

Overridden(p, o) == [p EXCEPT !.override = o, !.grade = ManualGrade(o, p.grade)]

Updated(p, c) ==
  CASE c.kind = "signal"   -> Rescored(p, p.stats)
    [] c.kind = "result"   -> Rescored(p, WithResult(p.stats, c.r))
    [] c.kind = "override" -> Overridden(p, c.to)
-----------------------------------------------------------------------------
Goto(p, step) == pc' = [pc EXCEPT ![p] = step]

\* The profiles of a file with one replaced or added.
Put(f, key, value) == [k \in DOMAIN f \cup {key} |-> IF k = key THEN value ELSE f[k]]

Init ==
  /\ profiles = <<>> /\ told = <<>>
  /\ pc = [p \in Procs |-> "idle"]
  /\ call \in [Procs -> {[source |-> s, kind |-> "look"] : s \in {CHOOSE s \in Sources : TRUE}}]
  /\ seen = [p \in Procs |-> NewProfile]
  /\ view = [p \in Procs |-> NoView]
  /\ begun = [s \in Sources |-> 0] /\ returned = [s \in Sources |-> 0]
  /\ calls = 0

Begin(p, c) ==
  /\ pc[p] = "idle" /\ calls < MaxCalls
  /\ calls' = calls + 1
  /\ call' = [call EXCEPT ![p] = c]
  /\ begun' = IF c.kind = "result" THEN [begun EXCEPT ![c.source] = @ + 1] ELSE begun
  /\ Goto(p, "get")
  /\ UNCHANGED <<profiles, told, seen, view, returned>>

\* The call returns, or is cut off and says nothing.
Leave(p, done) ==
  /\ Goto(p, "idle")
  /\ seen' = [seen EXCEPT ![p] = NewProfile]
  /\ view' = [view EXCEPT ![p] = NoView]
  /\ returned' = IF done /\ call[p].kind = "result"
                 THEN [returned EXCEPT ![call[p].source] = @ + 1] ELSE returned
  /\ UNCHANGED <<call, begun, calls>>

Known(p) == call[p].source \in DOMAIN profiles

\* get_or_create_profile; evaluate_source, and the backtest result of a trade
\* that was not closed, do nothing else.
Get(p) ==
  /\ pc[p] = "get" /\ Known(p) /\ call[p].kind # "look"
  /\ seen' = [seen EXCEPT ![p] = profiles[call[p].source]]
  /\ Goto(p, "save")
  /\ UNCHANGED <<profiles, told, call, view, history>>

Look(p) ==
  /\ pc[p] = "get" /\ Known(p) /\ call[p].kind = "look"
  /\ Leave(p, TRUE)
  /\ UNCHANGED <<profiles, told>>

GetNew(p) ==
  /\ pc[p] = "get" /\ ~ Known(p)
  /\ seen' = [seen EXCEPT ![p] = NewProfile]
  /\ Goto(p, "create")
  /\ UNCHANGED <<profiles, told, call, view, history>>

\* ChannelProfileStore.save reads the file again, and replaces it with one in
\* which only this source's profile is another.
ReadProfiles(p) ==
  /\ pc[p] \in {"create", "save"} /\ ~ view[p].held
  /\ view' = [view EXCEPT ![p] = [held |-> TRUE, file |-> profiles]]
  /\ UNCHANGED <<profiles, told, pc, call, seen, history>>

Save(p, profile, next) ==
  /\ view[p].held
  /\ profiles' = Put(view[p].file, call[p].source, profile)
  /\ seen' = [seen EXCEPT ![p] = profile]
  /\ view' = [view EXCEPT ![p] = NoView]
  /\ Goto(p, next)
  /\ UNCHANGED <<told, call, history>>

SaveNew(p) == pc[p] = "create" /\ Save(p, seen[p], "created")

\* Mutant: the ledger is told first.
SaveUpdatedTold(p) ==
  /\ pc[p] = "save" /\ view[p].held
  /\ told' = Put(told, call[p].source, Updated(seen[p], call[p]).grade)
  /\ seen' = [seen EXCEPT ![p] = Updated(seen[p], call[p])]
  /\ view' = [view EXCEPT ![p] = NoView]
  /\ profiles' = Put(view[p].file, call[p].source, Updated(seen[p], call[p]))
  /\ Goto(p, "emit")
  /\ UNCHANGED <<call, history>>

SaveUpdated(p) == pc[p] = "save" /\ Save(p, Updated(seen[p], call[p]), "emit")

Tell(p) == told' = Put(told, call[p].source, seen[p].grade)

\* CHANNEL_CREATED.
EmitCreated(p) ==
  /\ pc[p] = "created"
  /\ Tell(p)
  /\ \/ call[p].kind = "look" /\ Leave(p, TRUE)
     \/ call[p].kind # "look" /\ Goto(p, "save") /\ UNCHANGED <<call, seen, view, history>>
  /\ UNCHANGED profiles

\* The events after the save; they all carry the saved profile.
Emit(p) ==
  /\ pc[p] = "emit"
  /\ Tell(p)
  /\ Leave(p, TRUE)
  /\ UNCHANGED profiles

\* The first append raises, or a later one of the same profile.
EmitRaises(p) ==
  /\ "disk" \in Faults /\ pc[p] \in {"created", "emit"}
  /\ UNCHANGED told \/ (pc[p] = "emit" /\ Tell(p))
  /\ Leave(p, FALSE)
  /\ UNCHANGED profiles

Crash(p) ==
  /\ "crash" \in Faults /\ pc[p] # "idle"
  /\ Leave(p, FALSE)
  /\ UNCHANGED <<profiles, told>>

Run(p) ==
  \/ Get(p) \/ Look(p) \/ GetNew(p) \/ ReadProfiles(p) \/ SaveNew(p) \/ SaveUpdated(p)
  \/ EmitCreated(p) \/ Emit(p) \/ EmitRaises(p)

Next ==
  \/ \E p \in Procs : Run(p) \/ Crash(p)
  \/ \E p \in Procs, c \in Calls : Begin(p, c)

Spec == Init /\ [][Next]_vars
-----------------------------------------------------------------------------
(***************************************************************************)
(* Properties.                                                             *)
(***************************************************************************)
Keyed(f, Values) == DOMAIN f \subseteq Sources /\ \A s \in DOMAIN f : f[s] \in Values

TypeOK ==
  /\ Keyed(profiles, Profile) /\ Keyed(told, Grades)
  /\ pc \in [Procs -> {"idle", "get", "create", "created", "save", "emit"}]
  /\ call \in [Procs -> Calls]
  /\ seen \in [Procs -> Profile]
  /\ DOMAIN view = Procs
  /\ \A p \in Procs : view[p].held \in BOOLEAN /\ Keyed(view[p].file, Profile)
  /\ begun \in [Sources -> Nat] /\ returned \in [Sources -> Nat] /\ calls \in Nat

\* The stored grade is the one the stored statistics and override call for
\* (DecisionEngine uses both).  A source without an override may be UNKNOWN: it is
\* so until its first signal, and from the lifting of an override to the next signal
\* or result; the property does not count them.
GradeCurrent ==
  \A s \in DOMAIN profiles :
    LET p == profiles[s]
    IN  p.grade = Decision(p) \/ (p.override = "NONE" /\ p.grade = "UNKNOWN")

\* A source whose losses called for a pause trades under an operator's override
\* or not at all, whatever overrides were set and lifted since.
SuspendedStaysOut ==
  \A s \in DOMAIN profiles :
    LET p == profiles[s]
    IN  p.override = "NONE"
          /\ (p.stats.streak >= T.pauseStreak \/ p.stats.drawdown > T.maxDrawdown)
        => p.grade \notin Enabled

Counted(s) == IF s \in DOMAIN profiles THEN profiles[s].stats.closed ELSE 0

\* Every result counts once in the statistics: none of a call that returned is
\* missing, none is there twice.  (A sole process.)
ResultsCountedOnce ==
  \A s \in Sources : returned[s] <= Counted(s) /\ Counted(s) <= begun[s]

\* Only the operator's own call changes an override: no signal and no result
\* brings one back or takes one away.  (A sole process.)
OverrideByOperator ==
  [][\A s \in DOMAIN profiles :
       profiles'[s].override # profiles[s].override =>
         \E p \in Procs : call[p].kind = "override" /\ call[p].source = s
                            /\ call[p].to = profiles'[s].override]_profiles

\* The ledger reports a grade only when the profile has it.  (A sole process.)
LedgerAfterProfile ==
  [][\A s \in DOMAIN told' : s \notin DOMAIN told \/ told'[s] # told[s] =>
       s \in DOMAIN profiles /\ told'[s] = profiles[s].grade]_told
-----------------------------------------------------------------------------
(***************************************************************************)
(* The inductive invariants behind these properties.                       *)
(***************************************************************************)
\* evaluate_source never comes to the second save.
LookNeverSaves == \A p \in Procs : pc[p] = "save" => call[p].kind # "look"

Graded(p) == p.grade = Decision(p) \/ (p.override = "NONE" /\ p.grade = "UNKNOWN")

\* So is every copy of a profile that may still be saved.
GradesInv ==
  /\ \A s \in DOMAIN profiles : Graded(profiles[s])
  /\ \A p \in Procs : /\ Graded(seen[p])
                      /\ \A s \in DOMAIN view[p].file : Graded(view[p].file[s])

\* A sole process: nothing changes behind its back, ...
NothingStale ==
  \A p \in Procs :
    /\ view[p].held => view[p].file = profiles
    /\ pc[p] = "create" => call[p].source \notin DOMAIN profiles /\ seen[p] = NewProfile
    /\ pc[p] \in {"created", "save", "emit"} =>
         call[p].source \in DOMAIN profiles /\ seen[p] = profiles[call[p].source]

InHand(p, s) == pc[p] # "idle" /\ call[p].kind = "result" /\ call[p].source = s

\* ... and the result in hand is counted when its profile has been saved.
CountInv ==
  /\ ResultsCountedOnce
  /\ \A p \in Procs, s \in Sources : InHand(p, s) =>
       IF pc[p] = "emit" THEN returned[s] < Counted(s) ELSE Counted(s) < begun[s]
=============================================================================
