---------------------- MODULE ChannelIntelligenceProofs ----------------------
(***************************************************************************)
(* Theorems about ChannelIntelligence, for any thresholds, results, calls  *)
(* and faults.                                                             *)
(***************************************************************************)
EXTENDS ChannelIntelligence, FiniteOrders, TLAPS

-----------------------------------------------------------------------------
(***************************************************************************)
(* The pure part.                                                          *)
(***************************************************************************)

\* A clamped value is within its bounds.
LEMMA ClampRange ==
  ASSUME NEW x \in Int, NEW top \in Nat
  PROVE  Clamp(x, top) \in 0..top
<1>1. PICK low \in Int : low = Min({x, top}) /\ low <= top
  BY MinOfTwo
<1>2. Max({0, low}) >= 0 /\ (Max({0, low}) = 0 \/ Max({0, low}) = low)
  BY MaxOfTwo
<1>. QED  BY <1>1, <1>2 DEF Clamp

\* A part of the score is at most its weight.
LEMMA ShareOfWeight ==
  ASSUME NEW w \in Nat, NEW whole \in Nat, whole > 0, NEW x \in Int
  PROVE  Part(w, x, whole) \in 0..w
<1> DEFINE c == Clamp(x, whole)
           q == (w * c) \div whole
<1>1. c \in Nat /\ c <= whole
  BY ClampRange
<1> HIDE DEF c
<1>2. w * c \in Nat /\ w * c <= w * whole
  BY <1>1
<1>3. q \in Int /\ whole * q <= w * c /\ w * c < whole * (q + 1)
  BY <1>2
<1> HIDE DEF q
<1>4. ASSUME q > w PROVE FALSE
  <2>1. whole * q >= whole * (w + 1)
    BY <1>3, <1>4
  <2>2. whole * (w + 1) = w * whole + whole
    OBVIOUS
  <2>. QED  BY <1>2, <1>3, <2>1, <2>2
<1>5. ASSUME q < 0 PROVE FALSE
  <2>1. whole * (q + 1) <= 0
    BY <1>3, <1>5
  <2>. QED  BY <1>2, <1>3, <2>1
<1>6. q \in 0..w
  BY <1>3, <1>4, <1>5
<1>. QED  BY <1>6 DEF q, c, Part

\* The score of any statistics is between 0 and 100 points, for thresholds that can be
\* divided by (ConstantsAssumption): the first signal of a source raises ZeroDivisionError
\* with the others, before anything but the new profile is saved.
THEOREM ScoreRange ==
  ASSUME NEW s \in Stats
  PROVE  Score(s) \in Scores
<1> DEFINE n == s.closed
           w == ScoreWeights
<1>1. /\ n \in Nat /\ s.wins \in Nat /\ s.streak \in Nat /\ s.grossWin \in Nat
      /\ s.grossLoss \in Nat /\ s.drawdown \in Nat /\ Total(s) \in Int
  BY DEF Stats, Total
<1>2. T.maxDrawdown \in Nat \ {0} /\ T.maxStreak \in Nat /\ T.minSignals \in Nat \ {0}
  BY ConstantsAssumption DEF T
<1>3. /\ w.expectancy = 3000 /\ w.winRate = 2000 /\ w.drawdown = 2000
      /\ w.consistency = 1500 /\ w.profitFactor = 1000 /\ w.sampleSize = 500
  BY DEF ScoreWeights
<1>4. /\ w.expectancy \in Nat /\ w.winRate \in Nat /\ w.drawdown \in Nat
      /\ w.consistency \in Nat /\ w.profitFactor \in Nat /\ w.sampleSize \in Nat
  BY <1>3
<1>5. PICK steady \in 0..w.drawdown :
         steady = Part(w.drawdown, T.maxDrawdown - s.drawdown, T.maxDrawdown)
  <2>1. T.maxDrawdown - s.drawdown \in Int /\ T.maxDrawdown \in Nat /\ T.maxDrawdown > 0
    BY <1>1, <1>2
  <2>. QED  BY <1>4, <2>1, ShareOfWeight
<1>6. CASE n = 0
  <2>1. PICK one \in Int, two \in Nat : one = 1 /\ two = 2 /\ two > 0
    OBVIOUS
  <2>2. PICK edge \in 0..w.expectancy : edge = Part(w.expectancy, one, two)
    BY <1>4, <2>1, ShareOfWeight
  <2>3. Score(s) = Part(w.expectancy, 1, 2) + steady
    BY <1>5, <1>6 DEF Score
  <2>4. edge = Part(w.expectancy, 1, 2)
    BY <2>1, <2>2
  <2>5. edge + steady \in 0..10000
    BY <1>3, SMTT(20)
  <2>6. Score(s) = edge + steady
    BY <2>3, <2>4
  <2>. QED  BY <2>5, <2>6 DEF Scores
<1>7. CASE n # 0
  <2>1. PICK edge \in 0..w.expectancy : edge = Part(w.expectancy, Total(s) + n, 2 * n)
    <3>1. Total(s) + n \in Int /\ 2 * n \in Nat /\ 2 * n > 0
      BY <1>1, <1>7
    <3>. QED  BY <1>4, <3>1, ShareOfWeight
  <2>2. PICK won \in 0..w.winRate : won = Part(w.winRate, s.wins, n)
    <3>1. s.wins \in Int /\ n \in Nat /\ n > 0
      BY <1>1, <1>7
    <3>. QED  BY <1>4, <3>1, ShareOfWeight
  <2>3. PICK streak \in 0..w.consistency :
           streak = IF T.maxStreak = 0 THEN 0
                    ELSE Part(w.consistency, T.maxStreak - s.streak, T.maxStreak)
    <3>1. CASE T.maxStreak # 0
      <4>1. T.maxStreak - s.streak \in Int /\ T.maxStreak \in Nat /\ T.maxStreak > 0
        BY <1>1, <1>2, <3>1
      <4>. QED  BY <1>4, <3>1, <4>1, ShareOfWeight
    <3>2. CASE T.maxStreak = 0
      BY <1>4, <3>2
    <3>. QED  BY <3>1, <3>2
  <2>4. PICK factor \in 0..w.profitFactor :
           factor = IF s.grossLoss = 0 THEN 0
                    ELSE Part(w.profitFactor, 5 * s.grossWin, 6 * s.grossLoss)
    <3>1. CASE s.grossLoss # 0
      <4>1. 6 * s.grossLoss \in Nat /\ 6 * s.grossLoss > 0 /\ 5 * s.grossWin \in Int
        BY <1>1, <3>1
      <4>. QED  BY <1>4, <3>1, <4>1, ShareOfWeight
    <3>2. CASE s.grossLoss = 0
      BY <1>4, <3>2
    <3>. QED  BY <3>1, <3>2
  <2>5. PICK sample \in 0..w.sampleSize : sample = Part(w.sampleSize, n, T.minSignals)
    <3>1. n \in Int /\ T.minSignals \in Nat /\ T.minSignals > 0
      BY <1>1, <1>2
    <3>. QED  BY <1>4, <3>1, ShareOfWeight
  <2>6. Score(s) = edge + won + steady + streak + factor + sample
    BY <1>5, <1>7, <2>1, <2>2, <2>3, <2>4, <2>5 DEF Score
  <2>. QED  BY <1>3, <2>6 DEF Scores
<1>. QED  BY <1>6, <1>7

\* A closed trade leaves statistics: no count goes below zero.
LEMMA ResultType ==
  ASSUME NEW s \in Stats, NEW r \in Int
  PROVE  WithResult(s, r) \in Stats /\ WithResult(s, r).closed = s.closed + 1
<1>1. /\ Total(s) + r \in Int /\ s.peak \in Nat /\ s.drawdown \in Nat /\ s.closed \in Nat
      /\ s.wins \in Nat /\ s.streak \in Nat /\ s.grossWin \in Nat /\ s.grossLoss \in Nat
      /\ -r \in Int /\ s \in Stats
  BY DEF Stats, Total
<1>2. PICK total \in Int : total = Total(s) + r
  BY <1>1
<1>3. PICK peak \in Nat : peak = Max({s.peak, total}) /\ peak >= total
  BY <1>1, MaxOfTwo
<1>4. PICK drawdown \in Nat : drawdown = Max({s.drawdown, peak - total})
  <2>1. peak - total \in Int /\ s.drawdown \in Int
    BY <1>1
  <2>. QED  BY <1>1, <2>1, MaxOfTwo
<1>5. PICK win \in Nat, loss \in Nat : win = Max({r, 0}) /\ loss = Max({-r, 0})
  BY <1>1, MaxOfTwo
<1>6. WithResult(s, r) =
        [closed |-> s.closed + 1, wins |-> s.wins + (IF r > 0 THEN 1 ELSE 0),
         streak |-> IF r < 0 THEN s.streak + 1 ELSE 0,
         grossWin |-> s.grossWin + win, grossLoss |-> s.grossLoss + loss,
         peak |-> peak, drawdown |-> drawdown]
  BY <1>2, <1>3, <1>4, <1>5 DEF WithResult
<1>7. /\ s.closed + 1 \in Nat /\ s.wins + (IF r > 0 THEN 1 ELSE 0) \in Nat
      /\ (IF r < 0 THEN s.streak + 1 ELSE 0) \in Nat
      /\ s.grossWin + win \in Nat /\ s.grossLoss + loss \in Nat
  BY <1>1
<1>. QED  BY <1>6, <1>7 DEF Stats

LEMMA DecisionGrade ==
  ASSUME NEW p, p.override \in Overrides
  PROVE  Decision(p) \in Grades /\ ManualGrade(p.override, p.grade) \in Grades
<1>1. ManualGrade(p.override, p.grade) \in Grades
  BY DEF ManualGrade, Overrides, Grades
<1>2. Decision(p) \in Grades
  <2>1. CASE p.override # "NONE"
    BY <1>1, <2>1 DEF Decision
  <2>2. CASE p.override = "NONE"
    BY <2>2 DEF Decision, Grades
  <2>. QED  BY <2>1, <2>2
<1>. QED  BY <1>1, <1>2

\* Neither the decision nor the manual grade reads the old grade.
LEMMA DecisionIgnoresGrade ==
  ASSUME NEW p \in Profile, NEW g
  PROVE  Decision([p EXCEPT !.grade = g]) = Decision(p)
<1> DEFINE q == [p EXCEPT !.grade = g]
<1>1. q.stats = p.stats /\ q.score = p.score /\ q.override = p.override
  BY DEF Profile
<1> HIDE DEF q
<1>2. Decision(q) = Decision(p)
  BY <1>1 DEF Decision, ManualGrade
<1>. QED  BY <1>2 DEF q

LEMMA RescoredFacts ==
  ASSUME NEW p \in Profile, NEW s \in Stats
  PROVE  /\ Rescored(p, s) \in Profile /\ Graded(Rescored(p, s))
         /\ Rescored(p, s).stats = s /\ Rescored(p, s).override = p.override
<1> DEFINE scored == [p EXCEPT !.stats = s, !.score = Score(s)]
<1>1. scored \in Profile
  <2>1. PICK v \in Scores : v = Score(s)
    BY ScoreRange
  <2>2. [p EXCEPT !.stats = s, !.score = v] \in Profile
    BY DEF Profile
  <2>. QED  BY <2>1, <2>2
<1>2. scored.stats = s /\ scored.override = p.override
  BY DEF Profile
<1>3. Rescored(p, s) = [scored EXCEPT !.grade = Decision(scored)]
  BY DEF Rescored
<1> HIDE DEF scored
<1>4. Decision(scored) \in Grades
  BY <1>1, DecisionGrade DEF Profile
<1>5. /\ Rescored(p, s) \in Profile /\ Rescored(p, s).grade = Decision(scored)
      /\ Rescored(p, s).stats = s /\ Rescored(p, s).override = p.override
  BY <1>1, <1>2, <1>3, <1>4 DEF Profile
<1>6. Decision(Rescored(p, s)) = Decision(scored)
  BY <1>1, <1>3, DecisionIgnoresGrade
<1>. QED  BY <1>5, <1>6 DEF Graded

LEMMA OverriddenFacts ==
  ASSUME NEW p \in Profile, NEW o \in Overrides
  PROVE  /\ Overridden(p, o) \in Profile /\ Graded(Overridden(p, o))
         /\ Overridden(p, o).stats = p.stats /\ Overridden(p, o).override = o
<1> DEFINE q == Overridden(p, o)
<1>1. ManualGrade(o, p.grade) \in Grades
  BY DEF ManualGrade, Overrides, Grades
<1>2. /\ q \in Profile /\ q.stats = p.stats /\ q.override = o
      /\ q.grade = ManualGrade(o, p.grade)
  <2>1. PICK g \in Grades : g = ManualGrade(o, p.grade)
    BY <1>1
  <2>2. q = [p EXCEPT !.override = o, !.grade = g]
    BY <2>1 DEF Overridden
  <2> HIDE DEF q
  <2>. QED  BY <2>1, <2>2 DEF Profile
<1> HIDE DEF q
<1>3. Graded(q)
  <2>1. CASE o = "NONE"
    BY <1>2, <2>1 DEF Graded, ManualGrade
  <2>2. CASE o # "NONE"
    BY Zenon, <1>2, <2>2 DEF Graded, Decision, ManualGrade
  <2>. QED  BY <2>1, <2>2
<1>. QED  BY <1>2, <1>3 DEF q

\* What one call makes of a profile.
LEMMA UpdatedFacts ==
  ASSUME NEW p \in Profile, NEW c \in Calls, c.kind # "look"
  PROVE  /\ Updated(p, c) \in Profile /\ Graded(Updated(p, c))
         /\ Updated(p, c).stats.closed = p.stats.closed + (IF c.kind = "result" THEN 1 ELSE 0)
         /\ Updated(p, c).override = IF c.kind = "override" THEN c.to ELSE p.override
<1>1. p.stats \in Stats /\ p.stats.closed \in Nat
  BY DEF Profile, Stats
<1>2. CASE c.kind = "signal"
  BY <1>1, <1>2, RescoredFacts DEF Updated
<1>3. CASE c.kind = "result"
  <2>1. c.r \in Int
    BY <1>3, ConstantsAssumption DEF Calls
  <2>2. WithResult(p.stats, c.r) \in Stats /\ WithResult(p.stats, c.r).closed = p.stats.closed + 1
    BY <1>1, <2>1, ResultType
  <2>. QED  BY <1>3, <2>2, RescoredFacts DEF Updated
<1>4. CASE c.kind = "override"
  <2>1. c.to \in Overrides
    BY <1>4 DEF Calls
  <2>. QED  BY <1>1, <1>4, <2>1, OverriddenFacts DEF Updated
<1>5. c.kind \in {"signal", "result", "override"}
  BY DEF Calls
<1>. QED  BY <1>2, <1>3, <1>4, <1>5

-----------------------------------------------------------------------------
(***************************************************************************)
(* The files and the calls, whatever the number of processes.              *)
(***************************************************************************)
TypeInv == TypeOK /\ LookNeverSaves

CallSteps == {"idle", "get", "create", "created", "save", "emit"}

\* Saving one profile keeps the others.
LEMMA PutKeyed ==
  ASSUME NEW Values, NEW f, Keyed(f, Values), NEW k \in Sources, NEW v \in Values
  PROVE  Keyed(Put(f, k, v), Values)
<1>1. PICK g : g = Put(f, k, v)
  OBVIOUS
<1>2. /\ DOMAIN g = DOMAIN f \cup {k} /\ g[k] = v
      /\ \A x \in DOMAIN f : x # k => g[x] = f[x]
  BY <1>1 DEF Put
<1>3. Keyed(g, Values)
  BY <1>2 DEF Keyed
<1>. QED  BY <1>1, <1>3

LEMMA CallFacts ==
  ASSUME NEW c \in Calls
  PROVE  c.source \in Sources /\ c.kind \in {"look", "signal", "result", "override"}
BY DEF Calls

LEMMA NewProfileFacts == NewProfile \in Profile /\ Graded(NewProfile)
BY DEF NewProfile, Profile, Stats, Scores, Grades, Overrides, Graded

\* Steps that change neither file, by what they do to the rest.
Control ==
  /\ pc' \in [Procs -> CallSteps] /\ call' \in [Procs -> Calls] /\ seen' \in [Procs -> Profile]
  /\ DOMAIN view' = Procs
  /\ \A q \in Procs : view'[q].held \in BOOLEAN /\ Keyed(view'[q].file, Profile)
  /\ begun' \in [Sources -> Nat] /\ returned' \in [Sources -> Nat] /\ calls' \in Nat
  /\ \A q \in Procs : pc'[q] = "save" => call'[q].kind # "look"

LEMMA StepType ==
  ASSUME Control, Keyed(profiles', Profile), Keyed(told', Grades)
  PROVE  TypeInv'
<1>1. Keyed(profiles, Profile)' /\ Keyed(told, Grades)'
  BY DEF Keyed
<1>2. \A q \in Procs : (view[q].held \in BOOLEAN /\ Keyed(view[q].file, Profile))'
  BY DEF Control, Keyed
<1>. QED  BY <1>1, <1>2 DEF Control, TypeInv, TypeOK, LookNeverSaves, CallSteps

LEMMA NoViewFacts == NoView.held = FALSE /\ Keyed(NoView.file, Profile)
BY DEF NoView, Keyed

LEMMA LeaveControl ==
  ASSUME TypeInv, NEW p \in Procs, NEW done \in BOOLEAN, Leave(p, done)
  PROVE  Control
<1>1. call[p].source \in Sources
  BY CallFacts DEF TypeInv, TypeOK
<1>2. returned' \in [Sources -> Nat]
  BY <1>1 DEF Leave, TypeInv, TypeOK
<1>3. DOMAIN view' = Procs /\ view'[p] = NoView /\ \A q \in Procs : q # p => view'[q] = view[q]
  BY DEF Leave, TypeInv, TypeOK
<1>4. \A q \in Procs : view'[q].held \in BOOLEAN /\ Keyed(view'[q].file, Profile)
  BY <1>3, NoViewFacts DEF TypeInv, TypeOK
<1>. QED
  BY <1>2, <1>3, <1>4, NewProfileFacts
  DEF Leave, Goto, Control, CallSteps, TypeInv, TypeOK, LookNeverSaves

\* A step to another place in the code with the call kept.
LEMMA GotoControl ==
  ASSUME TypeInv, NEW p \in Procs, NEW s \in CallSteps, Goto(p, s),
         s = "save" => call[p].kind # "look", seen' \in [Procs -> Profile],
         view' = view \/ view' = [view EXCEPT ![p] = NoView], UNCHANGED <<call, history>>
  PROVE  Control
<1>1. DOMAIN view' = Procs /\ \A q \in Procs : view'[q] = view[q] \/ view'[q] = NoView
  BY DEF TypeInv, TypeOK
<1>2. \A q \in Procs : view'[q].held \in BOOLEAN /\ Keyed(view'[q].file, Profile)
  BY <1>1, NoViewFacts DEF TypeInv, TypeOK
<1>. QED
  BY <1>1, <1>2 DEF Goto, Control, CallSteps, history, TypeInv, TypeOK, LookNeverSaves

\* Telling the ledger a grade.
LEMMA TellType ==
  ASSUME TypeInv, NEW p \in Procs, Tell(p)
  PROVE  Keyed(told', Grades)
<1>1. call[p].source \in Sources /\ seen[p].grade \in Grades
  BY CallFacts DEF TypeInv, TypeOK, Profile
<1>2. Keyed(Put(told, call[p].source, seen[p].grade), Grades)
  BY <1>1, PutKeyed DEF TypeInv, TypeOK
<1>. QED  BY <1>2 DEF Tell

LEMMA SaveType ==
  ASSUME TypeInv, NEW p \in Procs, NEW profile \in Profile, NEW s \in CallSteps \ {"save"},
         Save(p, profile, s)
  PROVE  TypeInv'
<1>1. call[p].source \in Sources /\ Keyed(view[p].file, Profile)
  BY CallFacts DEF TypeInv, TypeOK
<1>2. Keyed(Put(view[p].file, call[p].source, profile), Profile)
  BY <1>1, PutKeyed
<1>3. Keyed(profiles', Profile)
  BY <1>2 DEF Save
<1>4. Keyed(told', Grades)
  <2>1. told' = told
    BY SMTT(30) DEF Save
  <2>. QED  BY <2>1 DEF TypeInv, TypeOK
<1>5. seen' \in [Procs -> Profile]
  BY DEF Save, TypeInv, TypeOK
<1>6. Control
  BY <1>5, GotoControl DEF Save
<1>. QED  BY <1>3, <1>4, <1>6, StepType

LEMMA RunType ==
  ASSUME TypeInv, NEW p \in Procs, Run(p)
  PROVE  TypeInv'
<1>1. Keyed(profiles, Profile) /\ Keyed(told, Grades)
  BY DEF TypeInv, TypeOK
<1>2. CASE Get(p) \/ GetNew(p)
  <2>1. seen' \in [Procs -> Profile] /\ UNCHANGED <<profiles, told, call, view, history>>
    BY <1>2, NewProfileFacts DEF Get, GetNew, Known, Keyed, TypeInv, TypeOK
  <2>2. PICK s \in CallSteps : Goto(p, s) /\ (s = "save" => call[p].kind # "look")
    BY <1>2 DEF Get, GetNew, CallSteps
  <2>3. Control
    BY <2>1, <2>2, GotoControl
  <2>. QED  BY <1>1, <2>1, <2>3, StepType
<1>3. CASE Look(p) \/ EmitRaises(p) \/ Emit(p)
  <2>1. PICK done \in BOOLEAN : Leave(p, done)
    BY <1>3 DEF Look, EmitRaises, Emit
  <2>2. profiles' = profiles /\ (told' = told \/ Tell(p))
    BY <1>3 DEF Look, EmitRaises, Emit
  <2>. QED  BY <1>1, <2>1, <2>2, LeaveControl, TellType, StepType
<1>4. CASE ReadProfiles(p)
  <2>1. /\ DOMAIN view' = Procs /\ view'[p].held = TRUE /\ view'[p].file = profiles
        /\ \A q \in Procs : q # p => view'[q] = view[q]
    BY <1>4 DEF ReadProfiles, TypeInv, TypeOK
  <2>2. \A q \in Procs : view'[q].held \in BOOLEAN /\ Keyed(view'[q].file, Profile)
    BY <1>1, <2>1 DEF TypeInv, TypeOK
  <2>3. UNCHANGED <<profiles, told, pc, call, seen, begun, returned, calls>>
    BY <1>4 DEF ReadProfiles, history
  <2>4. Control
    BY <2>1, <2>2, <2>3 DEF Control, CallSteps, TypeInv, TypeOK, LookNeverSaves
  <2>. QED  BY <1>1, <2>3, <2>4, StepType
<1>5. CASE SaveNew(p)
  <2>1. seen[p] \in Profile
    BY DEF TypeInv, TypeOK
  <2>. QED  BY <1>5, <2>1, SaveType DEF SaveNew, CallSteps
<1>6. CASE SaveUpdated(p)
  <2>1. Updated(seen[p], call[p]) \in Profile
    BY <1>6, UpdatedFacts DEF SaveUpdated, TypeInv, TypeOK, LookNeverSaves
  <2>. QED  BY <1>6, <2>1, SaveType DEF SaveUpdated, CallSteps
<1>7. CASE EmitCreated(p)
  <2>1. Control
    <3>1. CASE Leave(p, TRUE)
      BY <3>1, LeaveControl
    <3>2. CASE ~ Leave(p, TRUE)
      <4>1. /\ call[p].kind # "look" /\ Goto(p, "save") /\ UNCHANGED <<call, seen, view, history>>
            /\ "save" \in CallSteps
        BY <1>7, <3>2 DEF EmitCreated, CallSteps
      <4>2. seen' \in [Procs -> Profile]
        BY <4>1 DEF TypeInv, TypeOK
      <4>. QED  BY <4>1, <4>2, GotoControl
    <3>. QED  BY <3>1, <3>2
  <2>. QED  BY <1>1, <1>7, <2>1, TellType, StepType DEF EmitCreated
<1>. QED
  BY <1>2, <1>3, <1>4, <1>5, <1>6, <1>7 DEF Run

LEMMA BeginType ==
  ASSUME TypeInv, NEW p \in Procs, NEW c \in Calls, Begin(p, c)
  PROVE  TypeInv'
<1>1. begun' \in [Sources -> Nat]
  BY CallFacts DEF Begin, TypeInv, TypeOK
<1>2. Control
  BY <1>1 DEF Begin, Goto, Control, CallSteps, TypeInv, TypeOK, LookNeverSaves
<1>. QED  BY <1>2, StepType DEF Begin, TypeInv, TypeOK

LEMMA InitType == Init => TypeInv
<1> SUFFICES ASSUME Init PROVE TypeInv
  OBVIOUS
<1>1. (CHOOSE s \in Sources : TRUE) \in Sources
  BY ConstantsAssumption
<1>2. call \in [Procs -> Calls]
  BY <1>1 DEF Init, Calls
<1>3. view = [p \in Procs |-> NoView]
  BY DEF Init
<1>4. Keyed(profiles, Profile) /\ Keyed(told, Grades)
  BY DEF Init, Keyed
<1>. QED
  BY <1>2, <1>3, <1>4, NewProfileFacts, NoViewFacts DEF Init, TypeInv, TypeOK, LookNeverSaves

LEMMA TypeInvariant == Spec => []TypeInv
<1>1. TypeInv /\ [Next]_vars => TypeInv'
  <2>1. ASSUME TypeInv, NEW p \in Procs, Crash(p) PROVE TypeInv'
    BY <2>1, LeaveControl, StepType DEF Crash, TypeInv, TypeOK
  <2>2. ASSUME TypeInv, UNCHANGED vars PROVE TypeInv'
    BY <2>2 DEF vars, history, TypeInv, TypeOK, LookNeverSaves
  <2>. QED  BY <2>1, <2>2, RunType, BeginType DEF Next
<1>. QED  BY <1>1, InitType, PTL DEF Spec

\* Whatever results come in, and however the calls of any number of processes
\* interleave, every stored profile is well formed and its score within bounds.
THEOREM TypeCorrect == Spec => []TypeOK
<1>1. TypeInv => TypeOK
  BY DEF TypeInv
<1>. QED  BY <1>1, TypeInvariant, PTL

-----------------------------------------------------------------------------
(***************************************************************************)
(* The grades, whatever the number of processes.                           *)
(***************************************************************************)
AllGraded(f) == \A s \in DOMAIN f : Graded(f[s])

LEMMA GradesStep ==
  ASSUME TypeInv, GradesInv, NEW p \in Procs, Graded(seen'[p]), AllGraded(profiles'),
         AllGraded(view'[p].file),
         \A q \in Procs : q # p => seen'[q] = seen[q] /\ view'[q] = view[q]
  PROVE  GradesInv'
BY DEF GradesInv, AllGraded, Graded

LEMMA PutGraded ==
  ASSUME NEW f, AllGraded(f), NEW k, NEW v, Graded(v)
  PROVE  AllGraded(Put(f, k, v))
<1>1. PICK g : g = Put(f, k, v)
  OBVIOUS
<1>2. /\ DOMAIN g = DOMAIN f \cup {k} /\ g[k] = v
      /\ \A x \in DOMAIN f : x # k => g[x] = f[x]
  BY <1>1 DEF Put
<1>3. AllGraded(g)
  BY <1>2 DEF AllGraded
<1>. QED  BY <1>1, <1>3

LEMMA GradesKept ==
  ASSUME TypeInv, GradesInv
  PROVE  /\ AllGraded(profiles) /\ AllGraded(NoView.file)
         /\ \A p \in Procs : Graded(seen[p]) /\ AllGraded(view[p].file)
BY DEF GradesInv, AllGraded, NoView

LEMMA LeaveGrades ==
  ASSUME TypeInv, GradesInv, NEW p \in Procs, NEW done, Leave(p, done), UNCHANGED profiles
  PROVE  GradesInv'
<1>1. /\ seen'[p] = NewProfile /\ view'[p] = NoView
      /\ \A q \in Procs : q # p => seen'[q] = seen[q] /\ view'[q] = view[q]
  BY DEF Leave, TypeInv, TypeOK
<1>. QED  BY <1>1, GradesKept, NewProfileFacts, GradesStep

LEMMA SaveGrades ==
  ASSUME TypeInv, GradesInv, NEW p \in Procs, NEW profile, Graded(profile), NEW s,
         Save(p, profile, s)
  PROVE  GradesInv'
<1>1. /\ seen'[p] = profile /\ view'[p] = NoView
      /\ \A q \in Procs : q # p => seen'[q] = seen[q] /\ view'[q] = view[q]
  BY DEF Save, TypeInv, TypeOK
<1>2. AllGraded(profiles')
  BY GradesKept, PutGraded DEF Save
<1>. QED  BY <1>1, <1>2, GradesKept, GradesStep

LEMMA NextGrades == TypeInv /\ GradesInv /\ [Next]_vars => GradesInv'
<1> SUFFICES ASSUME TypeInv, GradesInv, [Next]_vars PROVE GradesInv'
  OBVIOUS
<1>1. ASSUME NEW p \in Procs, Get(p) \/ GetNew(p) PROVE GradesInv'
  <2>1. /\ seen'[p] = NewProfile \/ (Known(p) /\ seen'[p] = profiles[call[p].source])
        /\ \A q \in Procs : q # p => seen'[q] = seen[q]
        /\ UNCHANGED <<profiles, view>>
    BY <1>1 DEF Get, GetNew, TypeInv, TypeOK
  <2>2. Graded(seen'[p])
    BY <2>1, NewProfileFacts, GradesKept DEF AllGraded, Known
  <2>. QED  BY <2>1, <2>2, GradesKept, GradesStep
<1>2. ASSUME NEW p \in Procs, ReadProfiles(p) PROVE GradesInv'
  <2>1. /\ view'[p].file = profiles /\ \A q \in Procs : q # p => view'[q] = view[q]
        /\ UNCHANGED <<profiles, seen>>
    BY <1>2 DEF ReadProfiles, TypeInv, TypeOK
  <2>. QED  BY <2>1, GradesKept, GradesStep
<1>3. ASSUME NEW p \in Procs, SaveNew(p) PROVE GradesInv'
  BY <1>3, SaveGrades, GradesKept DEF SaveNew
<1>4. ASSUME NEW p \in Procs, SaveUpdated(p) PROVE GradesInv'
  <2>1. Graded(Updated(seen[p], call[p]))
    BY <1>4, UpdatedFacts DEF SaveUpdated, TypeInv, TypeOK, LookNeverSaves
  <2>. QED  BY <1>4, <2>1, SaveGrades DEF SaveUpdated
<1>5. ASSUME NEW p \in Procs, Look(p) \/ Emit(p) \/ EmitRaises(p) \/ EmitCreated(p) \/ Crash(p)
      PROVE  GradesInv'
  <2>1. UNCHANGED profiles /\ ((\E done : Leave(p, done)) \/ UNCHANGED <<seen, view>>)
    BY <1>5 DEF Look, Emit, EmitRaises, EmitCreated, Crash
  <2>2. CASE UNCHANGED <<seen, view>>
    BY <2>1, <2>2 DEF GradesInv
  <2>. QED  BY <2>1, <2>2, LeaveGrades
<1>6. ASSUME NEW p \in Procs, NEW c \in Calls, Begin(p, c) PROVE GradesInv'
  BY <1>6 DEF Begin, GradesInv
<1>7. CASE UNCHANGED vars
  BY <1>7 DEF vars, GradesInv
<1>. QED
  BY <1>1, <1>2, <1>3, <1>4, <1>5, <1>6, <1>7 DEF Next, Run

LEMMA GradesInvariant == Spec => []GradesInv
<1>1. Init => GradesInv
  <2> SUFFICES ASSUME Init PROVE GradesInv
    OBVIOUS
  <2>1. view = [p \in Procs |-> NoView] /\ seen = [p \in Procs |-> NewProfile] /\ profiles = <<>>
    BY DEF Init
  <2>. QED  BY <2>1, NewProfileFacts DEF GradesInv, NoView
<1>2. TypeInv /\ GradesInv /\ [Next]_vars => GradesInv'
  BY NextGrades
<1>. QED  BY <1>1, <1>2, TypeInvariant, PTL DEF Spec

\* Any number of processes, each saving whole files from copies that may be
\* stale: a stored grade is still the one its own statistics and override call
\* for, or UNKNOWN without an override.
THEOREM GradeFollowsProfile == Spec => []GradeCurrent
<1>1. GradesInv => GradeCurrent
  BY DEF GradesInv, GradeCurrent, Graded
<1>. QED  BY <1>1, GradesInvariant, PTL

\* ... so a source whose losses called for a pause is not tradable unless an
\* operator forces it.
THEOREM SuspendedNotTraded == Spec => []SuspendedStaysOut
<1>1. TypeInv /\ GradesInv => SuspendedStaysOut
  <2> SUFFICES ASSUME TypeInv, GradesInv, NEW s \in DOMAIN profiles,
                      profiles[s].override = "NONE",
                      \/ profiles[s].stats.streak >= T.pauseStreak
                      \/ profiles[s].stats.drawdown > T.maxDrawdown
               PROVE  profiles[s].grade \notin Enabled
    BY DEF SuspendedStaysOut
  <2>1. Decision(profiles[s]) \in {"REJECTED", "PAUSED"}
    BY DEF Decision
  <2>. QED  BY <2>1 DEF GradesInv, Graded, Enabled
<1>. QED  BY <1>1, TypeInvariant, GradesInvariant, PTL

-----------------------------------------------------------------------------
(***************************************************************************)
(* One process.                                                            *)
(***************************************************************************)
OneProcess == \A p, q \in Procs : p = q

SoleInv == NothingStale /\ CountInv

\* What the step of the only process has to show.
LEMMA StepSole ==
  ASSUME OneProcess, NEW p \in Procs,
         view'[p].held => view'[p].file = profiles',
         pc'[p] = "create" => call'[p].source \notin DOMAIN profiles' /\ seen'[p] = NewProfile,
         pc'[p] \in {"created", "save", "emit"} =>
           call'[p].source \in DOMAIN profiles' /\ seen'[p] = profiles'[call'[p].source],
         ResultsCountedOnce',
         \A s \in Sources : InHand(p, s)' =>
           IF pc'[p] = "emit" THEN returned'[s] < Counted(s)' ELSE Counted(s)' < begun'[s]
  PROVE  SoleInv'
<1>1. \A q \in Procs : q = p
  BY DEF OneProcess
<1>2. NothingStale'
  BY <1>1 DEF NothingStale
<1>3. CountInv'
  BY <1>1 DEF CountInv, InHand
<1>. QED  BY <1>2, <1>3 DEF SoleInv

\* What it knows before the step.
LEMMA SoleFacts ==
  ASSUME TypeInv, SoleInv, NEW p \in Procs
  PROVE  /\ view[p].held => view[p].file = profiles
         /\ pc[p] = "create" => call[p].source \notin DOMAIN profiles /\ seen[p] = NewProfile
         /\ pc[p] \in {"created", "save", "emit"} =>
              call[p].source \in DOMAIN profiles /\ seen[p] = profiles[call[p].source]
         /\ \A s \in Sources :
              /\ returned[s] \in Nat /\ begun[s] \in Nat /\ Counted(s) \in Nat
              /\ returned[s] <= Counted(s) /\ Counted(s) <= begun[s]
              /\ InHand(p, s) =>
                   IF pc[p] = "emit" THEN returned[s] < Counted(s) ELSE Counted(s) < begun[s]
<1>1. \A s \in Sources : Counted(s) \in Nat
  BY DEF Counted, TypeInv, TypeOK, Keyed, Profile, Stats
<1>. QED
  BY <1>1 DEF SoleInv, NothingStale, CountInv, ResultsCountedOnce, TypeInv, TypeOK

\* A call that ends was counted if it returned.
LEMMA LeaveSole ==
  ASSUME OneProcess, TypeInv, SoleInv, NEW p \in Procs, NEW done \in BOOLEAN, Leave(p, done),
         done => (pc[p] = "emit" \/ call[p].kind # "result"), pc[p] # "idle", UNCHANGED profiles
  PROVE  SoleInv'
<1>1. /\ pc'[p] = "idle" /\ view'[p].held = FALSE /\ begun' = begun /\ call' = call
  BY DEF Leave, Goto, NoView, TypeInv, TypeOK
<1>2. \A s \in Sources : Counted(s)' = Counted(s)
  BY DEF Counted
<1>3. ASSUME NEW s \in Sources
      PROVE  returned'[s] = returned[s] \/ (InHand(p, s) /\ pc[p] = "emit" /\ returned'[s] = returned[s] + 1)
  BY DEF Leave, InHand, TypeInv, TypeOK
<1>4. ResultsCountedOnce'
  <2> SUFFICES ASSUME NEW s \in Sources PROVE returned'[s] <= Counted(s)' /\ Counted(s)' <= begun'[s]
    BY DEF ResultsCountedOnce
  <2>. QED  BY <1>1, <1>2, <1>3, SoleFacts
<1>5. \A s \in Sources : ~ InHand(p, s)'
  BY <1>1 DEF InHand
<1>. QED  BY <1>1, <1>4, <1>5, StepSole

\* A step of a call that saves nothing.
LEMMA QuietSole ==
  ASSUME OneProcess, TypeInv, SoleInv, NEW p \in Procs, pc[p] \notin {"idle", "emit"},
         pc'[p] \notin {"idle", "emit"}, UNCHANGED <<profiles, call, history>>,
         view'[p].held => view'[p].file = profiles,
         pc'[p] = "create" => call[p].source \notin DOMAIN profiles /\ seen'[p] = NewProfile,
         pc'[p] \in {"created", "save"} =>
           call[p].source \in DOMAIN profiles /\ seen'[p] = profiles[call[p].source]
  PROVE  SoleInv'
<1>1. UNCHANGED <<begun, returned>> /\ \A s \in Sources : Counted(s)' = Counted(s)
  BY DEF history, Counted
<1>2. ResultsCountedOnce'
  BY <1>1, SoleFacts DEF ResultsCountedOnce
<1>3. ASSUME NEW s \in Sources, InHand(p, s)' PROVE Counted(s)' < begun'[s]
  <2>1. InHand(p, s)
    BY <1>3 DEF InHand
  <2>. QED  BY <1>1, <2>1, SoleFacts
<1>. QED  BY <1>2, <1>3, StepSole

\* A save of the profile of the call in hand.
LEMMA SaveSole ==
  ASSUME OneProcess, TypeInv, SoleInv, NEW p \in Procs, NEW profile \in Profile,
         NEW s \in {"created", "emit"}, Save(p, profile, s), pc[p] \notin {"idle", "emit"},
         profile.stats.closed = Counted(call[p].source)
                                  + (IF s = "emit" /\ call[p].kind = "result" THEN 1 ELSE 0)
  PROVE  SoleInv'
<1>1. /\ pc'[p] = s /\ view'[p].held = FALSE /\ seen'[p] = profile
      /\ UNCHANGED <<call, begun, returned>>
  BY DEF Save, Goto, NoView, history, TypeInv, TypeOK
<1>2. PICK c \in Sources : c = call[p].source
  BY CallFacts DEF TypeInv, TypeOK
<1>3. profiles' = Put(profiles, c, profile)
  BY <1>2, SoleFacts DEF Save
<1>4. /\ DOMAIN profiles' = DOMAIN profiles \cup {c} /\ profiles'[c] = profile
      /\ \A x \in DOMAIN profiles : x # c => profiles'[x] = profiles[x]
  BY <1>3 DEF Put
<1>5. /\ Counted(c)' = profile.stats.closed
      /\ \A x \in Sources : x # c => Counted(x)' = Counted(x)
  BY <1>4 DEF Counted
<1>6. \A x \in Sources : (call[p].kind = "result" /\ x = c) => InHand(p, x)
  BY <1>2 DEF InHand
<1>7. ResultsCountedOnce'
  <2> SUFFICES ASSUME NEW x \in Sources PROVE returned'[x] <= Counted(x)' /\ Counted(x)' <= begun'[x]
    BY DEF ResultsCountedOnce
  <2>1. CASE x # c
    BY <1>1, <1>5, <2>1, SoleFacts
  <2>2. CASE x = c
    BY <1>1, <1>2, <1>5, <1>6, <2>2, SoleFacts
  <2>. QED  BY <2>1, <2>2
<1>8. ASSUME NEW x \in Sources, InHand(p, x)'
      PROVE  IF s = "emit" THEN returned'[x] < Counted(x)' ELSE Counted(x)' < begun'[x]
  <2>1. x = c /\ call[p].kind = "result" /\ InHand(p, x)
    BY <1>1, <1>2, <1>8 DEF InHand
  <2>. QED  BY <1>1, <1>2, <1>5, <2>1, SoleFacts
<1>9. call'[p].source \in DOMAIN profiles' /\ seen'[p] = profiles'[call'[p].source]
  BY <1>1, <1>2, <1>4
<1>. QED  BY <1>1, <1>7, <1>8, <1>9, StepSole

LEMMA NextSole ==
  ASSUME OneProcess
  PROVE  TypeInv /\ SoleInv /\ [Next]_vars => SoleInv'
<1> SUFFICES ASSUME TypeInv, SoleInv, [Next]_vars PROVE SoleInv'
  OBVIOUS
<1>1. ASSUME NEW p \in Procs, Get(p) \/ GetNew(p) \/ ReadProfiles(p) PROVE SoleInv'
  <2>1. /\ pc[p] \in {"get", "create", "save"} /\ UNCHANGED <<profiles, call, history>>
        /\ pc'[p] \in {"create", "save"}
    BY <1>1 DEF Get, GetNew, ReadProfiles, Goto, TypeInv, TypeOK
  <2>2. view'[p].held => view'[p].file = profiles
    BY <1>1, SoleFacts DEF Get, GetNew, ReadProfiles, TypeInv, TypeOK
  <2>3. /\ pc'[p] = "create" => call[p].source \notin DOMAIN profiles /\ seen'[p] = NewProfile
        /\ pc'[p] \in {"created", "save"} =>
             call[p].source \in DOMAIN profiles /\ seen'[p] = profiles[call[p].source]
    BY <1>1, SoleFacts DEF Get, GetNew, ReadProfiles, Goto, Known, TypeInv, TypeOK
  <2>. QED  BY <2>1, <2>2, <2>3, QuietSole
<1>2. ASSUME NEW p \in Procs, SaveNew(p) PROVE SoleInv'
  <2>1. /\ seen[p] = NewProfile /\ pc[p] = "create" /\ Save(p, seen[p], "created")
        /\ Counted(call[p].source) = 0
    BY <1>2, SoleFacts DEF SaveNew, Counted
  <2>2. NewProfile.stats.closed = 0
    BY DEF NewProfile
  <2>. QED  BY <2>1, <2>2, NewProfileFacts, SaveSole
<1>3. ASSUME NEW p \in Procs, SaveUpdated(p) PROVE SoleInv'
  <2> DEFINE profile == Updated(seen[p], call[p])
  <2>1. /\ pc[p] = "save" /\ Save(p, profile, "emit") /\ call[p].kind # "look"
        /\ call[p] \in Calls /\ seen[p] \in Profile
    BY <1>3 DEF SaveUpdated, TypeInv, TypeOK, LookNeverSaves
  <2>2. /\ profile \in Profile
        /\ profile.stats.closed = seen[p].stats.closed + (IF call[p].kind = "result" THEN 1 ELSE 0)
    BY <2>1, UpdatedFacts
  <2>3. seen[p].stats.closed = Counted(call[p].source)
    BY <2>1, SoleFacts DEF Counted
  <2> HIDE DEF profile
  <2>. QED  BY <2>1, <2>2, <2>3, SaveSole
<1>4. ASSUME NEW p \in Procs, Look(p) \/ Emit(p) \/ EmitRaises(p) \/ Crash(p) PROVE SoleInv'
  <2>1. /\ pc[p] # "idle" /\ profiles' = profiles
        /\ \E done \in BOOLEAN :
             Leave(p, done) /\ (done => (pc[p] = "emit" \/ call[p].kind # "result"))
    BY <1>4 DEF Look, Emit, EmitRaises, Crash
  <2>. QED  BY <2>1, LeaveSole
<1>5. ASSUME NEW p \in Procs, EmitCreated(p) PROVE SoleInv'
  <2>1. CASE call[p].kind = "look" /\ Leave(p, TRUE)
    BY <1>5, <2>1, LeaveSole DEF EmitCreated
  <2>2. CASE call[p].kind # "look" /\ Goto(p, "save") /\ UNCHANGED <<call, seen, view, history>>
    <3>1. /\ pc[p] = "created" /\ pc'[p] = "save"
          /\ UNCHANGED <<profiles, call, seen, view, history>>
      BY <1>5, <2>2 DEF EmitCreated, Goto, TypeInv, TypeOK
    <3>. QED  BY <3>1, SoleFacts, QuietSole
  <2>. QED  BY <1>5, <2>1, <2>2 DEF EmitCreated
<1>6. ASSUME NEW p \in Procs, NEW c \in Calls, Begin(p, c) PROVE SoleInv'
  <2>1. /\ pc[p] = "idle" /\ pc'[p] = "get" /\ call'[p] = c
        /\ UNCHANGED <<profiles, view, seen, returned>>
    BY <1>6 DEF Begin, Goto, TypeInv, TypeOK
  <2>2. \A s \in Sources : Counted(s)' = Counted(s)
    BY <2>1 DEF Counted
  <2>3. \A s \in Sources :
          begun'[s] = begun[s] + (IF c.kind = "result" /\ c.source = s THEN 1 ELSE 0)
    BY <1>6 DEF Begin, TypeInv, TypeOK
  <2>4. ResultsCountedOnce'
    BY <2>1, <2>2, <2>3, SoleFacts DEF ResultsCountedOnce
  <2>5. ASSUME NEW s \in Sources, InHand(p, s)' PROVE Counted(s)' < begun'[s]
    <3>1. c.kind = "result" /\ c.source = s
      BY <2>1, <2>5 DEF InHand
    <3>. QED  BY <2>2, <2>3, <3>1, SoleFacts
  <2>. QED  BY <2>1, <2>4, <2>5, SoleFacts, StepSole
<1>7. CASE UNCHANGED vars
  BY <1>7
  DEF vars, history, SoleInv, NothingStale, CountInv, ResultsCountedOnce, Counted, InHand
<1>. QED
  BY <1>1, <1>2, <1>3, <1>4, <1>5, <1>6, <1>7 DEF Next, Run

LEMMA SoleInvariant ==
  ASSUME OneProcess
  PROVE  Spec => []SoleInv
<1>1. Init => SoleInv
  <2> SUFFICES ASSUME Init PROVE SoleInv
    OBVIOUS
  <2>1. /\ profiles = <<>> /\ pc = [p \in Procs |-> "idle"] /\ view = [p \in Procs |-> NoView]
        /\ begun = [s \in Sources |-> 0] /\ returned = [s \in Sources |-> 0]
    BY DEF Init
  <2>. QED
    BY <2>1 DEF SoleInv, NothingStale, CountInv, ResultsCountedOnce, Counted, InHand, NoView
<1>2. TypeInv /\ SoleInv /\ [Next]_vars => SoleInv'
  BY NextSole
<1>. QED  BY <1>1, <1>2, TypeInvariant, PTL DEF Spec

\* One process that crashes or raises anywhere: no result of a call that
\* returned is missing from the statistics, and none is there twice.
THEOREM EveryResultCountedOnce ==
  ASSUME OneProcess
  PROVE  Spec => []ResultsCountedOnce
<1>1. SoleInv => ResultsCountedOnce
  BY DEF SoleInv, CountInv
<1>. QED  BY <1>1, SoleInvariant, PTL

\* One process: no signal and no result brings an operator's override back or
\* takes one away.
THEOREM OnlyOperatorOverrides ==
  ASSUME OneProcess
  PROVE  Spec => OverrideByOperator
<1> DEFINE Act == \A s \in DOMAIN profiles :
                    profiles'[s].override # profiles[s].override =>
                      \E p \in Procs : call[p].kind = "override" /\ call[p].source = s
                                         /\ call[p].to = profiles'[s].override
<1>1. TypeInv /\ SoleInv /\ [Next]_vars => [Act]_profiles
  <2> SUFFICES ASSUME TypeInv, SoleInv, [Next]_vars, profiles' # profiles PROVE Act
    OBVIOUS
  <2>1. PICK p \in Procs : SaveNew(p) \/ SaveUpdated(p)
    BY DEF Next, vars, Run, Get, Look, GetNew, ReadProfiles, EmitCreated, Emit, EmitRaises,
           Crash, Begin
  <2>2. PICK profile, step : Save(p, profile, step)
    BY <2>1 DEF SaveNew, SaveUpdated
  <2>3. /\ profiles' = Put(profiles, call[p].source, profile)
    BY <2>2, SoleFacts DEF Save
  <2>4. \A s \in DOMAIN profiles :
           profiles'[s] = IF s = call[p].source THEN profile ELSE profiles[s]
    BY <2>3 DEF Put
  <2>5. CASE SaveNew(p)
    <3>1. call[p].source \notin DOMAIN profiles
      BY <2>5, SoleFacts DEF SaveNew
    <3>. QED  BY <2>4, <3>1
  <2>6. CASE SaveUpdated(p)
    <3>1. /\ call[p].kind # "look" /\ call[p] \in Calls /\ seen[p] \in Profile
          /\ seen[p] = profiles[call[p].source]
      BY <2>6, SoleFacts DEF SaveUpdated, TypeInv, TypeOK, LookNeverSaves
    <3>2. profiles' = Put(profiles, call[p].source, Updated(seen[p], call[p]))
      BY <2>6, SoleFacts DEF SaveUpdated, Save
    <3>3. \A s \in DOMAIN profiles : profiles'[s] =
             IF s = call[p].source THEN Updated(seen[p], call[p]) ELSE profiles[s]
      BY <3>2 DEF Put
    <3>4. Updated(seen[p], call[p]).override =
            IF call[p].kind = "override" THEN call[p].to ELSE seen[p].override
      BY <3>1, UpdatedFacts
    <3>. QED  BY <3>1, <3>3, <3>4
  <2>. QED  BY <2>1, <2>5, <2>6
<1>. QED  BY <1>1, TypeInvariant, SoleInvariant, PTL DEF Spec, OverrideByOperator

\* One process: the ledger reports a grade only when the stored profile has it.
THEOREM LedgerReportsStored ==
  ASSUME OneProcess
  PROVE  Spec => LedgerAfterProfile
<1> DEFINE Act == \A s \in DOMAIN told' : s \notin DOMAIN told \/ told'[s] # told[s] =>
                    s \in DOMAIN profiles /\ told'[s] = profiles[s].grade
<1>1. TypeInv /\ SoleInv /\ [Next]_vars => [Act]_told
  <2> SUFFICES ASSUME TypeInv, SoleInv, [Next]_vars, told' # told PROVE Act
    OBVIOUS
  <2>1. PICK p \in Procs : Tell(p) /\ pc[p] \in {"created", "emit"}
    BY DEF Next, vars, Run, Get, Look, GetNew, ReadProfiles, SaveNew, SaveUpdated, Save,
           EmitCreated, Emit, EmitRaises, Crash, Begin
  <2>2. call[p].source \in DOMAIN profiles /\ seen[p] = profiles[call[p].source]
    BY <2>1, SoleFacts
  <2>3. /\ DOMAIN told' = DOMAIN told \cup {call[p].source}
        /\ \A s \in DOMAIN told' :
             told'[s] = IF s = call[p].source THEN seen[p].grade ELSE told[s]
    BY <2>1 DEF Tell, Put
  <2>. QED  BY <2>2, <2>3
<1>. QED  BY <1>1, TypeInvariant, SoleInvariant, PTL DEF Spec, LedgerAfterProfile
=============================================================================
