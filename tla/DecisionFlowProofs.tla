------------------------- MODULE DecisionFlowProofs -------------------------
(***************************************************************************)
(* Theorems about DecisionFlow, for any number of decisions in flight and  *)
(* of signals: what may become a position, how much it risks and how far   *)
(* the limits can be overrun.                                              *)
(***************************************************************************)
EXTENDS DecisionFlow, FiniteOrders, TLAPS

-----------------------------------------------------------------------------
(***************************************************************************)
(* The sums of the model: the risk of positions, the weight of candidates  *)
(* and the weight of all opinions.                                         *)
(***************************************************************************)
LEMMA ExposureSums ==
  ASSUME NEW H, IsFiniteSet(H)
  PROVE  \E g : SumsUp(g, H, [p \in H |-> p.risk]) /\ \A T \in SUBSET H : Exposure(T) = g[T]
<1> DEFINE v == [p \in H |-> p.risk]
<1>1. PICK g : SumsUp(g, H, v)
  BY SumsExist
<1>2. ASSUME NEW T \in SUBSET H PROVE Exposure(T) = g[T]
  <2> DEFINE body(h) == [s \in SUBSET T |->
                     IF s = {} THEN 0
                     ELSE (CHOOSE x \in s : TRUE).risk + h[s \ {CHOOSE x \in s : TRUE}]]
             it == CHOOSE h : h = body(h)
  <2>1. Exposure(T) = it[T]
    BY Zenon DEF Exposure, MapThenSumSet, MapThenFoldSet
  <2>2. IsFiniteSet(T)
    BY FS_Subset
  <2>3. PICK h : SumsUp(h, T, v)
    BY <2>2, SumsExist
  <2>4. ASSUME NEW f
        PROVE  f = body(f) <=> SumsUp(f, T, v)
    <3>1. ASSUME NEW s \in SUBSET T
          PROVE  (IF s = {} THEN 0
                  ELSE (CHOOSE x \in s : TRUE).risk + f[s \ {CHOOSE x \in s : TRUE}])
                   = Summed(f, v, s)
      <4>1. s # {} => Picked(s) \in s
        BY Zenon DEF Picked
      <4>. QED  BY <4>1 DEF Summed, Picked
    <3>. QED  BY <3>1 DEF SumsUp
  <2> HIDE DEF body
  <2>5. SumsUp(it, T, v)
    <3>1. h = body(h)
      BY <2>3, <2>4
    <3>2. it = body(it)
      BY <3>1, Zenon
    <3>. QED  BY <2>4, <3>2
  <2> HIDE DEF it, v
  <2>6. ASSUME NEW f, SumsUp(f, T, v) PROVE \A U \in SUBSET T : f[U] = g[U]
    BY <1>1, <2>2, <2>6, SumsAgree
  <2>7. T \in SUBSET T
    OBVIOUS
  <2>8. it[T] = g[T]
    BY <2>5, <2>6, <2>7, Zenon
  <2>. QED  BY <2>1, <2>8
<1>. QED  BY <1>1, <1>2

\* The weight behind a set of candidates, as Tally adds it up.
Behind(cs) == MapThenSumSet(LAMBDA c : Weight[pool[c].source], cs)

LEMMA BehindSums ==
  ASSUME NEW H, IsFiniteSet(H)
  PROVE  \E g : /\ SumsUp(g, H, [c \in H |-> Weight[pool[c].source]])
                /\ \A T \in SUBSET H : Behind(T) = g[T]
<1> DEFINE v == [c \in H |-> Weight[pool[c].source]]
<1>1. PICK g : SumsUp(g, H, v)
  BY SumsExist
<1>2. ASSUME NEW T \in SUBSET H PROVE Behind(T) = g[T]
  <2> DEFINE body(h) == [s \in SUBSET T |->
                     IF s = {} THEN 0
                     ELSE Weight[pool[CHOOSE x \in s : TRUE].source]
                            + h[s \ {CHOOSE x \in s : TRUE}]]
             it == CHOOSE h : h = body(h)
  <2>1. Behind(T) = it[T]
    BY Zenon DEF Behind, MapThenSumSet, MapThenFoldSet
  <2>2. IsFiniteSet(T)
    BY FS_Subset
  <2>3. PICK h : SumsUp(h, T, v)
    BY <2>2, SumsExist
  <2>4. ASSUME NEW f
        PROVE  f = body(f) <=> SumsUp(f, T, v)
    <3>1. ASSUME NEW s \in SUBSET T
          PROVE  (IF s = {} THEN 0
                  ELSE Weight[pool[CHOOSE x \in s : TRUE].source]
                         + f[s \ {CHOOSE x \in s : TRUE}])
                   = Summed(f, v, s)
      <4>1. s # {} => Picked(s) \in s
        BY Zenon DEF Picked
      <4>. QED  BY <4>1 DEF Summed, Picked
    <3>. QED  BY <3>1 DEF SumsUp
  <2> HIDE DEF body
  <2>5. SumsUp(it, T, v)
    <3>1. h = body(h)
      BY <2>3, <2>4
    <3>2. it = body(it)
      BY <3>1, Zenon
    <3>. QED  BY <2>4, <3>2
  <2> HIDE DEF it, v
  <2>6. ASSUME NEW f, SumsUp(f, T, v) PROVE \A U \in SUBSET T : f[U] = g[U]
    BY <1>1, <2>2, <2>6, SumsAgree
  <2>7. T \in SUBSET T
    OBVIOUS
  <2>8. it[T] = g[T]
    BY <2>5, <2>6, <2>7, Zenon
  <2>. QED  BY <2>1, <2>8
<1>. QED  BY <1>1, <1>2

LEMMA FunctionSums ==
  ASSUME NEW v, IsFiniteSet(DOMAIN v)
  PROVE  \E g : SumsUp(g, DOMAIN v, v) /\ SumFunction(v) = g[DOMAIN v]
<1> DEFINE D == DOMAIN v
           it == CHOOSE h : h = [s \in SUBSET D |->
                   IF s = {} THEN 0
                   ELSE v[CHOOSE x \in s : TRUE] + h[s \ {CHOOSE x \in s : TRUE}]]
<1>1. SumFunction(v) = it[D]
  BY Zenon DEF SumFunction, SumFunctionOnSet, FoldFunctionOnSet, MapThenFoldSet
<1>2. \E h : SumsUp(h, D, v)
  BY SumsExist
<1>3. SumsUp(it, D, v)
  BY <1>2, Zenon DEF SumsUp, Summed, Picked
<1>. QED  BY <1>1, <1>3

\* Risks add up, and closing a position lowers the exposure.
LEMMA ExposureLaws ==
  ASSUME NEW H, IsFiniteSet(H), \A p \in H : p.risk \in Nat
  PROVE  /\ Exposure({}) = 0
         /\ \A T \in SUBSET H : Exposure(T) \in Nat /\ Exposure(T) <= Exposure(H)
         /\ \A p \in H : Exposure(H) = p.risk + Exposure(H \ {p})
<1> DEFINE v == [p \in H |-> p.risk]
<1>1. PICK g : SumsUp(g, H, v) /\ \A T \in SUBSET H : Exposure(T) = g[T]
  BY ExposureSums
<1>2. \A p \in H : v[p] = p.risk /\ v[p] \in Nat
  OBVIOUS
<1> HIDE DEF v
<1>3. H \in SUBSET H /\ {} \in SUBSET H /\ \A p \in H : H \ {p} \in SUBSET H
  OBVIOUS
<1>4. \A T \in SUBSET H :
        g[T] \in Nat /\ \A x \in T : g[T] = v[x] + g[T \ {x}] /\ g[T \ {x}] \in Nat
  BY <1>1, <1>2, SumsPart
<1>5. \A U \in SUBSET H : \A T \in SUBSET U : g[T] <= g[U]
  BY <1>1, <1>2, SumsGrow
<1>6. g[{}] = 0
  BY <1>1, SumsValue
<1>7. \A T \in SUBSET H : Exposure(T) \in Nat /\ Exposure(T) <= Exposure(H)
  BY <1>1, <1>3, <1>4, <1>5
<1>8. \A p \in H : Exposure(H) = p.risk + Exposure(H \ {p})
  BY <1>1, <1>2, <1>3, <1>4
<1>. QED  BY <1>1, <1>3, <1>6, <1>7, <1>8

LEMMA CandidateType ==
  ASSUME TypeOK
  PROVE  /\ DOMAIN pool = 1..Len(pool) /\ Len(pool) \in Nat
         /\ \A c \in DOMAIN pool :
              /\ pool[c].source \in Sources /\ pool[c].symbol \in Symbols
              /\ pool[c].action \in Actions /\ pool[c].status \in Statuses
<1>1. /\ DOMAIN pool = 1..Len(pool) /\ Len(pool) \in Nat
      /\ \A c \in DOMAIN pool : pool[c] \in Candidate
  BY DEF TypeOK
<1>2. \A d \in Candidate : /\ d.source \in Sources /\ d.symbol \in Symbols
                          /\ d.action \in Actions /\ d.status \in Statuses
  BY Zenon DEF Candidate
<1>. QED  BY <1>1, <1>2

\* Every opinion has the weight of the candidates that share it.
LEMMA TallyValue ==
  ASSUME TypeOK, NEW votes, votes \subseteq DOMAIN pool
  PROVE  /\ IsFiniteSet(votes) /\ Behind(votes) \in Nat
         /\ DOMAIN Tally(votes) = Symbols \X Actions
         /\ \A o \in Symbols \X Actions :
              /\ Tally(votes)[o] = Behind({c \in votes : Says(c) = o})
              /\ Tally(votes)[o] \in Nat
<1>1. IsFiniteSet(votes)
  <2>1. DOMAIN pool = 1..Len(pool) /\ Len(pool) \in Nat
    BY CandidateType
  <2>2. IsFiniteSet(DOMAIN pool)
    BY <2>1, FS_Interval
  <2>. QED  BY <2>2, FS_Subset
<1> DEFINE v == [c \in votes |-> Weight[pool[c].source]]
<1>2. PICK g : SumsUp(g, votes, v) /\ \A T \in SUBSET votes : Behind(T) = g[T]
  BY <1>1, BehindSums
<1>3. \A c \in votes : v[c] \in Nat
  <2>1. \A s \in Sources : Weight[s] \in Nat
    BY ConstantsAssumption
  <2>. QED  BY <2>1, CandidateType
<1> HIDE DEF v
<1>4. \A T \in SUBSET votes : g[T] \in Nat
  BY <1>1, <1>2, <1>3, SumsPart
<1>5. \A T \in SUBSET votes : Behind(T) \in Nat
  BY <1>2, <1>4
<1>6. Tally(votes) = [o \in Symbols \X Actions |-> Behind({c \in votes : Says(c) = o})]
  BY Zenon DEF Tally, Behind
<1>7. \A o \in Symbols \X Actions : {c \in votes : Says(c) = o} \in SUBSET votes
  OBVIOUS
<1>8. DOMAIN Tally(votes) = Symbols \X Actions
  BY <1>6
<1>9. \A o \in Symbols \X Actions : Tally(votes)[o] = Behind({c \in votes : Says(c) = o})
  BY <1>6
<1>10. votes \in SUBSET votes
  OBVIOUS
<1>. QED  BY <1>1, <1>5, <1>7, <1>8, <1>9, <1>10

\* A candidate says something.
LEMMA SaysType ==
  ASSUME TypeOK, NEW c \in DOMAIN pool
  PROVE  Says(c) \in Symbols \X Actions
<1>1. \A a \in Symbols, b \in Actions : <<a, b>> \in Symbols \X Actions
  OBVIOUS
<1>. QED  BY <1>1, CandidateType DEF Says

\* A list of candidates.
IsList(list) == \E n \in Nat : list \in [1..n -> DOMAIN pool]

LEMMA ListsAreLists == TypeOK => \A list \in Lists \cup Orders : IsList(list)
<1> SUFFICES ASSUME TypeOK, NEW list \in Lists \cup Orders PROVE IsList(list)
  OBVIOUS
<1>1. DOMAIN pool = 1..Len(pool) /\ Len(pool) \in Nat
  BY CandidateType
<1>2. CASE list = [i \in DOMAIN pool |-> i] \/ list \in Orders
  BY <1>1, <1>2 DEF IsList, Orders
<1>3. CASE \E c \in Newest : list = <<c>>
  <2>1. PICK c \in Newest : list = <<c>>
    BY <1>3
  <2>2. c \in DOMAIN pool
    BY <1>1 DEF Newest
  <2>3. list \in [1..1 -> DOMAIN pool]
    BY <2>1, <2>2
  <2>. QED  BY <2>3 DEF IsList
<1>. QED  BY <1>2, <1>3 DEF Lists

\* The leader is one of those who vote, and nobody's opinion weighs more.
LEMMA LeaderLeads ==
  ASSUME TypeOK, NEW list, IsList(list), NEW votes, votes \subseteq Range(list), votes # {},
         NEW tally, \A o \in Symbols \X Actions : tally[o] \in Nat
  PROVE  /\ Leader(list, votes, tally) \in votes
         /\ \A d \in votes : tally[Says(d)] <= tally[Says(Leader(list, votes, tally))]
<1>1. PICK n \in Nat : list \in [1..n -> DOMAIN pool]
  BY DEF IsList
<1>2. votes \subseteq DOMAIN pool
  BY <1>1 DEF Range
<1>3. \A c \in votes : Says(c) \in Symbols \X Actions
  BY <1>2, SaysType
<1> DEFINE best == {c \in votes : \A d \in votes : tally[Says(d)] <= tally[Says(c)]}
           weigh == [c \in votes |-> tally[Says(c)]]
<1>4. IsFiniteSet(votes)
  BY <1>2, TallyValue
<1>5. \A c \in votes : weigh[c] = tally[Says(c)] /\ weigh[c] \in Int
  BY <1>3
<1>6. PICK b \in votes : \A d \in votes : weigh[d] <= weigh[b]
  <2> HIDE DEF weigh
  <2>. QED  BY <1>4, <1>5, GreatestValue
<1>7. b \in best /\ best \subseteq votes
  BY <1>5, <1>6
<1>8. ASSUME NEW c \in best PROVE Position(list, c) \in Int
  <2>1. PICK i \in 1..n : list[i] = c
    BY <1>1 DEF Range
  <2> DEFINE places == {j \in DOMAIN list : list[j] = c}
  <2>2. i \in places /\ places \subseteq 1..n
    BY <1>1, <2>1
  <2> HIDE DEF places
  <2>3. Min(places) \in places
    BY <2>2, MinMember
  <2>. QED  BY <2>2, <2>3 DEF Position, places
<1> HIDE DEF best
<1>9. \E c \in best : \A d \in best : Position(list, c) <= Position(list, d)
  <2> DEFINE where == [c \in best |-> Position(list, c)]
  <2>1. IsFiniteSet(best)
    BY <1>4, <1>7, FS_Subset
  <2>2. \A c \in best : where[c] = Position(list, c) /\ where[c] \in Int
    BY <1>8
  <2> HIDE DEF where
  <2>3. \E c \in best : \A d \in best : where[c] <= where[d]
    BY <1>7, <2>1, <2>2, LeastValue
  <2>. QED  BY <2>2, <2>3
<1>10. Leader(list, votes, tally)
         = CHOOSE c \in best : \A d \in best : Position(list, c) <= Position(list, d)
  BY Zenon DEF Leader, best
<1>11. Leader(list, votes, tally) \in best
  BY <1>9, <1>10
<1>. QED  BY <1>11 DEF best

\* The opinion behind which the fusion, or the ensemble, puts its weight.
Favoured(list, votes) == Says(Leader(list, votes, Tally(votes)))

\* What the fusion approves is one of the strategies, of the favoured opinion.
LEMMA FusedFound ==
  ASSUME TypeOK, NEW list, IsList(list)
  PROVE  LET valid == Strategies(list)
             opinion == Favoured(list, valid)
         IN  /\ valid \subseteq DOMAIN pool /\ valid \subseteq Range(list)
             /\ IF valid # {} /\ Outweighs(Tally(valid), opinion)
                THEN Fused(list) \in valid /\ Says(Fused(list)) = opinion
                ELSE Fused(list) = 0
<1> DEFINE valid == Strategies(list)
           opinion == Favoured(list, valid)
           behind == {i \in DOMAIN list : list[i] \in valid /\ Says(list[i]) = opinion}
<1>1. PICK n \in Nat : list \in [1..n -> DOMAIN pool]
  BY DEF IsList
<1>2. valid \subseteq DOMAIN pool /\ valid \subseteq Range(list)
  BY <1>1 DEF Strategies, Range
<1>3. Fused(list) = IF valid = {} THEN 0
                    ELSE IF Outweighs(Tally(valid), opinion) THEN list[Min(behind)] ELSE 0
  BY Zenon DEF Fused, Favoured
<1>4. ASSUME valid # {} PROVE list[Min(behind)] \in valid /\ Says(list[Min(behind)]) = opinion
  <2> DEFINE first == Leader(list, valid, Tally(valid))
  <2>1. first \in valid
    <3>1. \A o \in Symbols \X Actions : Tally(valid)[o] \in Nat
      BY <1>2, TallyValue
    <3> HIDE DEF valid
    <3>. QED  BY <1>2, <1>4, <3>1, LeaderLeads
  <2>2. Says(first) = opinion
    BY DEF Favoured
  <2>3. PICK i \in DOMAIN list : list[i] = first
    BY <1>2, <2>1 DEF Range
  <2>4. i \in behind /\ behind \subseteq 1..n
    <3> HIDE DEF valid, first, opinion
    <3>. QED  BY <1>1, <2>1, <2>2, <2>3
  <2> HIDE DEF behind
  <2>5. Min(behind) \in behind
    BY <2>4, MinMember
  <2>. QED  BY <2>5 DEF behind
<1> HIDE DEF valid, opinion, behind
<1>5. IF valid # {} /\ Outweighs(Tally(valid), opinion)
      THEN Fused(list) \in valid /\ Says(Fused(list)) = opinion ELSE Fused(list) = 0
  BY <1>3, <1>4
<1>. QED  BY <1>2, <1>5 DEF valid, opinion

\* What the ensemble approves may be traded, and is of the favoured opinion.
LEMMA ApprovedFound ==
  ASSUME TypeOK, NEW list, IsList(list)
  PROVE  LET votes == Votes(list)
             opinion == Favoured(list, votes)
         IN  /\ votes \subseteq DOMAIN pool /\ votes \subseteq Range(list)
             /\ IF votes # {} /\ ~ Conflict(Tally(votes)) /\ Carries(Tally(votes), opinion)
                THEN /\ Approved(list) \in DOMAIN pool /\ Eligible(Approved(list))
                     /\ Says(Approved(list)) = opinion
                     /\ Approved(list) = Representative(list, opinion)
                ELSE Approved(list) = 0
<1> DEFINE votes == Votes(list)
           opinion == Favoured(list, votes)
           tally == Tally(votes)
           fit == {i \in DOMAIN list : Matches(list[i], opinion)}
<1>1. PICK n \in Nat : list \in [1..n -> DOMAIN pool]
  BY DEF IsList
<1>2. /\ votes \subseteq DOMAIN pool /\ votes \subseteq Range(list)
      /\ \A c \in votes : Eligible(c)
  BY <1>1 DEF Votes, Range
<1>3. Approved(list) = IF votes = {} \/ Conflict(tally) THEN 0
                       ELSE IF Carries(tally, opinion) THEN Representative(list, opinion)
                       ELSE 0
  BY Zenon DEF Approved, Favoured
<1>4. ASSUME votes # {}
      PROVE  LET c == Representative(list, opinion)
             IN  c \in DOMAIN pool /\ Eligible(c) /\ Says(c) = opinion
  <2> DEFINE first == Leader(list, votes, tally)
  <2>1. first \in votes
    <3>1. \A o \in Symbols \X Actions : tally[o] \in Nat
      BY <1>2, TallyValue
    <3> HIDE DEF votes, tally
    <3>. QED  BY <1>2, <1>4, <3>1, LeaderLeads
  <2>2. Says(first) = opinion
    BY DEF Favoured
  <2>3. PICK i \in DOMAIN list : list[i] = first
    BY <1>2, <2>1 DEF Range
  <2>4. i \in fit /\ fit \subseteq 1..n
    <3> HIDE DEF votes, first, opinion
    <3>. QED  BY <1>1, <1>2, <2>1, <2>2, <2>3 DEF Matches
  <2> HIDE DEF fit
  <2>5. Min(fit) \in fit
    BY <2>4, MinMember
  <2>6. Matches(list[Min(fit)], opinion) /\ list[Min(fit)] \in DOMAIN pool
    BY <1>1, <2>5 DEF fit
  <2>7. Representative(list, opinion) = list[Min(fit)]
    BY Zenon DEF Representative, fit
  <2>. QED  BY <2>6, <2>7 DEF Matches
<1> HIDE DEF votes, opinion, tally
<1>5. IF votes # {} /\ ~ Conflict(tally) /\ Carries(tally, opinion)
      THEN /\ Approved(list) \in DOMAIN pool /\ Eligible(Approved(list))
           /\ Says(Approved(list)) = opinion
           /\ Approved(list) = Representative(list, opinion)
      ELSE Approved(list) = 0
  BY <1>3, <1>4
<1>. QED  BY <1>2, <1>5 DEF votes, opinion, tally
-----------------------------------------------------------------------------
(***************************************************************************)
(* Position sizes.                                                         *)
(***************************************************************************)
LEMMA Quotient ==
  ASSUME NEW a \in Nat, NEW b \in Nat, b > 0
  PROVE  a \div b \in Nat /\ (a \div b) * b <= a
OBVIOUS

LEMMA Product ==
  ASSUME NEW a \in Nat, NEW b \in Nat, NEW c \in Nat, NEW d \in Nat, a <= b, c <= d
  PROVE  a * c \in Nat /\ a * c <= b * d
<1>1. a * c <= b * c
  OBVIOUS
<1>2. b * c <= b * d
  OBVIOUS
<1>3. a * c \in Nat /\ b * c \in Nat /\ b * d \in Nat
  OBVIOUS
<1>. QED  BY <1>1, <1>2, <1>3

LEMMA CapitalType ==
  /\ Capital.base \in Nat /\ Capital.policy \in Nat /\ Capital.maxUnits \in Nat
  /\ Capital.maxValue \in Nat /\ Capital.minUnits \in Nat /\ Capital.minUnits > 0
  /\ Capital.minUnits <= Capital.maxUnits
  /\ \A s \in Symbols : StopDistance[s] \in Nat
<1>1. \A c \in [base : Nat, policy : Nat, minUnits : Nat \ {0}, maxUnits : Nat, maxValue : Nat] :
        /\ c.base \in Nat /\ c.policy \in Nat /\ c.maxUnits \in Nat /\ c.maxValue \in Nat
        /\ c.minUnits \in Nat \ {0}
  BY Zenon
<1>2. \A n \in Nat \ {0} : n \in Nat /\ n > 0
  OBVIOUS
<1>. QED  BY <1>1, <1>2, ConstantsAssumption

\* The amount at risk is not raised by multipliers that do not exceed one.
LEMMA RiskAmountBound ==
  ASSUME NEW m \in Nat
  PROVE  RiskAmount(m) \in Nat /\ (m <= 16 => RiskAmount(m) <= Capital.policy)
<1> DEFINE least == Min({Capital.base, Capital.policy})
           sixteen == 16
<1>1. least \in Nat /\ least <= Capital.policy
  BY CapitalType, MinOfTwo
<1>2. RiskAmount(m) = (least * m) \div sixteen
  BY DEF RiskAmount
<1>3. least * m \in Nat /\ (m <= 16 => least * m <= Capital.policy * 16)
  BY <1>1, CapitalType, Product
<1>. QED  BY <1>1, <1>2, <1>3, CapitalType

\* A size that is not refused has a stop, and no more units than the amount pays for.
LEMMA Sizing ==
  ASSUME NEW m \in Nat, NEW stop \in Nat, Units(m, stop) > 0
  PROVE  /\ Clamped(Units(m, stop)) \in Nat /\ Clamped(Units(m, stop)) > 0 /\ stop > 0
         /\ Clamped(Units(m, stop)) * stop \in Nat \ {0}
         /\ Capital.minUnits = 1 /\ m <= 16 => Clamped(Units(m, stop)) * stop <= Capital.policy
<1> DEFINE a == RiskAmount(m)
           u == Units(m, stop)
           c == Clamped(u)
<1>1. a \in Nat /\ (m <= 16 => a <= Capital.policy)
  BY RiskAmountBound
<1>2. stop > 0 /\ u = Min({a \div stop, Capital.maxValue})
  BY DEF Units
<1>3. a \div stop \in Nat /\ (a \div stop) * stop <= a
  BY <1>1, <1>2, Quotient
<1>4. u \in Nat /\ u <= a \div stop
  BY <1>2, <1>3, CapitalType, MinOfTwo
<1>5. c = Max({Capital.minUnits, Min({u, Capital.maxUnits})})
  BY DEF Clamped
<1> HIDE DEF a, u, c
<1>6. Min({u, Capital.maxUnits}) \in Nat /\ Min({u, Capital.maxUnits}) <= u
  BY <1>4, CapitalType, MinOfTwo
<1>7. /\ c \in Nat /\ c >= Capital.minUnits
      /\ c = Capital.minUnits \/ c <= u
  BY <1>5, <1>6, CapitalType, MaxOfTwo
<1>8. u > 0
  BY DEF u
<1>9. c > 0 /\ (Capital.minUnits = 1 => c <= u)
  BY <1>4, <1>7, <1>8, CapitalType
<1>10. c * stop \in Nat \ {0}
  BY <1>2, <1>7, <1>9
<1>11. Capital.minUnits = 1 /\ m <= 16 => c * stop <= Capital.policy
  <2> SUFFICES ASSUME Capital.minUnits = 1, m <= 16 PROVE c * stop <= Capital.policy
    OBVIOUS
  <2>1. c <= a \div stop
    BY <1>3, <1>4, <1>7, <1>9
  <2>2. c * stop <= (a \div stop) * stop /\ (a \div stop) * stop \in Nat
    BY <1>3, <1>7, <2>1, Product
  <2>. QED  BY <1>1, <1>3, <1>10, <2>2, CapitalType
<1>. QED  BY <1>2, <1>7, <1>9, <1>10, <1>11 DEF c, u
-----------------------------------------------------------------------------
(***************************************************************************)
(* Type correctness, and what a decision in flight has in hand.            *)
(***************************************************************************)
LEMMA JobFields ==
  ASSUME TypeOK, NEW f \in Flows
  PROVE  /\ job[f] \in Jobs /\ job[f].c \in 0..MaxSignals /\ job[f].status \in Statuses
         /\ job[f].units \in Nat
BY DEF TypeOK, Jobs

\* What a decision of DecisionEngine may leave in the pool.
LEMMA CandidateStatusType ==
  \A valid, grade, score, advice : CandidateStatus(valid, grade, score, advice) \in Statuses
<1> SUFFICES ASSUME NEW valid, NEW grade, NEW score, NEW advice
             PROVE  CandidateStatus(valid, grade, score, advice) \in Statuses
  OBVIOUS
<1> DEFINE status == StatusFromChannel(grade)
           points == DecisionScore(grade, score, advice)
<1>1. Decided(status, points) \in Statuses
  <2> HIDE DEF status, points
  <2>. QED  BY DEF Decided, Tradable, Statuses
<1>2. CandidateStatus(valid, grade, score, advice)
        \in {Decided(status, points), "OBSERVE_ONLY"}
  BY Zenon DEF CandidateStatus
<1>. QED  BY <1>1, <1>2 DEF Statuses

\* A new candidate is put at the end of the pool.
LEMMA DecideEffect ==
  ASSUME TypeOK, Decide
  PROVE  /\ pool' \in Seq(Candidate) /\ Len(pool') = Len(pool) + 1 /\ Len(pool) < MaxSignals
         /\ DOMAIN pool \subseteq DOMAIN pool'
         /\ \A c \in DOMAIN pool : pool'[c] = pool[c]
         /\ UNCHANGED <<expired, pc, job, positions>>
<1>1. PICK s \in Sources, o \in Opinions, status \in Outcomes :
         pool' = Append(pool, [source |-> s, symbol |-> o[1], action |-> o[2],
                               status |-> status])
  BY DEF Decide
<1>2. status \in Statuses
  BY CandidateStatusType DEF Outcomes
<1>3. o[1] \in Symbols /\ o[2] \in Actions
  BY ConstantsAssumption DEF Actions
<1> DEFINE d == [source |-> s, symbol |-> o[1], action |-> o[2], status |-> status]
<1>4. d \in Candidate
  BY <1>2, <1>3 DEF Candidate
<1> HIDE DEF d
<1>5. pool \in Seq(Candidate) /\ pool' = Append(pool, d)
  BY <1>1 DEF TypeOK, d
<1>6. /\ pool' \in Seq(Candidate) /\ Len(pool') = Len(pool) + 1
      /\ DOMAIN pool \subseteq DOMAIN pool'
      /\ \A c \in DOMAIN pool : pool'[c] = pool[c]
  BY <1>4, <1>5
<1>. QED  BY <1>6 DEF Decide

\* A candidate to go on with, from the ensemble, the fusion or the newest signal.
Chosen(f, c, status) ==
  /\ c \in DOMAIN pool /\ c \in 0..MaxSignals /\ status \in Statuses
  /\ status = "APPROVED_FOR_RISK" => Eligible(c)
  /\ pc[f] = "idle"
  /\ job' = [job EXCEPT ![f] = [c |-> c, status |-> status, units |-> 0]]
  /\ Goto(f, "risk")
  /\ UNCHANGED <<pool, expired, positions>>

LEMMA ChoiceEffect ==
  ASSUME TypeOK, JobsInv, NEW f \in Flows, Ensemble(f) \/ Fuse(f) \/ Direct(f)
  PROVE  \E c, status : Chosen(f, c, status)
<1>1. /\ DOMAIN pool = 1..Len(pool) /\ Len(pool) \in Nat /\ Len(pool) <= MaxSignals
      /\ MaxSignals \in Nat
  BY CandidateType, ConstantsAssumption DEF JobsInv
<1>2. \A c \in DOMAIN pool : pool[c].status \in Statuses
  BY CandidateType
<1>3. \A c \in DOMAIN pool : c \in 0..MaxSignals
  BY <1>1
<1>4. \A c : pool[c].status = "APPROVED_FOR_RISK" => Eligible(c)
  BY DEF Eligible, Tradable
<1>5. CASE Ensemble(f)
  <2>1. PICK list \in Lists :
          /\ Approved(list) # 0
          /\ job' = [job EXCEPT ![f] =
               [c |-> Approved(list), status |-> "APPROVED_FOR_RISK", units |-> 0]]
    BY <1>5 DEF Ensemble
  <2>2. Approved(list) \in DOMAIN pool /\ Eligible(Approved(list))
    <3>1. IsList(list)
      BY ListsAreLists
    <3>. QED  BY <2>1, <3>1, ApprovedFound
  <2>3. "APPROVED_FOR_RISK" \in Statuses
    BY DEF Statuses
  <2>4. Chosen(f, Approved(list), "APPROVED_FOR_RISK")
    BY <1>3, <1>5, <2>1, <2>2, <2>3 DEF Chosen, Ensemble
  <2>. QED  BY <2>4
<1>6. CASE Fuse(f)
  <2>1. PICK list \in Lists :
          /\ Fused(list) # 0
          /\ job' = [job EXCEPT ![f] =
               [c |-> Fused(list), status |-> pool[Fused(list)].status, units |-> 0]]
    BY <1>6 DEF Fuse
  <2>2. Fused(list) \in DOMAIN pool
    <3>1. IsList(list)
      BY ListsAreLists
    <3>. QED  BY <2>1, <3>1, FusedFound
  <2>3. Chosen(f, Fused(list), pool[Fused(list)].status)
    BY <1>2, <1>3, <1>4, <1>6, <2>1, <2>2 DEF Chosen, Fuse
  <2>. QED  BY <2>3
<1>7. CASE Direct(f)
  <2>1. PICK c \in Newest :
          job' = [job EXCEPT ![f] = [c |-> c, status |-> pool[c].status, units |-> 0]]
    BY <1>7 DEF Direct
  <2>2. c \in DOMAIN pool
    BY <1>1 DEF Newest
  <2>3. Chosen(f, c, pool[c].status)
    BY <1>2, <1>3, <1>4, <1>7, <2>1, <2>2 DEF Chosen, Direct
  <2>. QED  BY <2>3
<1>. QED  BY <1>5, <1>6, <1>7

LEMMA AllocateEffect ==
  ASSUME TypeOK, JobsInv, NEW f \in Flows, Allocate(f)
  PROVE  \E units \in Nat :
           /\ job' = [job EXCEPT ![f].units = units]
           /\ units > 0 /\ Stop(f) > 0 /\ Stop(f) \in Nat /\ units * Stop(f) \in Nat \ {0}
           /\ PlainSizing => units * Stop(f) <= Capital.policy
<1>1. PICK m \in Multipliers, score \in ChannelScores :
        /\ Units(m * ChannelMultiplier(score), Stop(f)) > 0
        /\ job' = [job EXCEPT ![f].units =
                     Clamped(Units(m * ChannelMultiplier(score), Stop(f)))]
  BY DEF Allocate
<1> DEFINE k == ChannelMultiplier(score)
<1>2. k \in 0..4
  BY DEF ChannelMultiplier
<1> HIDE DEF k
<1>3. m \in Nat /\ m * k \in Nat /\ (m <= 4 => m * k <= 16)
  BY <1>2, ConstantsAssumption
<1>4. Stop(f) \in Nat
  <2>1. job[f].c \in DOMAIN pool
    BY DEF Allocate, JobsInv
  <2>. QED  BY <2>1, CandidateType, CapitalType DEF Stop
<1> DEFINE units == Clamped(Units(m * k, Stop(f)))
<1>5. /\ units \in Nat /\ units > 0 /\ Stop(f) > 0 /\ units * Stop(f) \in Nat \ {0}
      /\ Capital.minUnits = 1 /\ m * k <= 16 => units * Stop(f) <= Capital.policy
  BY <1>1, <1>3, <1>4, Sizing DEF k
<1>6. job' = [job EXCEPT ![f].units = units]
  BY <1>1 DEF k
<1> HIDE DEF units
<1>7. PlainSizing => units * Stop(f) <= Capital.policy
  BY <1>3, <1>5 DEF PlainSizing
<1>. QED  BY <1>4, <1>5, <1>6, <1>7

\* What a decision that goes back to its caller leaves behind.
LEMMA LeaveEffect ==
  ASSUME TypeOK, NEW f \in Flows, Leave(f)
  PROVE  /\ pc' = [pc EXCEPT ![f] = "idle"] /\ pc'[f] = "idle"
         /\ \A g \in Flows : g # f => pc'[g] = pc[g] /\ job'[g] = job[g]
         /\ job' \in [Flows -> Jobs] /\ pc' \in [Flows -> {"idle", "risk", "allocate", "execute"}]
         /\ UNCHANGED <<pool, expired>>
<1>1. NoJob \in Jobs
  BY ConstantsAssumption DEF NoJob, Jobs, Statuses
<1>. QED  BY <1>1 DEF Leave, Goto, TypeOK

\* What is so of the jobs of the others stays so while the pool grows.
LEMMA JobsKept ==
  ASSUME TypeOK, JobsInv, Len(pool') <= MaxSignals, DOMAIN pool \subseteq DOMAIN pool',
         \A c \in DOMAIN pool : pool'[c] = pool[c],
         NEW f \in Flows, pc'[f] = pc[f], job'[f] = job[f]
  PROVE  /\ pc'[f] # "idle" => job'[f].c \in DOMAIN pool'
         /\ pc'[f] # "idle" /\ job'[f].status = "APPROVED_FOR_RISK" => Eligible(job[f].c)'
         /\ pc'[f] \in Approvals => job'[f].status = "APPROVED_FOR_RISK"
         /\ pc'[f] = "execute" => job'[f].units > 0 /\ Stop(f)' > 0
         /\ pc[f] # "idle" => Stop(f)' = Stop(f)
<1>1. pc[f] # "idle" => pool'[job[f].c] = pool[job[f].c]
  BY DEF JobsInv
<1>2. pc[f] # "idle" => Stop(f)' = Stop(f)
  BY <1>1 DEF Stop
<1>3. pc[f] # "idle" => (Eligible(job[f].c) => Eligible(job[f].c)')
  BY <1>1 DEF Eligible
<1>. QED  BY <1>2, <1>3 DEF JobsInv

LEMMA InitType == Init => TypeOK /\ JobsInv
<1> SUFFICES ASSUME Init PROVE TypeOK /\ JobsInv
  OBVIOUS
<1>1. NoJob \in Jobs
  BY ConstantsAssumption DEF NoJob, Jobs, Statuses
<1>2. pool \in Seq(Candidate) /\ expired \in 0..Len(pool) /\ Len(pool) = 0
  BY DEF Init
<1>. QED  BY <1>1, <1>2, ConstantsAssumption DEF Init, TypeOK, JobsInv, Approvals

LEMMA NextType == TypeOK /\ JobsInv /\ [Next]_vars => TypeOK' /\ JobsInv'
<1> SUFFICES ASSUME TypeOK, JobsInv, [Next]_vars PROVE TypeOK' /\ JobsInv'
  OBVIOUS
<1> USE DEF Approvals
<1>0. /\ DOMAIN pool = 1..Len(pool) /\ Len(pool) \in Nat /\ Len(pool) <= MaxSignals
      /\ MaxSignals \in Nat /\ pool \in Seq(Candidate) /\ expired \in 0..Len(pool)
      /\ positions \subseteq [c : DOMAIN pool, risk : Nat \ {0}]
      /\ pc \in [Flows -> {"idle", "risk", "allocate", "execute"}]
      /\ job \in [Flows -> Jobs]
  BY CandidateType, ConstantsAssumption DEF JobsInv, TypeOK
<1>a. ASSUME pool' = pool, NEW f \in Flows, pc'[f] = pc[f], job'[f] = job[f]
      PROVE  /\ pc'[f] # "idle" => job'[f].c \in DOMAIN pool'
             /\ pc'[f] # "idle" /\ job'[f].status = "APPROVED_FOR_RISK" => Eligible(job[f].c)'
             /\ pc'[f] \in Approvals => job'[f].status = "APPROVED_FOR_RISK"
             /\ pc'[f] = "execute" => job'[f].units > 0 /\ Stop(f)' > 0
  BY <1>0, <1>a, JobsKept
<1>1. CASE Decide
  <2>1. /\ pool' \in Seq(Candidate) /\ Len(pool') = Len(pool) + 1 /\ Len(pool) < MaxSignals
        /\ DOMAIN pool \subseteq DOMAIN pool'
        /\ \A c \in DOMAIN pool : pool'[c] = pool[c]
        /\ UNCHANGED <<expired, pc, job, positions>>
    BY <1>1, DecideEffect
  <2>2. Len(pool') <= MaxSignals /\ expired' \in 0..Len(pool')
    BY <1>0, <2>1
  <2>3. positions' \subseteq [c : DOMAIN pool', risk : Nat \ {0}]
    BY <1>0, <2>1
  <2>4. TypeOK'
    BY <1>0, <2>1, <2>2, <2>3 DEF TypeOK
  <2>5. JobsInv'
    BY <2>1, <2>2, JobsKept DEF JobsInv
  <2>. QED  BY <2>4, <2>5
<1>2. CASE Age \/ UNCHANGED vars
  <2>1. /\ pool' = pool /\ pc' = pc /\ job' = job /\ positions' = positions
        /\ expired' \in 0..Len(pool)
    BY <1>0, <1>2 DEF Age, vars
  <2>. QED  BY <1>0, <1>a, <2>1 DEF TypeOK, JobsInv
<1>3. CASE Close
  <2>1. pool' = pool /\ expired' = expired /\ pc' = pc /\ job' = job /\ positions' \subseteq positions
    BY <1>3 DEF Close
  <2>. QED  BY <1>0, <1>a, <2>1 DEF TypeOK, JobsInv
<1>4. ASSUME NEW f \in Flows, Ensemble(f) \/ Fuse(f) \/ Direct(f) PROVE TypeOK' /\ JobsInv'
  <2>1. PICK c, status : Chosen(f, c, status)
    BY <1>4, ChoiceEffect
  <2>2. [c |-> c, status |-> status, units |-> 0] \in Jobs
    BY <2>1 DEF Chosen, Jobs
  <2>3. /\ pool' = pool /\ expired' = expired /\ positions' = positions
        /\ pc' \in [Flows -> {"idle", "risk", "allocate", "execute"}] /\ job' \in [Flows -> Jobs]
        /\ pc'[f] = "risk" /\ job'[f].c = c /\ job'[f].status = status
        /\ \A g \in Flows : g # f => pc'[g] = pc[g] /\ job'[g] = job[g]
    BY <1>0, <2>1, <2>2 DEF Chosen, Goto
  <2>4. /\ job'[f].c \in DOMAIN pool'
        /\ job'[f].status = "APPROVED_FOR_RISK" => Eligible(job[f].c)'
    BY <2>1, <2>3 DEF Chosen, Eligible
  <2>. QED  BY <1>0, <1>a, <2>3, <2>4 DEF TypeOK, JobsInv
<1>5. ASSUME NEW f \in Flows, AssessRisk(f) PROVE TypeOK' /\ JobsInv'
  <2>1. /\ pool' = pool /\ expired' = expired /\ positions' = positions /\ job' = job
        /\ pc' \in [Flows -> {"idle", "risk", "allocate", "execute"}]
        /\ pc[f] = "risk" /\ pc'[f] = "allocate" /\ job[f].status = "APPROVED_FOR_RISK"
        /\ \A g \in Flows : g # f => pc'[g] = pc[g]
    BY <1>0, <1>5 DEF AssessRisk, Goto
  <2>2. job'[f].c \in DOMAIN pool' /\ Eligible(job[f].c)'
    BY <2>1 DEF JobsInv, Eligible
  <2>. QED  BY <1>0, <1>a, <2>1, <2>2 DEF TypeOK, JobsInv
<1>6. ASSUME NEW f \in Flows, RefuseRisk(f) \/ Abandon(f) PROVE TypeOK' /\ JobsInv'
  <2>1. Leave(f) /\ positions' = positions
    BY <1>6 DEF RefuseRisk, Abandon
  <2>2. /\ pc'[f] = "idle" /\ pool' = pool /\ expired' = expired
        /\ \A g \in Flows : g # f => pc'[g] = pc[g] /\ job'[g] = job[g]
        /\ job' \in [Flows -> Jobs] /\ pc' \in [Flows -> {"idle", "risk", "allocate", "execute"}]
    BY <2>1, LeaveEffect
  <2>. QED  BY <1>0, <1>a, <2>1, <2>2 DEF TypeOK, JobsInv
<1>7. ASSUME NEW f \in Flows, Allocate(f) PROVE TypeOK' /\ JobsInv'
  <2>1. PICK units \in Nat : /\ job' = [job EXCEPT ![f].units = units]
                             /\ units > 0 /\ Stop(f) > 0
    BY <1>7, AllocateEffect
  <2>2. /\ pool' = pool /\ expired' = expired /\ positions' = positions /\ pc[f] = "allocate"
        /\ pc' \in [Flows -> {"idle", "risk", "allocate", "execute"}]
        /\ pc'[f] = "execute" /\ \A g \in Flows : g # f => pc'[g] = pc[g]
    BY <1>0, <1>7 DEF Allocate, Goto
  <2>3. /\ job' \in [Flows -> Jobs] /\ job'[f].units = units
        /\ job'[f].c = job[f].c /\ job'[f].status = job[f].status
        /\ \A g \in Flows : g # f => job'[g] = job[g]
    BY <1>0, <2>1 DEF Jobs
  <2>4. Stop(f)' = Stop(f)
    BY <2>2, <2>3 DEF Stop
  <2>5. /\ job'[f].c \in DOMAIN pool' /\ Eligible(job[f].c)'
        /\ job'[f].status = "APPROVED_FOR_RISK"
    BY <2>2, <2>3 DEF JobsInv, Eligible
  <2>. QED  BY <1>0, <1>a, <2>1, <2>2, <2>3, <2>4, <2>5 DEF TypeOK, JobsInv
<1>8. ASSUME NEW f \in Flows, Execute(f) PROVE TypeOK' /\ JobsInv'
  <2>1. /\ Leave(f) /\ pc[f] = "execute"
        /\ positions' = positions \cup {[c |-> job[f].c, risk |-> job[f].units * Stop(f)]}
    BY <1>8 DEF Execute
  <2>2. /\ pc'[f] = "idle" /\ pool' = pool /\ expired' = expired
        /\ \A g \in Flows : g # f => pc'[g] = pc[g] /\ job'[g] = job[g]
        /\ job' \in [Flows -> Jobs] /\ pc' \in [Flows -> {"idle", "risk", "allocate", "execute"}]
    BY <2>1, LeaveEffect
  <2>3. job[f].c \in DOMAIN pool /\ job[f].units > 0 /\ Stop(f) > 0
    BY <2>1 DEF JobsInv
  <2>4. job[f].units \in Nat /\ Stop(f) \in Nat
    BY <2>3, JobFields, CandidateType, CapitalType DEF Stop
  <2>5. job[f].units * Stop(f) \in Nat \ {0}
    BY <2>3, <2>4
  <2>6. positions' \subseteq [c : DOMAIN pool', risk : Nat \ {0}]
    BY <1>0, <2>1, <2>2, <2>3, <2>5
  <2>. QED  BY <1>0, <1>a, <2>2, <2>6 DEF TypeOK, JobsInv
<1>. QED
  BY <1>1, <1>2, <1>3, <1>4, <1>5, <1>6, <1>7, <1>8 DEF Next

\* Every variable of the pipeline keeps its type.
THEOREM TypeCorrect == Spec => []TypeOK
<1>1. TypeOK /\ JobsInv /\ [Next]_vars => (TypeOK /\ JobsInv)'
  BY NextType
<1>. QED  BY <1>1, InitType, PTL DEF Spec
-----------------------------------------------------------------------------
(***************************************************************************)
(* What becomes a position, and its risk.                                  *)
(***************************************************************************)

\* Only an execution opens a position, and no candidate changes in the pool.
LEMMA PositionsStep ==
  ASSUME TypeOK, JobsInv, [Next]_vars
  PROVE  /\ \A c \in DOMAIN pool : c \in DOMAIN pool' /\ pool'[c] = pool[c]
         /\ \/ positions' \subseteq positions
            \/ \E f \in Flows :
                 /\ Execute(f)
                 /\ positions' = positions \cup {[c |-> job[f].c, risk |-> job[f].units * Stop(f)]}
<1>1. CASE Decide
  BY <1>1, DecideEffect
<1>2. CASE Age \/ Close \/ UNCHANGED vars
  BY <1>2 DEF Age, Close, vars
<1>3. ASSUME NEW f \in Flows,
             \/ Ensemble(f) \/ Fuse(f) \/ Direct(f) \/ AssessRisk(f) \/ RefuseRisk(f)
             \/ Allocate(f) \/ Abandon(f)
      PROVE  pool' = pool /\ positions' = positions
  BY <1>3 DEF Ensemble, Fuse, Direct, AssessRisk, RefuseRisk, Allocate, Abandon, Leave
<1>4. ASSUME NEW f \in Flows, Execute(f)
      PROVE  /\ pool' = pool
             /\ positions' = positions \cup {[c |-> job[f].c, risk |-> job[f].units * Stop(f)]}
  BY <1>4 DEF Execute, Leave
<1>. QED  BY <1>1, <1>2, <1>3, <1>4 DEF Next

\* A signal that was held back or rejected never leads to a position, whichever of
\* the ensemble, the fusion and the direct way it goes: what the risk engine lets
\* through as approved is a candidate that may be traded.
THEOREM OnlyTradable == Spec => []OnlyTradableTraded
<1> DEFINE I == TypeOK /\ JobsInv /\ OnlyTradableTraded
<1>1. Init => I
  BY InitType DEF Init, OnlyTradableTraded
<1>2. I /\ [Next]_vars => I'
  <2> SUFFICES ASSUME I, [Next]_vars PROVE OnlyTradableTraded'
    BY NextType
  <2>1. /\ \A c \in DOMAIN pool : pool'[c] = pool[c]
        /\ \/ positions' \subseteq positions
           \/ \E f \in Flows :
                /\ Execute(f)
                /\ positions' = positions \cup {[c |-> job[f].c, risk |-> job[f].units * Stop(f)]}
    BY PositionsStep
  <2>2. ASSUME NEW c \in DOMAIN pool, Eligible(c) PROVE pool'[c].status \in Tradable
    BY <2>1, <2>2 DEF Eligible
  <2>3. \A p \in positions : pool'[p.c].status \in Tradable
    BY <2>2 DEF TypeOK, OnlyTradableTraded
  <2>4. CASE positions' \subseteq positions
    BY <2>3, <2>4 DEF OnlyTradableTraded, Eligible
  <2>5. ASSUME NEW f \in Flows, Execute(f),
               positions' = positions \cup {[c |-> job[f].c, risk |-> job[f].units * Stop(f)]}
        PROVE  OnlyTradableTraded'
    <3>1. job[f].c \in DOMAIN pool /\ Eligible(job[f].c)
      BY <2>5 DEF Execute, JobsInv, Approvals
    <3>2. pool'[job[f].c].status \in Tradable
      BY <2>2, <3>1
    <3>. QED  BY <2>3, <2>5, <3>2 DEF OnlyTradableTraded, Eligible
  <2>. QED  BY <2>1, <2>4, <2>5
<1>. QED  BY <1>1, <1>2, PTL DEF Spec

\* A position risks no more than the policy allows a trade: rounding is downwards and
\* the clamp to min_units cannot raise a size, if a single unit may be traded and no
\* multiplier exceeds one.  What is sized stays so while the portfolio changes.
LEMMA NextBudget == PlainSizing /\ TypeOK /\ JobsInv /\ BudgetInv /\ [Next]_vars => BudgetInv'
<1> SUFFICES ASSUME PlainSizing, TypeOK, JobsInv, BudgetInv, [Next]_vars PROVE BudgetInv'
  OBVIOUS
<1>0. /\ job \in [Flows -> Jobs] /\ pc \in [Flows -> {"idle", "risk", "allocate", "execute"}]
      /\ \A c \in DOMAIN pool : pool'[c] = pool[c]
      /\ \A f \in Flows : pc[f] = "execute" => job[f].c \in DOMAIN pool
  BY PositionsStep DEF TypeOK, JobsInv
<1>1. ASSUME NEW f \in Flows, pc'[f] = "execute", pc[f] = "execute", job'[f] = job[f]
      PROVE  job'[f].units * Stop(f)' <= Capital.policy
  <2>1. Stop(f)' = Stop(f)
    BY <1>0, <1>1 DEF Stop
  <2>. QED  BY <1>1, <2>1 DEF BudgetInv
<1>2. ASSUME NEW f \in Flows, Allocate(f)
      PROVE  job'[f].units * Stop(f)' <= Capital.policy
  <2>1. PICK units \in Nat : /\ job' = [job EXCEPT ![f].units = units]
                             /\ units * Stop(f) <= Capital.policy
    BY <1>2, AllocateEffect
  <2>2. job'[f].units = units /\ job'[f].c = job[f].c /\ pool' = pool
    BY <1>0, <1>2, <2>1 DEF Allocate, Jobs
  <2>3. Stop(f)' = Stop(f)
    BY <2>2 DEF Stop
  <2>. QED  BY <2>1, <2>2, <2>3
<1>3. ASSUME NEW f \in Flows, pc'[f] = "execute"
      PROVE  Allocate(f) \/ (pc[f] = "execute" /\ job'[f] = job[f])
  <2>1. CASE Decide \/ Age \/ Close \/ UNCHANGED vars
    BY <1>3, <2>1 DEF Decide, Age, Close, vars
  <2>2. ASSUME NEW g \in Flows, Ensemble(g) \/ Fuse(g) \/ Direct(g) \/ RefuseRisk(g)
                                  \/ Abandon(g) \/ Execute(g)
        PROVE  pc'[g] # "execute" /\ (g # f => pc'[f] = pc[f] /\ job'[f] = job[f])
    BY <1>0, <2>2 DEF Ensemble, Fuse, Direct, RefuseRisk, Abandon, Execute, Leave, Goto
  <2>3. ASSUME NEW g \in Flows, AssessRisk(g) \/ Allocate(g)
        PROVE  /\ AssessRisk(g) => pc'[g] # "execute"
               /\ g # f => pc'[f] = pc[f] /\ job'[f] = job[f]
    BY <1>0, <2>3 DEF AssessRisk, Allocate, Goto
  <2>. QED  BY <1>3, <2>1, <2>2, <2>3 DEF Next
<1>4. \A f \in Flows : pc'[f] = "execute" => job'[f].units * Stop(f)' <= Capital.policy
  BY <1>1, <1>2, <1>3
<1>5. RiskWithinBudget'
  <2>1. CASE positions' \subseteq positions
    BY <2>1 DEF BudgetInv, RiskWithinBudget
  <2>2. ASSUME NEW f \in Flows, Execute(f),
               positions' = positions \cup {[c |-> job[f].c, risk |-> job[f].units * Stop(f)]}
        PROVE  RiskWithinBudget'
    <3>1. job[f].units * Stop(f) <= Capital.policy
      BY <2>2 DEF Execute, BudgetInv
    <3>. QED  BY <2>2, <3>1 DEF BudgetInv, RiskWithinBudget
  <2>. QED  BY <2>1, <2>2, PositionsStep
<1>. QED  BY <1>4, <1>5 DEF BudgetInv

\* No rounding, cap, clamp or multiplier makes a position risk more than the policy's
\* amount, as long as the multipliers are at most one and a single unit may be traded.
THEOREM RiskBounded == PlainSizing => (Spec => []RiskWithinBudget)
<1> SUFFICES ASSUME PlainSizing PROVE Spec => []RiskWithinBudget
  OBVIOUS
<1> DEFINE I == TypeOK /\ JobsInv /\ BudgetInv
<1>1. Init => I
  <2>1. Init => BudgetInv
    BY DEF Init, BudgetInv, RiskWithinBudget
  <2>. QED  BY <2>1, InitType
<1>2. I /\ [Next]_vars => I'
  BY NextType, NextBudget
<1>3. I => RiskWithinBudget
  BY DEF BudgetInv
<1>. QED  BY <1>1, <1>2, <1>3, PTL DEF Spec
-----------------------------------------------------------------------------
(***************************************************************************)
(* How far the limits can be overrun.                                      *)
(***************************************************************************)
SomeFlows == IsFiniteSet(Flows) /\ Flows # {}

LEMMA LimitsType ==
  /\ Limits.trades \in Nat /\ Limits.symbol \in Nat /\ Limits.source \in Nat
  /\ Limits.account \in Nat
<1>1. \A l \in [trades : Nat, symbol : Nat, source : Nat, account : Nat] :
        l.trades \in Nat /\ l.symbol \in Nat /\ l.source \in Nat /\ l.account \in Nat
  BY Zenon
<1>. QED  BY <1>1, ConstantsAssumption

\* The room kept for decisions covers what they do: some are given up and positions are
\* closed; the limit is looked at again; or one more position is opened.
LEMMA ReservedStep ==
  ASSUME SomeFlows, NEW limit \in Nat, NEW P, NEW Q, NEW D, NEW E,
         IsFiniteSet(P), \A p \in P : p.risk \in Nat, D \subseteq Flows,
         Reserved(P, D, limit),
         \/ Q \subseteq P /\ E \subseteq D
         \/ Q \subseteq P /\ E \subseteq Flows /\ Exposure(P) < limit
         \/ \E p : \E f \in D : /\ Q \subseteq P \cup {p} /\ E \subseteq D \ {f}
                                /\ p.risk \in Nat /\ p.risk <= Capital.policy
  PROVE  Reserved(Q, E, limit)
<1> DEFINE n == Cardinality(Flows)
           q == Capital.policy
<1>1. n \in Nat /\ q \in Nat /\ n * q \in Nat
  <2>1. n \in Nat
    BY FS_CardinalityType DEF SomeFlows
  <2>. QED  BY <2>1, CapitalType
<1>2. Exposure(P) \in Nat /\ \A T \in SUBSET P : Exposure(T) \in Nat /\ Exposure(T) <= Exposure(P)
  BY ExposureLaws
<1>3. IsFiniteSet(D) /\ Cardinality(D) \in Nat /\ Cardinality(D) <= n
  BY FS_Subset, FS_CardinalityType DEF SomeFlows
<1>4. Exposure(P) + Cardinality(D) * q < limit + n * q
  BY DEF Reserved
<1> HIDE DEF n, q
<1>5. CASE Q \subseteq P /\ E \subseteq D
  <2>1. Cardinality(E) \in Nat /\ Cardinality(E) <= Cardinality(D)
    BY <1>3, <1>5, FS_Subset, FS_CardinalityType
  <2>2. Cardinality(E) * q \in Nat /\ Cardinality(E) * q <= Cardinality(D) * q
        /\ Cardinality(D) * q \in Nat
    BY <1>1, <1>3, <2>1, Product
  <2>3. Exposure(Q) \in Nat /\ Exposure(Q) <= Exposure(P)
    BY <1>2, <1>5
  <2>. QED  BY <1>1, <1>2, <1>4, <2>2, <2>3 DEF Reserved, n, q
<1>6. CASE Q \subseteq P /\ E \subseteq Flows /\ Exposure(P) < limit
  <2>1. Cardinality(E) \in Nat /\ Cardinality(E) <= n
    BY <1>6, FS_Subset, FS_CardinalityType DEF SomeFlows, n
  <2>2. Cardinality(E) * q \in Nat /\ Cardinality(E) * q <= n * q
    BY <1>1, <2>1, Product
  <2>3. Exposure(Q) \in Nat /\ Exposure(Q) <= Exposure(P)
    BY <1>2, <1>6
  <2>. QED  BY <1>1, <1>2, <1>6, <2>2, <2>3 DEF Reserved, n, q
<1>7. ASSUME NEW f \in D, NEW p, Q \subseteq P \cup {p}, E \subseteq D \ {f},
             p.risk \in Nat, p.risk <= q
      PROVE  Reserved(Q, E, limit)
  <2> DEFINE H == P \cup {p}
  <2>1. IsFiniteSet(H) /\ \A r \in H : r.risk \in Nat
    BY <1>7, FS_AddElement
  <2>2. /\ Exposure(H) = p.risk + Exposure(H \ {p})
        /\ \A T \in SUBSET H : Exposure(T) \in Nat /\ Exposure(T) <= Exposure(H)
    <3>1. p \in H
      OBVIOUS
    <3> HIDE DEF H
    <3>. QED  BY <2>1, <3>1, ExposureLaws
  <2>3. Exposure(H \ {p}) \in Nat /\ Exposure(H \ {p}) <= Exposure(P)
    <3>1. H \ {p} \in SUBSET P
      OBVIOUS
    <3>. QED  BY <1>2, <3>1
  <2>4. Exposure(Q) \in Nat /\ Exposure(Q) <= Exposure(P) + q
    <3>1. Q \in SUBSET H /\ H \in SUBSET H
      BY <1>7
    <3> HIDE DEF H
    <3>. QED  BY <1>1, <1>2, <1>7, <2>2, <2>3, <3>1
  <2>5. Cardinality(E) \in Nat /\ Cardinality(E) + 1 <= Cardinality(D)
    <3>1. IsFiniteSet(D \ {f}) /\ Cardinality(D \ {f}) = Cardinality(D) - 1
      BY <1>3, FS_RemoveElement
    <3>. QED  BY <1>3, <1>7, <3>1, FS_Subset, FS_CardinalityType
  <2>6. Cardinality(E) * q \in Nat /\ Cardinality(E) * q + q <= Cardinality(D) * q
        /\ Cardinality(D) * q \in Nat
    <3>1. (Cardinality(E) + 1) * q <= Cardinality(D) * q
      BY <1>1, <1>3, <2>5, Product
    <3>2. (Cardinality(E) + 1) * q = Cardinality(E) * q + q
      BY <1>1, <2>5
    <3>. QED  BY <1>1, <1>3, <2>5, <3>1, <3>2
  <2>. QED  BY <1>1, <1>2, <1>4, <2>4, <2>6 DEF Reserved, n, q
<1>. QED  BY <1>5, <1>6, <1>7 DEF q

\* A step leaves the decisions in flight and the positions as they are or takes some
\* away, lets one more decision through the risk engine, or makes one a position.
Calm ==
  /\ positions' \subseteq positions
  /\ InFlight' \subseteq InFlight
  /\ \A f \in InFlight' : job'[f].c = job[f].c

LetThrough(f) ==
  /\ WithinLimits(job[f].c)
  /\ positions' = positions /\ InFlight' = InFlight \cup {f}
  /\ pool' = pool /\ job' = job

Opened(f) ==
  /\ f \in InFlight
  /\ positions' = positions \cup {[c |-> job[f].c, risk |-> job[f].units * Stop(f)]}
  /\ InFlight' = InFlight \ {f}
  /\ pool' = pool /\ \A g \in InFlight' : job'[g].c = job[g].c

LEMMA FlightStep ==
  ASSUME TypeOK, JobsInv, [Next]_vars
  PROVE  \/ Calm
         \/ \E f \in Flows : LetThrough(f)
         \/ \E f \in Flows : pc[f] = "execute" /\ Opened(f)
<1>0. /\ job \in [Flows -> Jobs] /\ pc \in [Flows -> {"idle", "risk", "allocate", "execute"}]
  BY DEF TypeOK
<1>1. CASE Decide \/ Age \/ Close \/ UNCHANGED vars
  BY <1>1 DEF Decide, Age, Close, vars, Calm, InFlight
<1>2. ASSUME NEW f \in Flows, Ensemble(f) \/ Fuse(f) \/ Direct(f) \/ RefuseRisk(f) \/ Abandon(f)
      PROVE  Calm
  <2>1. /\ positions' = positions /\ pc'[f] \notin Approvals
        /\ \A g \in Flows : g # f => pc'[g] = pc[g] /\ job'[g] = job[g]
    <3>1. CASE Ensemble(f) \/ Fuse(f) \/ Direct(f)
      BY <1>0, <3>1, ChoiceEffect DEF Chosen, Goto, Approvals
    <3>2. CASE RefuseRisk(f) \/ Abandon(f)
      BY <3>2, LeaveEffect DEF RefuseRisk, Abandon, Approvals
    <3>. QED  BY <1>2, <3>1, <3>2
  <2>. QED  BY <2>1 DEF Calm, InFlight
<1>3. ASSUME NEW f \in Flows, Allocate(f) PROVE Calm
  <2>1. PICK units \in Nat : job' = [job EXCEPT ![f].units = units]
    BY <1>3, AllocateEffect
  <2>2. \A g \in Flows : job'[g].c = job[g].c
    BY <1>0, <2>1 DEF Jobs
  <2>3. positions' = positions /\ pc[f] \in Approvals
        /\ \A g \in Flows : g # f => pc'[g] = pc[g]
    BY <1>0, <1>3 DEF Allocate, Goto, Approvals
  <2>. QED  BY <2>2, <2>3 DEF Calm, InFlight
<1>4. ASSUME NEW f \in Flows, AssessRisk(f) PROVE LetThrough(f)
  <2>1. pc' = [pc EXCEPT ![f] = "allocate"]
    BY <1>4 DEF AssessRisk, Goto
  <2>2. InFlight' = InFlight \cup {f}
    BY <1>0, <2>1 DEF InFlight, Approvals
  <2>. QED  BY <1>4, <2>2 DEF AssessRisk, LetThrough
<1>5. ASSUME NEW f \in Flows, Execute(f) PROVE pc[f] = "execute" /\ Opened(f)
  <2>1. /\ pc[f] = "execute" /\ pc'[f] = "idle" /\ pool' = pool
        /\ \A g \in Flows : g # f => pc'[g] = pc[g] /\ job'[g] = job[g]
    BY <1>5, LeaveEffect DEF Execute
  <2>2. f \in InFlight /\ InFlight' = InFlight \ {f}
    BY <2>1 DEF InFlight, Approvals
  <2>. QED  BY <1>5, <2>1, <2>2 DEF Execute, Opened, InFlight
<1>. QED  BY <1>1, <1>2, <1>3, <1>4, <1>5 DEF Next

LEMMA NextExposure ==
  SomeFlows /\ PlainSizing /\ TypeOK /\ JobsInv /\ BudgetInv /\ ExposureInv /\ [Next]_vars
    => ExposureInv'
<1> SUFFICES ASSUME SomeFlows, PlainSizing, TypeOK, JobsInv, BudgetInv, ExposureInv, [Next]_vars
             PROVE  ExposureInv'
  OBVIOUS
<1>0. /\ IsFiniteSet(positions) /\ \A p \in positions : p.c \in DOMAIN pool /\ p.risk \in Nat
      /\ InFlight \subseteq Flows /\ InFlight' \subseteq Flows
      /\ \A f \in InFlight : job[f].c \in DOMAIN pool
  BY DEF ExposureInv, TypeOK, InFlight, JobsInv, Approvals
<1>1. \A c \in DOMAIN pool : pool'[c] = pool[c]
  BY PositionsStep
<1>2. /\ \A s : IsFiniteSet(OfSymbol(s)) /\ IsFiniteSet(OfSource(s))
      /\ \A s : \A p \in OfSymbol(s) \cup OfSource(s) : p.risk \in Nat
      /\ \A s : FlightOfSymbol(s) \subseteq Flows /\ FlightOfSource(s) \subseteq Flows
  <2>1. \A s : OfSymbol(s) \subseteq positions /\ OfSource(s) \subseteq positions
    BY DEF OfSymbol, OfSource
  <2>. QED  BY <1>0, <2>1, FS_Subset DEF FlightOfSymbol, FlightOfSource
<1>3. /\ Reserved(positions, InFlight, Limits.account)
      /\ \A s \in Symbols : Reserved(OfSymbol(s), FlightOfSymbol(s), Limits.symbol)
      /\ \A s \in Sources : Reserved(OfSource(s), FlightOfSource(s), Limits.source)
  BY DEF ExposureInv
<1>4. IsFiniteSet(positions') /\ Cardinality(positions') \in Nat
      /\ IsFiniteSet(InFlight) /\ IsFiniteSet(InFlight')
      /\ Cardinality(InFlight) \in Nat /\ Cardinality(InFlight') \in Nat
      /\ Cardinality(Flows) \in Nat /\ Cardinality(InFlight') <= Cardinality(Flows)
  <2>1. IsFiniteSet(positions')
    <3>1. CASE positions' \subseteq positions
      BY <1>0, <3>1, FS_Subset
    <3>2. ASSUME NEW p, positions' = positions \cup {p} PROVE IsFiniteSet(positions')
      BY <1>0, <3>2, FS_AddElement
    <3>. QED  BY <3>1, <3>2, PositionsStep
  <2>. QED  BY <1>0, <2>1, FS_Subset, FS_CardinalityType DEF SomeFlows
<1>5. CASE Calm
  <2>1. /\ \A s : OfSymbol(s)' \subseteq OfSymbol(s) /\ OfSource(s)' \subseteq OfSource(s)
        /\ \A s : FlightOfSymbol(s)' \subseteq FlightOfSymbol(s)
        /\ \A s : FlightOfSource(s)' \subseteq FlightOfSource(s)
    BY <1>0, <1>1, <1>5 DEF Calm, OfSymbol, OfSource, FlightOfSymbol, FlightOfSource
  <2>2. Cardinality(positions') <= Cardinality(positions)
        /\ Cardinality(InFlight') <= Cardinality(InFlight)
    BY <1>0, <1>4, <1>5, FS_Subset DEF Calm
  <2>3. Cardinality(positions') + Cardinality(InFlight') < Limits.trades + Cardinality(Flows)
    BY <1>0, <1>4, <2>2, LimitsType, FS_CardinalityType DEF ExposureInv
  <2>4. Reserved(positions', InFlight', Limits.account)
    BY <1>0, <1>3, <1>5, LimitsType, ReservedStep DEF Calm
  <2>5. \A s \in Symbols : Reserved(OfSymbol(s)', FlightOfSymbol(s)', Limits.symbol)
    BY <1>2, <1>3, <2>1, LimitsType, ReservedStep
  <2>6. \A s \in Sources : Reserved(OfSource(s)', FlightOfSource(s)', Limits.source)
    BY <1>2, <1>3, <2>1, LimitsType, ReservedStep
  <2>. QED  BY <1>4, <2>3, <2>4, <2>5, <2>6 DEF ExposureInv
<1>6. ASSUME NEW f \in Flows, LetThrough(f) PROVE ExposureInv'
  <2> DEFINE c == job[f].c
  <2>1. /\ WithinLimits(c) /\ positions' = positions /\ pool' = pool /\ job' = job
        /\ InFlight' = InFlight \cup {f}
    BY <1>6 DEF LetThrough
  <2>2. /\ \A s : OfSymbol(s)' = OfSymbol(s) /\ OfSource(s)' = OfSource(s)
        /\ \A s : s # pool[c].symbol => FlightOfSymbol(s)' = FlightOfSymbol(s)
        /\ \A s : s # pool[c].source => FlightOfSource(s)' = FlightOfSource(s)
        /\ \A s : FlightOfSymbol(s)' \subseteq Flows /\ FlightOfSource(s)' \subseteq Flows
    BY <1>0, <2>1 DEF OfSymbol, OfSource, FlightOfSymbol, FlightOfSource
  <2>3. Cardinality(positions') + Cardinality(InFlight') < Limits.trades + Cardinality(Flows)
    BY <1>4, <2>1, LimitsType DEF WithinLimits
  <2>4. Reserved(positions', InFlight', Limits.account)
    <3>1. Exposure(positions) < Limits.account
      BY <2>1 DEF WithinLimits
    <3>. QED  BY <1>0, <1>3, <2>1, <3>1, LimitsType, ReservedStep
  <2>5. ASSUME NEW s \in Symbols
        PROVE  Reserved(OfSymbol(s)', FlightOfSymbol(s)', Limits.symbol)
    <3>1. s = pool[c].symbol => Exposure(OfSymbol(s)) < Limits.symbol
      BY <2>1 DEF WithinLimits
    <3>. QED  BY <1>2, <1>3, <2>2, <3>1, LimitsType, ReservedStep
  <2>6. ASSUME NEW s \in Sources
        PROVE  Reserved(OfSource(s)', FlightOfSource(s)', Limits.source)
    <3>1. s = pool[c].source => Exposure(OfSource(s)) < Limits.source
      BY <2>1 DEF WithinLimits
    <3>. QED  BY <1>2, <1>3, <2>2, <3>1, LimitsType, ReservedStep
  <2>. QED  BY <1>4, <2>3, <2>4, <2>5, <2>6 DEF ExposureInv
<1>7. ASSUME NEW f \in Flows, pc[f] = "execute", Opened(f) PROVE ExposureInv'
  <2> DEFINE p == [c |-> job[f].c, risk |-> job[f].units * Stop(f)]
  <2>1. /\ p.c = job[f].c /\ p.c \in DOMAIN pool /\ p.risk \in Nat /\ p.risk <= Capital.policy
    <3>1. job[f].c \in DOMAIN pool /\ job[f].units \in Nat
      BY <1>7, JobFields DEF JobsInv
    <3>2. Stop(f) \in Nat
      BY <3>1, CandidateType, CapitalType DEF Stop
    <3>3. job[f].units * Stop(f) <= Capital.policy /\ job[f].units * Stop(f) \in Nat
      BY <1>7, <3>1, <3>2 DEF BudgetInv
    <3>. QED  BY <3>1, <3>3
  <2>2. /\ f \in InFlight /\ positions' = positions \cup {p} /\ InFlight' = InFlight \ {f}
        /\ pool' = pool /\ \A g \in InFlight' : job'[g].c = job[g].c
    BY <1>7 DEF Opened
  <2> HIDE DEF p
  <2>3. /\ \A s : s # pool[p.c].symbol => /\ OfSymbol(s)' = OfSymbol(s)
                                          /\ FlightOfSymbol(s)' \subseteq FlightOfSymbol(s)
        /\ \A s : s # pool[p.c].source => /\ OfSource(s)' = OfSource(s)
                                          /\ FlightOfSource(s)' \subseteq FlightOfSource(s)
    BY <2>1, <2>2 DEF OfSymbol, OfSource, FlightOfSymbol, FlightOfSource
  <2>4. /\ \A s : s = pool[p.c].symbol => /\ f \in FlightOfSymbol(s)
                                          /\ OfSymbol(s)' \subseteq OfSymbol(s) \cup {p}
                                          /\ FlightOfSymbol(s)' \subseteq FlightOfSymbol(s) \ {f}
        /\ \A s : s = pool[p.c].source => /\ f \in FlightOfSource(s)
                                          /\ OfSource(s)' \subseteq OfSource(s) \cup {p}
                                          /\ FlightOfSource(s)' \subseteq FlightOfSource(s) \ {f}
    BY <2>1, <2>2 DEF OfSymbol, OfSource, FlightOfSymbol, FlightOfSource
  <2>5. Cardinality(positions') + Cardinality(InFlight') < Limits.trades + Cardinality(Flows)
    <3>1. Cardinality(positions') <= Cardinality(positions) + 1 /\ Cardinality(positions) \in Nat
      <4>1. Cardinality(positions) \in Nat
        BY <1>0, FS_CardinalityType
      <4>2. Cardinality(positions \cup {p}) = IF p \in positions THEN Cardinality(positions)
                                             ELSE Cardinality(positions) + 1
        BY <1>0, FS_AddElement
      <4>. QED  BY <2>2, <4>1, <4>2
    <3>2. Cardinality(InFlight') = Cardinality(InFlight) - 1
      BY <1>4, <2>2, FS_RemoveElement
    <3>. QED  BY <1>4, <3>1, <3>2, LimitsType DEF ExposureInv
  <2>6. Reserved(positions', InFlight', Limits.account)
    BY <1>0, <1>3, <2>1, <2>2, LimitsType, ReservedStep
  <2>7. \A s \in Symbols : Reserved(OfSymbol(s)', FlightOfSymbol(s)', Limits.symbol)
    BY <1>2, <1>3, <2>1, <2>3, <2>4, LimitsType, ReservedStep
  <2>8. \A s \in Sources : Reserved(OfSource(s)', FlightOfSource(s)', Limits.source)
    BY <1>2, <1>3, <2>1, <2>3, <2>4, LimitsType, ReservedStep
  <2>. QED  BY <1>4, <2>5, <2>6, <2>7, <2>8 DEF ExposureInv
<1>. QED  BY <1>5, <1>6, <1>7, FlightStep

LEMMA InitExposure == SomeFlows /\ Capital.policy > 0 /\ Init => ExposureInv
<1> SUFFICES ASSUME SomeFlows, Capital.policy > 0, Init PROVE ExposureInv
  OBVIOUS
<1>1. /\ positions = {} /\ InFlight = {}
      /\ \A s : OfSymbol(s) = {} /\ OfSource(s) = {} /\ FlightOfSymbol(s) = {} /\ FlightOfSource(s) = {}
  BY DEF Init, InFlight, Approvals, OfSymbol, OfSource, FlightOfSymbol, FlightOfSource
<1>2. Cardinality({}) = 0 /\ IsFiniteSet({}) /\ Exposure({}) = 0
  BY FS_EmptySet, ExposureLaws
<1>3. Cardinality(Flows) \in Nat /\ Cardinality(Flows) > 0
  BY FS_CardinalityType, FS_EmptySet DEF SomeFlows
<1>4. Cardinality(Flows) * Capital.policy \in Nat /\ Cardinality(Flows) * Capital.policy > 0
  <2> DEFINE n == Cardinality(Flows)
             q == Capital.policy
  <2>1. n \in Nat /\ n > 0 /\ q \in Nat /\ q > 0
    BY <1>3, CapitalType
  <2> HIDE DEF n, q
  <2>2. 1 * q <= n * q /\ n * q \in Nat
    BY <2>1, Product
  <2>3. n * q \in Nat /\ n * q > 0
    BY <2>1, <2>2
  <2>. QED  BY <2>3 DEF n, q
<1>5. \A limit \in Nat : Reserved({}, {}, limit)
  <2>1. 0 * Capital.policy = 0
    BY CapitalType
  <2>. QED  BY <1>2, <1>4, <2>1 DEF Reserved
<1>6. /\ IsFiniteSet(positions)
      /\ Cardinality(positions) + Cardinality(InFlight) < Limits.trades + Cardinality(Flows)
  BY <1>1, <1>2, <1>3, LimitsType
<1>7. \A s : /\ Reserved(OfSymbol(s), FlightOfSymbol(s), Limits.symbol)
             /\ Reserved(OfSource(s), FlightOfSource(s), Limits.source)
  BY <1>1, <1>5, LimitsType
<1>8. Reserved(positions, InFlight, Limits.account)
  BY <1>1, <1>5, LimitsType
<1>. QED  BY <1>6, <1>7, <1>8 DEF ExposureInv

\* What the limits come to: no check counts the candidate it is made for, nor what was
\* let through and is not a position yet, so that a limit is overrun by as much as
\* every decision in flight may risk, and never by more.
THEOREM LimitsHold ==
  SomeFlows /\ PlainSizing /\ Capital.policy > 0 => (Spec => []ExposureBounded)
<1> SUFFICES ASSUME SomeFlows, PlainSizing, Capital.policy > 0 PROVE Spec => []ExposureBounded
  OBVIOUS
<1> DEFINE I == TypeOK /\ JobsInv /\ BudgetInv /\ ExposureInv
<1>1. Init => I
  <2>1. Init => BudgetInv
    BY DEF Init, BudgetInv, RiskWithinBudget
  <2>. QED  BY <2>1, InitType, InitExposure
<1>2. I /\ [Next]_vars => I'
  BY NextType, NextBudget, NextExposure
<1>3. I => ExposureBounded
  <2> SUFFICES ASSUME I PROVE ExposureBounded
    OBVIOUS
  <2>0. \A T : T \subseteq Flows => Cardinality(T) \in Nat
    BY FS_Subset, FS_CardinalityType DEF SomeFlows
  <2>1. ASSUME NEW T, T \subseteq positions PROVE Exposure(T) \in Nat
    <3>1. \A p \in positions : p.risk \in Nat
      BY DEF TypeOK
    <3>. QED  BY <2>1, <3>1, ExposureLaws DEF ExposureInv
  <2>2. ASSUME NEW T, NEW D, NEW limit \in Nat, T \subseteq positions, D \subseteq Flows,
               Reserved(T, D, limit)
        PROVE  Bounded(Exposure(T), limit)
    <3>1. Cardinality(D) * Capital.policy \in Nat /\ Cardinality(Flows) * Capital.policy \in Nat
      BY <2>0, <2>2, CapitalType
    <3>. QED  BY <2>1, <2>2, <3>1 DEF Reserved, Bounded
  <2>3. InFlight \subseteq Flows /\ Cardinality(InFlight) \in Nat
    BY <2>0 DEF InFlight
  <2>4. /\ \A s : OfSymbol(s) \subseteq positions /\ OfSource(s) \subseteq positions
        /\ \A s : FlightOfSymbol(s) \subseteq Flows /\ FlightOfSource(s) \subseteq Flows
    BY <2>3 DEF OfSymbol, OfSource, FlightOfSymbol, FlightOfSource
  <2>5. Cardinality(positions) < Limits.trades + Cardinality(Flows)
    BY <2>0, <2>3, LimitsType, FS_CardinalityType DEF ExposureInv
  <2>6. Bounded(Exposure(positions), Limits.account)
    BY <2>2, <2>3, LimitsType DEF ExposureInv
  <2>7. \A s \in Symbols : Bounded(Exposure(OfSymbol(s)), Limits.symbol)
    BY <2>2, <2>4, LimitsType DEF ExposureInv
  <2>8. \A s \in Sources : Bounded(Exposure(OfSource(s)), Limits.source)
    BY <2>2, <2>4, LimitsType DEF ExposureInv
  <2>. QED  BY <2>5, <2>6, <2>7, <2>8 DEF ExposureBounded
<1>. QED  BY <1>1, <1>2, <1>3, PTL DEF Spec
-----------------------------------------------------------------------------
(***************************************************************************)
(* The order in which the candidates are listed.                           *)
(***************************************************************************)
FiniteSymbols == IsFiniteSet(Symbols)

\* The weight behind two opinions is part of the whole weight.
LEMMA WeightInAll ==
  ASSUME TypeOK, FiniteSymbols, NEW votes, votes \subseteq DOMAIN pool
  PROVE  LET tally == Tally(votes)
         IN  /\ SumFunction(tally) \in Nat
             /\ \A o, p \in Symbols \X Actions :
                  o # p => tally[o] + tally[p] <= SumFunction(tally)
<1> DEFINE tally == Tally(votes)
           A == Symbols \X Actions
<1>1. DOMAIN tally = A /\ \A o \in A : tally[o] \in Nat
  BY TallyValue
<1>2. IsFiniteSet(A)
  <2>1. IsFiniteSet({"buy"} \cup {"sell"})
    BY FS_Singleton, FS_Union
  <2>2. IsFiniteSet(Actions)
    BY <2>1 DEF Actions
  <2>. QED  BY <2>2, FS_Product DEF FiniteSymbols
<1> HIDE DEF tally, A
<1>3. PICK g : SumsUp(g, A, tally) /\ SumFunction(tally) = g[A]
  BY <1>1, <1>2, FunctionSums
<1>4. \A T \in SUBSET A : g[T] \in Nat /\ \A o \in T : g[T] = tally[o] + g[T \ {o}]
  BY <1>1, <1>2, <1>3, SumsPart
<1>5. g[A] \in Nat
  BY <1>4
<1>6. ASSUME NEW o \in A, NEW p \in A, o # p PROVE tally[o] + tally[p] <= g[A]
  <2>1. A \in SUBSET A /\ A \ {o} \in SUBSET A /\ (A \ {o}) \ {p} \in SUBSET A /\ p \in A \ {o}
    BY <1>6
  <2>2. /\ g[A] = tally[o] + g[A \ {o}]
        /\ g[A \ {o}] = tally[p] + g[(A \ {o}) \ {p}]
        /\ g[(A \ {o}) \ {p}] \in Nat
    BY <1>4, <2>1
  <2>. QED  BY <1>1, <2>2
<1>. QED  BY <1>3, <1>5, <1>6 DEF tally, A

\* An opinion with more weight than all the others together is the favoured one,
\* in whichever order the voices are heard.
LEMMA MajorityFavoured ==
  ASSUME TypeOK, FiniteSymbols, NEW list, IsList(list),
         NEW votes, votes \subseteq Range(list), votes \subseteq DOMAIN pool,
         NEW o \in Symbols \X Actions, 2 * Tally(votes)[o] > SumFunction(Tally(votes))
  PROVE  votes # {} /\ Favoured(list, votes) = o
<1> DEFINE tally == Tally(votes)
           p == Favoured(list, votes)
           total == SumFunction(tally)
<1>0. 2 * tally[o] > total
  OBVIOUS
<1>1. total \in Nat /\ \A a, b \in Symbols \X Actions : a # b => tally[a] + tally[b] <= total
  BY WeightInAll
<1>2. \A a \in Symbols \X Actions : tally[a] = Behind({c \in votes : Says(c) = a}) /\ tally[a] \in Nat
  BY TallyValue
<1>3. PICK d \in votes : Says(d) = o
  <2>1. Behind({}) = 0
    <3>1. IsFiniteSet({})
      BY FS_EmptySet
    <3>2. PICK g : /\ SumsUp(g, {}, [c \in {} |-> Weight[pool[c].source]])
                   /\ \A T \in SUBSET {} : Behind(T) = g[T]
      BY <3>1, BehindSums
    <3>3. g[{}] = 0
      BY <3>2, SumsValue
    <3>. QED  BY <3>2, <3>3
  <2>2. tally[o] > 0
    <3>1. tally[o] \in Nat /\ total \in Nat
      BY <1>1, <1>2
    <3> HIDE DEF tally, total
    <3>. QED  BY <1>0, <3>1
  <2>3. {c \in votes : Says(c) = o} # {}
    BY <1>2, <2>1, <2>2
  <2>. QED  BY <2>3
<1>4. /\ Leader(list, votes, tally) \in votes
      /\ tally[Says(d)] <= tally[Says(Leader(list, votes, tally))]
  <2> HIDE DEF tally
  <2>. QED  BY <1>2, <1>3, LeaderLeads
<1>5. p \in Symbols \X Actions /\ tally[o] <= tally[p]
  BY <1>3, <1>4, SaysType DEF Favoured
<1>6. tally[o] \in Nat /\ tally[p] \in Nat
  BY <1>2, <1>5
<1> HIDE DEF tally, p, total
<1>7. p # o => tally[o] + tally[p] <= total
  BY <1>1, <1>5, Zenon
<1>8. p = o
  BY <1>0, <1>1, <1>5, <1>6, <1>7
<1>. QED  BY <1>3, <1>8 DEF p

\* Whatever the order, all the candidates are listed.
LEMMA OrdersCover ==
  ASSUME TypeOK
  PROVE  /\ \A list \in Orders : IsList(list) /\ Range(list) = DOMAIN pool
                                 /\ DOMAIN list = DOMAIN pool
         /\ Orders # {}
<1>1. IsFiniteSet(DOMAIN pool)
  <2>1. DOMAIN pool = 1..Len(pool) /\ Len(pool) \in Nat
    BY CandidateType
  <2>. QED  BY <2>1, FS_Interval
<1>2. ASSUME NEW list \in Orders PROVE Range(list) = DOMAIN pool /\ DOMAIN list = DOMAIN pool
  <2>1. list \in Injection(DOMAIN pool, DOMAIN pool)
    BY DEF Orders, Injection, IsInjective
  <2>2. list \in Surjection(DOMAIN pool, DOMAIN pool)
    BY <1>1, <2>1, FS_Injection
  <2>. QED  BY <2>2 DEF Surjection, Range
<1>3. [c \in DOMAIN pool |-> c] \in Orders
  BY DEF Orders, IsInjective
<1>. QED  BY <1>2, <1>3, ListsAreLists

\* The opinion the fusion approves does not depend on the order of the strategies: it
\* has more weight than all the others together, and there can be no two such opinions.
\* (The weights are whole numbers here, and so is their sum.)
LEMMA FusionAnyOrder == TypeOK /\ FiniteSymbols => FusionOrderFree
<1> SUFFICES ASSUME TypeOK, FiniteSymbols
             PROVE  Cardinality({Opinion(Fused(list)) : list \in Orders}) = 1
  BY DEF FusionOrderFree
<1> DEFINE valid == {c \in DOMAIN pool : Eligible(c) /\ Weight[pool[c].source] > 0}
           tally == Tally(valid)
           wins(o) == o \in Symbols \X Actions /\ Outweighs(tally, o)
<1>1. \A list \in Orders :
        /\ IsList(list) /\ Strategies(list) = valid
        /\ valid \subseteq DOMAIN pool /\ valid \subseteq Range(list)
  BY OrdersCover DEF Strategies
<1>2. ASSUME NEW list \in Orders
      PROVE  IF valid # {} /\ Outweighs(tally, Favoured(list, valid))
             THEN Fused(list) \in valid /\ Says(Fused(list)) = Favoured(list, valid)
             ELSE Fused(list) = 0
  BY <1>1, FusedFound
<1>3. 0 \notin DOMAIN pool
  BY CandidateType
<1> HIDE DEF valid
<1>4. ASSUME NEW o, wins(o), NEW list \in Orders PROVE Opinion(Fused(list)) = o
  <2>1. valid # {} /\ Favoured(list, valid) = o
    <3>1. 2 * tally[o] > SumFunction(tally)
      BY <1>4 DEF Outweighs
    <3>. QED  BY <1>1, <1>4, <3>1, MajorityFavoured
  <2>2. Fused(list) \in DOMAIN pool /\ Says(Fused(list)) = o
    BY <1>1, <1>2, <1>4, <2>1
  <2>. QED  BY <1>3, <2>2 DEF Opinion
<1>5. ASSUME \A o : ~ wins(o), NEW list \in Orders PROVE Opinion(Fused(list)) = <<>>
  <2>1. ASSUME valid # {} /\ Outweighs(tally, Favoured(list, valid)) PROVE FALSE
    <3>1. Fused(list) \in DOMAIN pool /\ Says(Fused(list)) = Favoured(list, valid)
      BY <1>1, <1>2, <2>1
    <3>. QED  BY <1>5, <2>1, <3>1, SaysType
  <2>2. Fused(list) = 0
    BY <1>2, <2>1
  <2>. QED  BY <2>2 DEF Opinion
<1> HIDE DEF tally, wins
<1>6. CASE \E o : wins(o)
  <2>1. PICK o : \A list \in Orders : Opinion(Fused(list)) = o
    BY <1>4, <1>6
  <2>2. {Opinion(Fused(list)) : list \in Orders} = {o}
    BY <2>1, OrdersCover
  <2>. QED  BY <2>2, FS_Singleton
<1>7. CASE \A o : ~ wins(o)
  <2>1. {Opinion(Fused(list)) : list \in Orders} = {<<>>}
    BY <1>5, <1>7, OrdersCover
  <2>. QED  BY <2>1, FS_Singleton
<1>. QED  BY <1>6, <1>7

\* In whatever order the caller lists any number of strategies, the fusion approves the
\* same opinion, or none: at most one has more than all others, and a tie is refused.
THEOREM FusionOrder == FiniteSymbols => (Spec => []FusionOrderFree)
<1> SUFFICES ASSUME FiniteSymbols PROVE Spec => []FusionOrderFree
  OBVIOUS
<1>1. TypeOK => FusionOrderFree
  BY FusionAnyOrder
<1>. QED  BY <1>1, TypeCorrect, PTL

\* Who may vote in the ensemble, and the sources that hold an opinion.
MayVote(c) == Eligible(c) /\ ~ Stale(c)
Speakers(o) == {pool[c].source : c \in {c \in DOMAIN pool : MayVote(c) /\ Says(c) = o}}

\* Of every source that may vote, the first candidate in the list does, and no other.
LEMMA VotesOfList ==
  ASSUME TypeOK, NEW list \in Orders
  PROVE  /\ Votes(list) \subseteq Range(list) /\ Votes(list) \subseteq DOMAIN pool
         /\ \A c \in Votes(list) : MayVote(c)
         /\ \A c, d \in Votes(list) : pool[c].source = pool[d].source => c = d
         /\ \A c \in DOMAIN pool : MayVote(c) =>
              \E d \in Votes(list) : pool[d].source = pool[c].source
<1>1. PICK n \in Nat : list \in [1..n -> DOMAIN pool]
  BY OrdersCover DEF IsList
<1>2. Range(list) = DOMAIN pool
  BY OrdersCover
<1> DEFINE first(i) == MayVote(list[i]) /\ \A j \in 1..(i - 1) :
                         MayVote(list[j]) => pool[list[j]].source # pool[list[i]].source
<1>3. Votes(list) = {list[i] : i \in {i \in DOMAIN list : first(i)}}
  BY Zenon DEF Votes, MayVote
<1>4. \A c \in Votes(list) : \E i \in 1..n : c = list[i] /\ first(i)
  BY <1>1, <1>3
<1>5. ASSUME NEW c \in Votes(list), NEW d \in Votes(list), pool[c].source = pool[d].source
      PROVE  c = d
  <2>1. PICK i \in 1..n : c = list[i] /\ first(i)
    BY <1>4
  <2>2. PICK j \in 1..n : d = list[j] /\ first(j)
    BY <1>4
  <2>3. ~ (i < j) /\ ~ (j < i)
    <3>1. /\ i < j => i \in 1..(j - 1)
          /\ j < i => j \in 1..(i - 1)
      OBVIOUS
    <3>. QED  BY <1>5, <2>1, <2>2, <3>1
  <2>. QED  BY <2>1, <2>2, <2>3
<1>6. ASSUME NEW c \in DOMAIN pool, MayVote(c)
      PROVE  \E d \in Votes(list) : pool[d].source = pool[c].source
  <2> DEFINE heard == {i \in 1..n : MayVote(list[i]) /\ pool[list[i]].source = pool[c].source}
  <2>1. PICK k \in 1..n : list[k] = c
    BY <1>1, <1>2 DEF Range
  <2>2. k \in heard /\ heard \subseteq 1..n
    BY <1>6, <2>1
  <2> HIDE DEF heard
  <2>3. PICK i \in heard : \A j \in heard : i <= j
    BY <2>2, LeastPlace
  <2>4. i \in 1..n /\ MayVote(list[i]) /\ pool[list[i]].source = pool[c].source
    BY <2>3 DEF heard
  <2>5. ASSUME NEW j \in 1..(i - 1), MayVote(list[j])
        PROVE  pool[list[j]].source # pool[list[i]].source
    <3>1. j \in 1..n /\ j < i
      BY <2>4
    <3>2. j \notin heard
      BY <2>3, <2>4, <3>1
    <3>. QED  BY <2>4, <2>5, <3>1, <3>2 DEF heard
  <2>6. list[i] \in Votes(list)
    BY <1>1, <1>3, <2>4, <2>5
  <2>. QED  BY <2>4, <2>6
<1>7. /\ Votes(list) \subseteq Range(list)
      /\ \A c \in Votes(list) : MayVote(c)
  BY <1>1, <1>4 DEF Range
<1>. QED  BY <1>2, <1>5, <1>6, <1>7

\* With one opinion of each source, the weight behind an opinion is the weight of the
\* sources that hold it: it does not matter which of its candidates speaks for a source.
LEMMA TallyOfSources ==
  ASSUME TypeOK, OneOpinionEach
  PROVE  \E t : \A list \in Orders : Tally(Votes(list)) = t
<1> DEFINE D == DOMAIN pool
           f == [c \in D |-> pool[c].source]
           R == {f[c] : c \in D}
           v == [c \in D |-> Weight[pool[c].source]]
           w == [s \in R |-> Weight[s]]
<1>1. IsFiniteSet(D)
  BY TallyValue
<1>2. IsFiniteSet(R)
  <2>1. f \in Surjection(D, R)
    BY DEF Surjection
  <2> HIDE DEF f, R
  <2>. QED  BY <1>1, <2>1, FS_Surjection
<1>3. /\ \A c \in D : f[c] \in R /\ f[c] = pool[c].source /\ v[c] = Weight[f[c]] /\ w[f[c]] = v[c]
      /\ \A s \in R : w[s] \in Nat
  <2>1. \A c \in D : f[c] = pool[c].source /\ f[c] \in R /\ f[c] \in Sources
    BY CandidateType
  <2>2. \A s \in Sources : Weight[s] \in Nat
    BY ConstantsAssumption
  <2>. QED  BY <2>1, <2>2
<1>4. PICK g : SumsUp(g, D, v) /\ \A T \in SUBSET D : Behind(T) = g[T]
  BY <1>1, BehindSums
<1>5. PICK h : SumsUp(h, R, w)
  BY <1>2, SumsExist
<1> HIDE DEF D, f, R, v, w
<1> DEFINE t == [o \in Symbols \X Actions |-> h[Speakers(o)]]
<1>6. ASSUME NEW list \in Orders, NEW o \in Symbols \X Actions
      PROVE  Tally(Votes(list))[o] = h[Speakers(o)]
  <2> DEFINE T == {c \in Votes(list) : Says(c) = o}
  <2>1. T \in SUBSET D
    BY VotesOfList DEF D
  <2>2. \A c, d \in T : f[c] = f[d] => c = d
    <3>1. \A c, d \in Votes(list) : pool[c].source = pool[d].source => c = d
      BY VotesOfList
    <3>. QED  BY <1>3, <2>1, <3>1
  <2>3. {f[c] : c \in T} = Speakers(o)
    <3>1. ASSUME NEW c \in T PROVE f[c] \in Speakers(o)
      BY <1>3, <2>1, VotesOfList DEF Speakers, D
    <3>2. ASSUME NEW s \in Speakers(o) PROVE \E d \in T : f[d] = s
      <4>1. PICK c \in DOMAIN pool : MayVote(c) /\ Says(c) = o /\ s = pool[c].source
        BY DEF Speakers
      <4>2. PICK d \in Votes(list) : pool[d].source = pool[c].source
        BY <4>1, VotesOfList
      <4>3. d \in DOMAIN pool /\ MayVote(d)
        BY VotesOfList
      <4>4. Says(d) = Says(c)
        BY <4>1, <4>2, <4>3 DEF OneOpinionEach, MayVote, Says
      <4>. QED  BY <1>3, <4>1, <4>2, <4>3, <4>4 DEF D
    <3>. QED  BY <3>1, <3>2
  <2> HIDE DEF T
  <2>4. g[T] = h[{f[c] : c \in T}]
    BY <1>1, <1>2, <1>3, <1>4, <1>5, <2>1, <2>2, SumsRenamed
  <2>5. Behind(T) = g[T]
    BY <1>4, <2>1
  <2>6. Tally(Votes(list))[o] = Behind(T)
    BY VotesOfList, TallyValue DEF T
  <2>. QED  BY <2>3, <2>4, <2>5, <2>6
<1>7. ASSUME NEW list \in Orders PROVE Tally(Votes(list)) = t
  <2>1. Tally(Votes(list)) = [o \in Symbols \X Actions |-> Tally(Votes(list))[o]]
    BY DEF Tally
  <2>. QED  BY <1>6, <2>1
<1>. QED  BY <1>7

\* What carries has more weight than all the others together.
LEMMA CarriesOutweighs ==
  ASSUME TypeOK, FiniteSymbols, NEW votes, votes \subseteq DOMAIN pool,
         NEW o \in Symbols \X Actions, Carries(Tally(votes), o)
  PROVE  2 * Tally(votes)[o] > SumFunction(Tally(votes))
<1> DEFINE total == SumFunction(Tally(votes))
           k == Tally(votes)[o]
<1>1. total \in Nat /\ k \in Nat
  BY WeightInAll, TallyValue
<1>2. k > 0 /\ 10 * k >= 6 * total
  BY DEF Carries
<1> HIDE DEF total, k
<1>3. 2 * k > total
  BY <1>1, <1>2
<1>. QED  BY <1>3 DEF total, k

\* With one opinion of each source, what the ensemble approves does not depend on the
\* order in which its caller lists the candidates.
LEMMA EnsembleAnyOrder == TypeOK /\ FiniteSymbols => OrderFree
<1> SUFFICES ASSUME TypeOK, FiniteSymbols, OneOpinionEach
             PROVE  Cardinality({Opinion(Approved(list)) : list \in Orders}) = 1
  BY DEF OrderFree
<1>1. PICK t : \A list \in Orders : Tally(Votes(list)) = t
  BY TallyOfSources
<1> DEFINE wins(o) == o \in Symbols \X Actions /\ Carries(t, o) /\ ~ Conflict(t)
<1>2. \A list \in Orders : /\ IsList(list)
                           /\ Votes(list) \subseteq Range(list) /\ Votes(list) \subseteq DOMAIN pool
  BY OrdersCover, VotesOfList
<1>3. ASSUME NEW list \in Orders
      PROVE  IF Votes(list) # {} /\ ~ Conflict(t) /\ Carries(t, Favoured(list, Votes(list)))
             THEN /\ Approved(list) \in DOMAIN pool
                  /\ Says(Approved(list)) = Favoured(list, Votes(list))
             ELSE Approved(list) = 0
  BY <1>1, <1>2, ApprovedFound
<1>4. 0 \notin DOMAIN pool
  BY CandidateType
<1>5. ASSUME NEW o, wins(o), NEW list \in Orders PROVE Opinion(Approved(list)) = o
  <2>1. Votes(list) # {} /\ Favoured(list, Votes(list)) = o
    <3>1. 2 * Tally(Votes(list))[o] > SumFunction(Tally(Votes(list)))
      BY <1>1, <1>2, <1>5, CarriesOutweighs
    <3>. QED  BY <1>2, <1>5, <3>1, MajorityFavoured
  <2>2. Approved(list) \in DOMAIN pool /\ Says(Approved(list)) = o
    BY <1>3, <1>5, <2>1
  <2>. QED  BY <1>4, <2>2 DEF Opinion
<1>6. ASSUME \A o : ~ wins(o), NEW list \in Orders PROVE Opinion(Approved(list)) = <<>>
  <2> DEFINE o == Favoured(list, Votes(list))
  <2>1. ASSUME Votes(list) # {} /\ ~ Conflict(t) /\ Carries(t, o) PROVE FALSE
    <3>1. Approved(list) \in DOMAIN pool /\ Says(Approved(list)) = o
      BY <1>3, <2>1
    <3>2. o \in Symbols \X Actions
      BY <3>1, SaysType
    <3> HIDE DEF o
    <3>. QED  BY <1>6, <2>1, <3>2
  <2>2. Approved(list) = 0
    BY <1>3, <2>1
  <2>. QED  BY <2>2 DEF Opinion
<1> HIDE DEF wins
<1>7. CASE \E o : wins(o)
  <2>1. PICK o : \A list \in Orders : Opinion(Approved(list)) = o
    BY <1>5, <1>7
  <2>2. {Opinion(Approved(list)) : list \in Orders} = {o}
    BY <2>1, OrdersCover
  <2>. QED  BY <2>2, FS_Singleton
<1>8. CASE \A o : ~ wins(o)
  <2>1. {Opinion(Approved(list)) : list \in Orders} = {<<>>}
    BY <1>6, <1>8, OrdersCover
  <2>. QED  BY <2>1, FS_Singleton
<1>. QED  BY <1>7, <1>8

\* With one opinion of each source, the ensemble approves the same opinion, or none, in
\* whatever order the caller lists the candidates.
THEOREM EnsembleOrder == FiniteSymbols => (Spec => []OrderFree)
<1> SUFFICES ASSUME FiniteSymbols PROVE Spec => []OrderFree
  OBVIOUS
<1>1. TypeOK => OrderFree
  BY EnsembleAnyOrder
<1>. QED  BY <1>1, TypeCorrect, PTL

\* Two engines for one question: when every source speaks at most once, nothing is stale
\* and every source has the weight the fusion asks for (a positive one, as its default
\* is), the fusion approves what the ensemble approves, the very same candidate.
LEMMA EnginesAgree ==
  TypeOK /\ FiniteSymbols /\ MinimumWeight > 0 => FusionFollowsEnsemble
<1> SUFFICES ASSUME TypeOK, FiniteSymbols, MinimumWeight > 0, Orderly,
                    NEW list \in Orders, Approved(list) # 0
             PROVE  Fused(list) = Approved(list)
  BY DEF FusionFollowsEnsemble
<1> DEFINE votes == Votes(list)
           o == Favoured(list, votes)
           behind == {i \in DOMAIN list : list[i] \in votes /\ Says(list[i]) = o}
           fit == {i \in DOMAIN list : Matches(list[i], o)}
<1>1. PICK n \in Nat : list \in [1..n -> DOMAIN pool]
  BY OrdersCover DEF IsList
<1>2. DOMAIN pool = 1..Len(pool) /\ Range(list) = DOMAIN pool /\ IsList(list)
  BY CandidateType, OrdersCover
<1>3. votes = {c \in DOMAIN pool : Eligible(c)}
  <2>1. \A c \in DOMAIN pool : MayVote(c) <=> Eligible(c)
    BY <1>2 DEF MayVote, Stale, Orderly
  <2>2. ASSUME NEW c \in DOMAIN pool, Eligible(c) PROVE c \in votes
    <3>1. PICK d \in votes : pool[d].source = pool[c].source
      BY <2>1, <2>2, VotesOfList
    <3>2. d \in DOMAIN pool /\ Eligible(d)
      BY <2>1, VotesOfList
    <3>3. c = d
      BY <2>2, <3>1, <3>2 DEF Orderly
    <3>. QED  BY <3>3
  <2>. QED  BY <2>1, <2>2, VotesOfList
<1>4. Strategies(list) = votes
  <2>1. MinimumWeight \in Nat /\ \A s \in Sources : Weight[s] \in Nat /\ Weight[s] >= MinimumWeight
    BY ConstantsAssumption DEF Orderly
  <2>2. \A c \in DOMAIN pool : Weight[pool[c].source] > 0
    BY <2>1, CandidateType
  <2>. QED  BY <1>2, <1>3, <2>2 DEF Strategies
<1>5. /\ votes # {} /\ Carries(Tally(votes), o)
      /\ Approved(list) = Representative(list, o)
      /\ Approved(list) \in DOMAIN pool /\ Eligible(Approved(list)) /\ Says(Approved(list)) = o
  BY <1>2, ApprovedFound
<1>6. Outweighs(Tally(votes), o)
  <2>1. o \in Symbols \X Actions
    BY <1>5, SaysType
  <2>2. votes \subseteq DOMAIN pool
    BY <1>3
  <2>3. 2 * Tally(votes)[o] > SumFunction(Tally(votes))
    BY <1>5, <2>1, <2>2, CarriesOutweighs
  <2>4. Tally(votes)[o] >= MinimumWeight
    <3> DEFINE T == {c \in votes : Says(c) = o}
               v == [c \in votes |-> Weight[pool[c].source]]
               a == Approved(list)
    <3>1. a \in T
      BY <1>3, <1>5
    <3>2. IsFiniteSet(votes) /\ Tally(votes)[o] = Behind(T)
      BY <2>1, <2>2, TallyValue
    <3>3. PICK g : SumsUp(g, votes, v) /\ \A U \in SUBSET votes : Behind(U) = g[U]
      BY <3>2, BehindSums
    <3>4. MinimumWeight \in Nat /\ \A c \in votes : v[c] \in Nat /\ v[c] >= MinimumWeight
      <4>1. MinimumWeight \in Nat /\ \A s \in Sources : Weight[s] \in Nat /\ Weight[s] >= MinimumWeight
        BY ConstantsAssumption DEF Orderly
      <4>2. \A c \in votes : pool[c].source \in Sources
        BY <2>2, CandidateType
      <4>. QED  BY <4>1, <4>2
    <3>5. T \in SUBSET votes
      OBVIOUS
    <3> HIDE DEF T, v, a, votes
    <3>6. g[T] = v[a] + g[T \ {a}] /\ g[T \ {a}] \in Nat
      BY <3>1, <3>2, <3>3, <3>4, <3>5, SumsPart
    <3>7. v[a] \in Nat /\ v[a] >= MinimumWeight /\ MinimumWeight \in Nat
      BY <3>1, <3>4, <3>5
    <3>8. Tally(votes)[o] = g[T]
      BY <3>2, <3>3, <3>5
    <3>. QED  BY <3>6, <3>7, <3>8
  <2>. QED  BY <2>3, <2>4 DEF Outweighs
<1>7. Fused(list) = list[Min(behind)]
  BY <1>4, <1>5, <1>6, Zenon DEF Fused, Favoured
<1>8. Approved(list) = list[Min(fit)]
  BY <1>5, Zenon DEF Representative
<1>9. behind = fit
  BY <1>1, <1>3 DEF Matches
<1>. QED  BY <1>7, <1>8, <1>9

\* Where every source speaks once and nothing is stale, the two engines agree: the fusion
\* hands on the very candidate that the ensemble approves.  A source that weighs nothing
\* could be the ensemble's representative and not the fusion's: min_weight is positive.
THEOREM FusionFollows ==
  FiniteSymbols /\ MinimumWeight > 0 => (Spec => []FusionFollowsEnsemble)
<1> SUFFICES ASSUME FiniteSymbols, MinimumWeight > 0 PROVE Spec => []FusionFollowsEnsemble
  OBVIOUS
<1>1. TypeOK => FusionFollowsEnsemble
  BY EnginesAgree
<1>. QED  BY <1>1, TypeCorrect, PTL
=============================================================================
