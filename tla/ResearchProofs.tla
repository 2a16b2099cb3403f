--------------------------- MODULE ResearchProofs ---------------------------
(***************************************************************************)
(* Theorems about Research: the learning layer, the way from a message to  *)
(* a paper trade, and the replay of signals over candles.                  *)
(***************************************************************************)
EXTENDS Research, FiniteOrders, TLAPS

-----------------------------------------------------------------------------
(***************************************************************************)
(* SourceLearning: what a summary says of the results it is made of.       *)
(***************************************************************************)
LEMMA SummaryFacts ==
  ASSUME NEW v, IsFiniteSet(DOMAIN v), DOMAIN v \subseteq Int, \A i \in DOMAIN v : v[i] \in Int
  PROVE  /\ Summary(v) \in Performance
         /\ Summary(v).trades = Cardinality(DOMAIN v)
         /\ Summary(v).net = SumFunctionOnSet(v, DOMAIN v)
         /\ Summary(v).wins = Cardinality({i \in DOMAIN v : v[i] > 0})
         /\ Summary(v).losses = Cardinality({i \in DOMAIN v : v[i] < 0})
         /\ Plausible(Summary(v))
<1> DEFINE D == DOMAIN v
           W == {i \in D : v[i] > 0}
           L == {i \in D : v[i] < 0}
           p == Summary(v)
<1>1. /\ p = [trades |-> Cardinality(D), wins |-> Cardinality(W), losses |-> Cardinality(L),
               net |-> SumFunctionOnSet(v, D), recent |-> SumFunctionOnSet(v, Latest(D))]
  BY DEF Summary, Count, SumFunction
<1>2. /\ p.trades = Cardinality(D) /\ p.wins = Cardinality(W) /\ p.losses = Cardinality(L)
      /\ p.net = SumFunctionOnSet(v, D) /\ p.recent = SumFunctionOnSet(v, Latest(D))
  <2> HIDE DEF W, L, D
  <2>. QED  BY <1>1
<1>3. /\ IsFiniteSet(W) /\ Cardinality(W) \in Nat /\ IsFiniteSet(L) /\ Cardinality(L) \in Nat
      /\ Cardinality(D) \in Nat
  <2>1. IsFiniteSet(W) /\ IsFiniteSet(L)
    BY FS_Subset
  <2> HIDE DEF W, L
  <2>. QED  BY <2>1, FS_CardinalityType
<1>4. Cardinality(W) + Cardinality(L) <= Cardinality(D)
  <2>1. W \cap L = {} /\ W \cup L \in SUBSET D
    OBVIOUS
  <2>2. Cardinality(W \cup L) <= Cardinality(D)
    <3> HIDE DEF W, L
    <3>. QED  BY <2>1, FS_Subset
  <2>3. Cardinality(W \cup L) = Cardinality(W) + Cardinality(L)
    <3>1. Cardinality({}) = 0
      BY FS_EmptySet
    <3> HIDE DEF W, L
    <3>2. Cardinality(W \cup L) = Cardinality(W) + Cardinality(L) - Cardinality(W \cap L)
      BY <1>3, FS_Union
    <3>3. Cardinality(W \cap L) = 0
      BY <2>1, <3>1, Zenon
    <3>. QED  BY <1>3, <3>2, <3>3
  <2> HIDE DEF W, L
  <2>. QED  BY <2>2, <2>3
<1>5. SumFunctionOnSet(v, D) \in Int /\ SumFunctionOnSet(v, Latest(D)) \in Int
  <2>1. D \in SUBSET D /\ Latest(D) \in SUBSET D
    BY DEF Latest
  <2>. QED  BY <2>1, SumMember
<1>6. Cardinality(D) <= Recent => Latest(D) = D
  <2> SUFFICES ASSUME Cardinality(D) <= Recent, NEW i \in D
               PROVE  Cardinality({j \in D : j > i}) < Recent
    BY DEF Latest
  <2> DEFINE T == {j \in D : j > i}
  <2>1. T \subseteq D \ {i}
    OBVIOUS
  <2>2. /\ IsFiniteSet(D \ {i}) /\ Cardinality(D \ {i}) = Cardinality(D) - 1
    BY FS_RemoveElement
  <2>3. Cardinality(T) <= Cardinality(D \ {i}) /\ Cardinality(T) \in Nat
    <3> HIDE DEF T
    <3>. QED  BY <2>1, <2>2, FS_Subset, FS_CardinalityType
  <2> HIDE DEF T
  <2>4. Cardinality(T) < Recent
    BY <1>3, <2>2, <2>3, LearningAssumption
  <2>. QED  BY <2>4 DEF T
<1> HIDE DEF W, L
<1>7. p \in Performance
  BY <1>1, <1>3, <1>5 DEF Performance
<1>8. Plausible(p)
  BY <1>2, <1>4, <1>6 DEF Plausible
<1>. QED  BY <1>2, <1>7, <1>8 DEF W, L

\* The results w are the results v and one more, at n.
Grown(w, v, n) ==
  /\ IsFiniteSet(DOMAIN v) /\ DOMAIN v \subseteq Int /\ \A i \in DOMAIN v : v[i] \in Int
  /\ n \in Int /\ n \notin DOMAIN v
  /\ DOMAIN w = DOMAIN v \cup {n} /\ w[n] \in Int /\ \A i \in DOMAIN v : w[i] = v[i]

\* What one more result adds to a summary.
LEMMA OneMore ==
  ASSUME NEW v, NEW w, NEW n, Grown(w, v, n)
  PROVE  /\ IsFiniteSet(DOMAIN w) /\ DOMAIN w \subseteq Int /\ \A i \in DOMAIN w : w[i] \in Int
         /\ Summary(w).trades = Summary(v).trades + 1
         /\ Summary(w).net = Summary(v).net + w[n]
         /\ Summary(w).wins = Summary(v).wins + IF w[n] > 0 THEN 1 ELSE 0
         /\ Summary(w).losses = Summary(v).losses + IF w[n] < 0 THEN 1 ELSE 0
<1> DEFINE D == DOMAIN v
           E == DOMAIN w
           W(f, T) == {i \in T : f[i] > 0}
           L(f, T) == {i \in T : f[i] < 0}
<1> USE DEF Grown
<1>1. IsFiniteSet(E) /\ E \subseteq Int /\ (\A i \in E : w[i] \in Int) /\ E \ {n} = D
  BY FS_AddElement
<1>2. /\ Summary(v).trades = Cardinality(D) /\ Summary(v).net = SumFunctionOnSet(v, D)
      /\ Summary(v).wins = Cardinality(W(v, D)) /\ Summary(v).losses = Cardinality(L(v, D))
      /\ Summary(v) \in Performance
  BY SummaryFacts
<1>3. /\ Summary(w).trades = Cardinality(E) /\ Summary(w).net = SumFunctionOnSet(w, E)
      /\ Summary(w).wins = Cardinality(W(w, E)) /\ Summary(w).losses = Cardinality(L(w, E))
  BY <1>1, SummaryFacts
<1>4. Cardinality(E) = Cardinality(D) + 1
  BY FS_AddElement
<1>5. SumFunctionOnSet(w, E) = SumFunctionOnSet(v, D) + w[n]
  <2>1. /\ SumFunctionOnSet(w, E \ {n}) \in Int
        /\ SumFunctionOnSet(w, E) = w[n] + SumFunctionOnSet(w, E \ {n})
    <3>1. E \in SUBSET E /\ n \in E
      OBVIOUS
    <3>. QED  BY <1>1, <3>1, SumMember
  <2>2. SumFunctionOnSet(v, D) = SumFunctionOnSet(w, D)
    BY SumSame
  <2>. QED  BY <1>1, <2>1, <2>2
<1>6. IsFiniteSet(W(v, D)) /\ IsFiniteSet(L(v, D)) /\ n \notin W(v, D) /\ n \notin L(v, D)
  BY FS_Subset
<1>7. /\ W(w, E) = IF w[n] > 0 THEN W(v, D) \cup {n} ELSE W(v, D)
      /\ L(w, E) = IF w[n] < 0 THEN L(v, D) \cup {n} ELSE L(v, D)
  OBVIOUS
<1> HIDE DEF W, L
<1>8. /\ Cardinality(W(v, D)) \in Nat /\ Cardinality(L(v, D)) \in Nat
      /\ Cardinality(W(v, D) \cup {n}) = Cardinality(W(v, D)) + 1
      /\ Cardinality(L(v, D) \cup {n}) = Cardinality(L(v, D)) + 1
  BY <1>6, FS_AddElement, FS_CardinalityType
<1>9. /\ Cardinality(W(w, E)) = Cardinality(W(v, D)) + IF w[n] > 0 THEN 1 ELSE 0
      /\ Cardinality(L(w, E)) = Cardinality(L(v, D)) + IF w[n] < 0 THEN 1 ELSE 0
  BY <1>7, <1>8
<1> HIDE DEF D, E
<1>10. IsFiniteSet(DOMAIN w) /\ DOMAIN w \subseteq Int /\ \A i \in DOMAIN w : w[i] \in Int
  BY <1>1 DEF E
<1>. QED  BY <1>2, <1>3, <1>4, <1>5, <1>9, <1>10

\* The made-up results of a performance have its number, its net and, if its net is that
\* of whole results, its wins and losses.
LEMMA ValuesFacts ==
  ASSUME NEW p \in Performance, p.wins + p.losses <= p.trades, p.trades > 0
  PROVE  /\ Values(p) \in Seq(Int) /\ DOMAIN Values(p) = 1..p.trades /\ Len(Values(p)) = p.trades
         /\ IsFiniteSet(DOMAIN Values(p)) /\ Summary(Values(p)).trades = p.trades
         /\ Summary(Values(p)).net = p.net
         /\ p.net = R * p.wins - R * p.losses =>
              Summary(Values(p)).wins = p.wins /\ Summary(Values(p)).losses = p.losses
<1> DEFINE n == p.trades
           D == 1..n
           v == Values(p)
           w == Whole(p)
           W == {i \in D : w[i] > 0}
           L == {i \in D : w[i] < 0}
           d == p.net - SumFunctionOnSet(w, D)
<1>1. /\ n \in Nat /\ p.wins \in Nat /\ p.losses \in Nat /\ p.net \in Int
      /\ p.wins + p.losses <= n /\ n > 0 /\ R \in Nat /\ R > 0
  BY LearningAssumption DEF Performance
<1>2. /\ DOMAIN w = D
      /\ \A i \in D : w[i] = IF i <= p.wins THEN R ELSE IF i <= p.wins + p.losses THEN -R ELSE 0
  BY DEF Whole
<1>3. IsFiniteSet(D) /\ Cardinality(D) = n
  BY <1>1, CountPlaces
<1>4. SumFunctionOnSet(w, D) = R * p.wins - R * p.losses
  <2>1. W = 1..p.wins /\ L = p.wins + 1..p.wins + p.losses
    <3> HIDE DEF w
    <3>. QED  BY SMTT(30), <1>1, <1>2
  <2>2. Cardinality(W) = p.wins /\ Cardinality(L) = p.losses
    <3>1. Cardinality(1..p.wins) = p.wins
      BY <1>1, CountPlaces
    <3>2. Cardinality(p.wins + 1..p.wins + p.losses) = p.losses
      BY <1>1, CountBetween
    <3>. QED  BY <2>1, <3>1, <3>2
  <2>3. \A i \in D : w[i] \in {R, 0, -R}
    BY <1>2
  <2> HIDE DEF w, n
  <2>4. SumFunctionOnSet(w, D) = R * Cardinality(W) - R * Cardinality(L)
    BY <1>1, <1>3, <2>3, SumOfWholes
  <2>. QED  BY <2>2, <2>4
<1>5. R * p.wins \in Int /\ R * p.losses \in Int
  BY <1>1
<1>6. d \in Int /\ d = p.net - (R * p.wins - R * p.losses)
  <2> HIDE DEF w, n
  <2>. QED  BY SMTT(30), <1>1, <1>4, <1>5
<1>7. \A i \in D : w[i] \in Int
  BY <1>1, <1>2
<1>8. v = [i \in D |-> IF i = n THEN w[i] + d ELSE w[i]]
  <2>1. SumFunction(w) = SumFunctionOnSet(w, D)
    BY <1>2, Zenon DEF SumFunction
  <2> HIDE DEF w
  <2>. QED  BY <2>1 DEF Values, w
<1> HIDE DEF w, d, v
<1>9. /\ DOMAIN v = D /\ \A i \in D : v[i] \in Int
      /\ \A i \in D : v[i] = IF i = n THEN w[i] + d ELSE w[i]
  BY <1>6, <1>7, <1>8
<1>10. v \in Seq(Int) /\ Len(v) = n
  BY <1>1, <1>8, <1>9
<1>11. SumFunctionOnSet(v, D) = p.net
  <2>1. n \in D /\ D \in SUBSET D
    BY <1>1
  <2>2. /\ SumFunctionOnSet(v, D) = v[n] + SumFunctionOnSet(v, D \ {n})
        /\ SumFunctionOnSet(w, D) = w[n] + SumFunctionOnSet(w, D \ {n})
        /\ SumFunctionOnSet(w, D \ {n}) \in Int
    <3> HIDE DEF D
    <3>. QED  BY <1>3, <1>7, <1>9, <2>1, SumMember
  <2>3. SumFunctionOnSet(v, D \ {n}) = SumFunctionOnSet(w, D \ {n})
    <3>1. IsFiniteSet(D \ {n})
      BY <1>3, FS_RemoveElement
    <3>2. \A i \in D \ {n} : v[i] = w[i]
      BY <1>9
    <3> HIDE DEF D
    <3>. QED  BY <3>1, <3>2, SumSame
  <2>4. v[n] = w[n] + d /\ w[n] \in Int
    BY <1>7, <1>9, <2>1
  <2>5. d = p.net - SumFunctionOnSet(w, D) /\ d \in Int /\ p.net \in Int
    BY <1>1, <1>6 DEF d
  <2> HIDE DEF D, n
  <2>. QED  BY <2>2, <2>3, <2>4, <2>5
<1>12. ASSUME p.net = R * p.wins - R * p.losses
       PROVE  {i \in D : v[i] > 0} = W /\ {i \in D : v[i] < 0} = L
  <2>1. d = 0
    BY <1>5, <1>6, <1>12
  <2>2. \A i \in D : v[i] = w[i]
    BY <1>7, <1>9, <2>1
  <2>. QED  BY <2>2
<1>13. Cardinality(W) = p.wins /\ Cardinality(L) = p.losses
  <2>1. W = 1..p.wins /\ L = p.wins + 1..p.wins + p.losses
    BY <1>1, <1>2
  <2>2. Cardinality(1..p.wins) = p.wins
    BY <1>1, CountPlaces
  <2>3. Cardinality(p.wins + 1..p.wins + p.losses) = p.losses
    BY <1>1, CountBetween
  <2>. QED  BY <2>1, <2>2, <2>3
<1>14. /\ Summary(v).trades = n /\ Summary(v).net = p.net
       /\ Summary(v).wins = Cardinality({i \in D : v[i] > 0})
       /\ Summary(v).losses = Cardinality({i \in D : v[i] < 0})
  <2>1. DOMAIN v \subseteq Int
    BY <1>9
  <2>. QED  BY <1>3, <1>9, <1>11, <2>1, SummaryFacts
<1> HIDE DEF W, L
<1>. QED  BY <1>3, <1>9, <1>10, <1>12, <1>13, <1>14 DEF v
-----------------------------------------------------------------------------
(***************************************************************************)
(* SourceLearning: the ledger and the memory.                              *)
(***************************************************************************)

\* What the results on the ledger are, for any ledger of events.
LEMMA HistoryFacts ==
  ASSUME LearnTypeOK, NEW s
  PROVE  /\ DOMAIN History(s) = Traded(s) /\ Traded(s) \subseteq 1..Len(ledger)
         /\ Len(ledger) \in Nat /\ IsFiniteSet(Traded(s)) /\ Traded(s) \subseteq Int
         /\ \A i \in Traded(s) : History(s)[i] = ledger[i].r /\ History(s)[i] \in Int
<1>1. ledger \in Seq(Event) /\ Len(ledger) \in Nat
  BY DEF LearnTypeOK
<1>2. DOMAIN History(s) = Traded(s) /\ Traded(s) \subseteq 1..Len(ledger)
  BY <1>1 DEF History, Traded
<1>3. IsFiniteSet(Traded(s))
  BY <1>1, <1>2, CountPlaces, FS_Subset
<1>4. \A i \in Traded(s) : History(s)[i] = ledger[i].r /\ ledger[i] \in Event
  BY <1>1 DEF History, Traded
<1>. QED  BY <1>1, <1>2, <1>3, <1>4 DEF Event

\* build makes the memory that is deserved.
LEMMA BuildIsHistory ==
  /\ DOMAIN Build = {s \in Sources : Traded(s) # {}}
  /\ \A s \in DOMAIN Build : Build[s] = Summary(History(s))
<1>1. \A s : DOMAIN ResultsOf(s) = Traded(s) /\ ResultsOf(s) = History(s)
  BY DEF ResultsOf, Traded, History, IsResult
<1>. QED  BY <1>1 DEF Build

\* Training examples go to the end of the ledger and are no results.
LEMMA ExamplesAppended ==
  ASSUME ledger \in Seq(Event)
  PROVE  /\ WithExamples \in Seq(Event)
         /\ Len(WithExamples) >= Len(ledger)
         /\ \A i \in DOMAIN WithExamples :
              IF i <= Len(ledger) THEN WithExamples[i] = ledger[i]
              ELSE WithExamples[i].kind = "example"
<1> DEFINE n == Len(ledger)
           A == {l \in Seq(Event) : /\ Len(l) >= n
                                    /\ \A i \in DOMAIN l : IF i <= n THEN l[i] = ledger[i]
                                                           ELSE l[i].kind = "example"}
           step(k, l) == IF IsResult(ledger[k]) THEN Append(l, [ledger[k] EXCEPT !.kind = "example"])
                         ELSE l
           F == [x \in (1..n) \X A |-> step(x[1], x[2])]
           body(h) == [k \in 0..n |-> IF k = 0 THEN ledger ELSE step(k, h[k - 1])]
           it == CHOOSE h : h = body(h)
<1>1. n \in Nat /\ ledger \in A
  OBVIOUS
<1>2. ASSUME NEW k \in 1..n, NEW l \in A PROVE step(k, l) \in A
  <2> DEFINE e == [ledger[k] EXCEPT !.kind = "example"]
  <2>1. e \in Event /\ e.kind = "example"
    <3>1. ledger[k] \in Event
      BY <1>1
    <3>. QED  BY <3>1 DEF Event
  <2> HIDE DEF e
  <2>2. /\ Append(l, e) \in Seq(Event) /\ Len(Append(l, e)) = Len(l) + 1
        /\ \A i \in 1..Len(l) : Append(l, e)[i] = l[i]
        /\ Append(l, e)[Len(l) + 1] = e /\ Len(l) \in Nat /\ Len(l) >= n
    BY <2>1
  <2>3. \A i \in DOMAIN Append(l, e) : i \in 1..Len(l) \/ i = Len(l) + 1
    BY <2>2
  <2>4. Append(l, e) \in A
    <3>1. \A i \in DOMAIN l : IF i <= n THEN l[i] = ledger[i] ELSE l[i].kind = "example"
      OBVIOUS
    <3>2. DOMAIN l = 1..Len(l)
      OBVIOUS
    <3> DEFINE m == Append(l, e)
    <3> HIDE DEF m, n
    <3>3. \A i \in DOMAIN m : IF i <= n THEN m[i] = ledger[i] ELSE m[i].kind = "example"
      BY <1>1, <2>1, <2>2, <2>3, <3>1, <3>2 DEF m
    <3>4. m \in Seq(Event) /\ Len(m) >= n
      BY <1>1, <2>2 DEF m
    <3>. QED  BY <3>3, <3>4 DEF m
  <2>5. step(k, l) = IF IsResult(ledger[k]) THEN Append(l, e) ELSE l
    BY DEF e
  <2> HIDE DEF A, step
  <2>. QED  BY <2>4, <2>5
<1> HIDE DEF A, step
<1>3. F \in [(1..n) \X A -> A] /\ \A k \in 1..n, l \in A : F[<<k, l>>] = step(k, l)
  BY <1>2
<1> HIDE DEF F
<1>4. PICK run : Rounds(run, n, A, ledger, F)
  BY <1>1, <1>3, LoopExists
<1>5. run = body(run)
  <2>1. \A k \in 1..n : run[k - 1] \in A /\ k - 1 \in 0..n
    BY <1>1, <1>4 DEF Rounds
  <2>2. \A k \in 0..n : run[k] = IF k = 0 THEN ledger ELSE step(k, run[k - 1])
    <3>1. \A k \in 0..n : k = 0 \/ k \in 1..n
      BY <1>1
    <3>2. \A k \in 1..n : k # 0
      BY <1>1
    <3> HIDE DEF n
    <3>. QED  BY <1>3, <1>4, <2>1, <3>1, <3>2 DEF Rounds
  <2> DEFINE b(k) == IF k = 0 THEN ledger ELSE step(k, run[k - 1])
  <2>3. [k \in 0..n |-> run[k]] = [k \in 0..n |-> b(k)]
    BY <2>2
  <2>4. run = [k \in 0..n |-> run[k]]
    BY <1>4 DEF Rounds
  <2>. QED  BY <2>3, <2>4
<1>6. it = body(it)
  <2> HIDE DEF body
  <2>. QED  BY <1>5, Zenon
<1>7. \A k \in 0..n : it[k] \in A
  <2> DEFINE G == {k \in 0..n : it[k] \in A}
  <2> HIDE DEF it
  <2>1. 0 \in G
    BY <1>1, <1>6
  <2>2. ASSUME NEW k \in 1..n, k - 1 \in G PROVE k \in G
    <3>1. it[k] = step(k, it[k - 1])
      BY <1>1, <1>6
    <3>2. k \in 0..n
      BY <1>1
    <3>. QED  BY <1>2, <2>2, <3>1, <3>2
  <2> HIDE DEF G
  <2>3. \A k \in 0..n : k \in G
    BY <1>1, <2>1, <2>2, PlaceInduction
  <2>. QED  BY <2>3 DEF G
<1>8. WithExamples = it[n]
  BY Zenon DEF WithExamples, step
<1>9. WithExamples \in A
  <2> HIDE DEF it
  <2>. QED  BY <1>1, <1>7, <1>8
<1>. QED  BY <1>9 DEF A

\* Events that are no results change nothing of what is deserved.
LEMMA SameHistory ==
  ASSUME LearnTypeOK, LearnTypeOK', Len(ledger') >= Len(ledger),
         \A i \in DOMAIN ledger' : IF i <= Len(ledger) THEN ledger'[i] = ledger[i]
                                   ELSE ledger'[i].kind # "outcome"
  PROVE  \A s : Traded(s)' = Traded(s) /\ History(s)' = History(s)
<1>1. /\ ledger \in Seq(Event) /\ ledger' \in Seq(Event) /\ Len(ledger) \in Nat
      /\ Len(ledger') \in Nat
  BY DEF LearnTypeOK
<1>2. ASSUME NEW s PROVE Traded(s)' = Traded(s)
  BY <1>1 DEF Traded
<1>3. ASSUME NEW s PROVE History(s)' = History(s)
  <2>1. \A i \in Traded(s) : ledger'[i] = ledger[i]
    BY <1>1 DEF Traded
  <2>. QED  BY <1>2, <2>1 DEF History
<1>. QED  BY <1>2, <1>3
-----------------------------------------------------------------------------
(***************************************************************************)
(* SourceLearning: the memory fits the ledger at every step.               *)
(***************************************************************************)

\* A performance that fits the results h of closed trades.
Fits(p, h) ==
  /\ p \in Performance /\ Plausible(p)
  /\ p.trades = Summary(h).trades /\ p.net = Summary(h).net
  /\ (\A i \in DOMAIN h : h[i] \in {R, 0, -R}) =>
       p.wins = Summary(h).wins /\ p.losses = Summary(h).losses

LEMMA LearnInvFits ==
  LearnInv <=> /\ ledger \in Seq(Event)
               /\ DOMAIN memory = {s \in Sources : Traded(s) # {}}
               /\ \A s \in DOMAIN memory : Fits(memory[s], History(s))
<1>1. \A s : DOMAIN History(s) = Traded(s) /\ \A i \in Traded(s) : History(s)[i] = ledger[i].r
  BY DEF History
<1>. QED  BY <1>1 DEF LearnInv, LearnTypeOK, MemoryTotals, Fits

LEMMA LearnInvFitsNext ==
  LearnInv' <=> /\ ledger' \in Seq(Event)
                /\ DOMAIN memory' = {s \in Sources : Traded(s)' # {}}
                /\ \A s \in DOMAIN memory' : Fits(memory'[s], History(s)')
<1>1. \A s : DOMAIN History(s)' = Traded(s)' /\ \A i \in Traded(s)' : History(s)'[i] = ledger'[i].r
  BY DEF History
<1>. QED  BY <1>1 DEF LearnInv, LearnTypeOK, MemoryTotals, Fits

\* What is known of the true summary.
LEMMA Deserved ==
  ASSUME LearnTypeOK, NEW s
  PROVE  /\ Summary(History(s)) \in Performance /\ Plausible(Summary(History(s)))
         /\ Summary(History(s)).trades = Cardinality(Traded(s))
         /\ Cardinality(Traded(s)) \in Nat /\ (Traded(s) # {} => Cardinality(Traded(s)) > 0)
         /\ (\A i \in DOMAIN History(s) : History(s)[i] \in {R, 0, -R}) =>
              Summary(History(s)).net = R * Summary(History(s)).wins - R * Summary(History(s)).losses
<1> DEFINE h == History(s)
           D == Traded(s)
<1>1. /\ DOMAIN h = D /\ IsFiniteSet(D) /\ D \subseteq Int
      /\ \A i \in D : h[i] = ledger[i].r /\ h[i] \in Int
  BY HistoryFacts
<1> HIDE DEF h, D
<1>2. /\ Summary(h) \in Performance /\ Plausible(Summary(h))
      /\ Summary(h).trades = Cardinality(D) /\ Summary(h).net = SumFunctionOnSet(h, D)
      /\ Summary(h).wins = Cardinality({i \in D : h[i] > 0})
      /\ Summary(h).losses = Cardinality({i \in D : h[i] < 0})
  BY <1>1, SummaryFacts
<1>3. Cardinality(D) \in Nat /\ (D # {} => Cardinality(D) > 0)
  BY <1>1, FS_CardinalityType, FS_EmptySet
<1>4. ASSUME \A i \in D : h[i] \in {R, 0, -R}
      PROVE  Summary(h).net = R * Summary(h).wins - R * Summary(h).losses
  <2>2. R \in Nat /\ R > 0
    BY LearningAssumption
  <2>3. SumFunctionOnSet(h, D)
          = R * Cardinality({i \in D : h[i] > 0}) - R * Cardinality({i \in D : h[i] < 0})
    BY <1>1, <1>4, <2>2, SumOfWholes
  <2>. QED  BY <1>2, <2>3
<1>. QED  BY <1>1, <1>2, <1>3, <1>4 DEF h, D

\* The values the memory is turned into fit as it did.
LEMMA ValuesFit ==
  ASSUME LearnInv, NEW s \in Sources
  PROVE  LET v == IF s \in DOMAIN memory THEN Values(memory[s]) ELSE <<>>
         IN  /\ v \in Seq(Int) /\ DOMAIN v = 1..Len(v) /\ IsFiniteSet(DOMAIN v)
             /\ Fits(Summary(v), History(s))
<1> DEFINE v == IF s \in DOMAIN memory THEN Values(memory[s]) ELSE <<>>
           h == History(s)
           p == memory[s]
<1>1. LearnTypeOK
  BY DEF LearnInv
<1>2. /\ Summary(h) \in Performance /\ Summary(h).trades = Cardinality(Traded(s))
      /\ Traded(s) # {} => Cardinality(Traded(s)) > 0
      /\ (\A i \in DOMAIN h : h[i] \in {R, 0, -R}) =>
           Summary(h).net = R * Summary(h).wins - R * Summary(h).losses
  BY <1>1, Deserved
<1>3. CASE s \in DOMAIN memory
  <2>1. Fits(p, History(s)) /\ Traded(s) # {}
    BY <1>3, LearnInvFits
  <2>2. p \in Performance /\ p.wins + p.losses <= p.trades /\ p.trades > 0
    BY <1>2, <2>1 DEF Fits, Plausible
  <2>3. /\ v \in Seq(Int) /\ DOMAIN v = 1..p.trades /\ Len(v) = p.trades
        /\ IsFiniteSet(DOMAIN v) /\ Summary(v).trades = p.trades /\ Summary(v).net = p.net
        /\ p.net = R * p.wins - R * p.losses =>
             Summary(v).wins = p.wins /\ Summary(v).losses = p.losses
    BY <1>3, <2>2, ValuesFacts
  <2> HIDE DEF v, p, h
  <2>4. Summary(v) \in Performance /\ Plausible(Summary(v))
    <3>1. DOMAIN v \subseteq Int /\ \A i \in DOMAIN v : v[i] \in Int
      BY <2>3
    <3>. QED  BY <2>3, <3>1, SummaryFacts
  <2>5. /\ Summary(v).trades = Summary(h).trades /\ Summary(v).net = Summary(h).net
        /\ (\A i \in DOMAIN h : h[i] \in {R, 0, -R}) =>
             Summary(v).wins = Summary(h).wins /\ Summary(v).losses = Summary(h).losses
    BY <1>2, <2>1, <2>3 DEF Fits, h
  <2>6. Fits(Summary(v), History(s))
    BY <2>4, <2>5 DEF Fits, h
  <2>. QED  BY <2>3, <2>6 DEF v
<1>4. CASE s \notin DOMAIN memory
  <2>1. Traded(s) = {}
    BY <1>4, LearnInvFits
  <2>2. DOMAIN h = {}
    BY <1>1, <2>1, HistoryFacts
  <2>3. Summary(v) = Summary(h)
    <3>1. v = h
      <4>1. h = [i \in {} |-> ledger[i].r] /\ v = <<>>
        BY <1>4, <2>1 DEF History
      <4>. QED  BY <4>1
    <3> HIDE DEF v, h
    <3>. QED  BY <3>1
  <2>4. v \in Seq(Int) /\ DOMAIN v = 1..Len(v) /\ IsFiniteSet(DOMAIN v)
    <3>1. DOMAIN v = {} /\ v \in Seq(Int) /\ Len(v) = 0
      BY <1>4
    <3> HIDE DEF v
    <3>. QED  BY <3>1, FS_EmptySet
  <2>5. Fits(Summary(h), h)
    BY <1>1, <1>2, Deserved DEF Fits
  <2>. QED  BY <2>3, <2>4, <2>5
<1>. QED  BY <1>3, <1>4

\* A closed trade: its source fits with the result, the others as they did.
LEMMA CloseTradeFits ==
  ASSUME LearnInv, CloseTrade
  PROVE  LearnInv'
<1>1. PICK s \in Sources, r \in Outcomes :
        /\ ledger' = Append(ledger, [kind |-> "outcome", source |-> s, r |-> r])
        /\ memory' = Ingest(s, r)
  BY DEF CloseTrade
<1> DEFINE v(t) == IF t \in DOMAIN memory THEN Values(memory[t]) ELSE <<>>
           n == Len(ledger) + 1
           w == Append(v(s), r)
<1>2. ledger \in Seq(Event) /\ Len(ledger) \in Nat /\ LearnTypeOK /\ r \in Int
  BY LearningAssumption DEF LearnInv, LearnTypeOK
<1>3. /\ ledger' \in Seq(Event) /\ Len(ledger') = n /\ \A i \in 1..Len(ledger) : ledger'[i] = ledger[i]
      /\ ledger'[n] = [kind |-> "outcome", source |-> s, r |-> r] /\ DOMAIN ledger' = 1..n
  <2> DEFINE e == [kind |-> "outcome", source |-> s, r |-> r]
  <2>1. e \in Event
    BY <1>2 DEF Event
  <2> HIDE DEF e
  <2>. QED  BY <1>1, <1>2, <2>1 DEF e
<1>4. \A t : Traded(t)' = IF t = s THEN Traded(t) \cup {n} ELSE Traded(t)
  BY <1>2, <1>3 DEF Traded
<1>5. \A t : t # s => History(t)' = History(t)
  <2>1. ASSUME NEW t, t # s PROVE History(t)' = History(t)
    <3>1. Traded(t)' = Traded(t) /\ \A i \in Traded(t) : ledger'[i] = ledger[i]
      BY <1>2, <1>3, <1>4, <2>1 DEF Traded
    <3>. QED  BY <3>1 DEF History
  <2>. QED  BY <2>1
<1>6. /\ DOMAIN memory' = DOMAIN memory \cup {s}
      /\ \A t \in DOMAIN memory' : memory'[t] = Summary(IF t = s THEN w ELSE v(t))
  BY <1>1 DEF Ingest
<1>7. DOMAIN memory \subseteq Sources /\ DOMAIN memory = {t \in Sources : Traded(t) # {}}
  BY LearnInvFits
<1>8. DOMAIN memory' = {t \in Sources : Traded(t)' # {}}
  BY <1>4, <1>6, <1>7
<1>9. \A t \in Sources : /\ v(t) \in Seq(Int) /\ DOMAIN v(t) = 1..Len(v(t)) /\ IsFiniteSet(DOMAIN v(t))
                         /\ Fits(Summary(v(t)), History(t))
  BY ValuesFit
<1> HIDE DEF v
<1>10. ASSUME NEW t \in DOMAIN memory', t # s PROVE Fits(memory'[t], History(t)')
  <2>1. t \in Sources /\ memory'[t] = Summary(v(t)) /\ Fits(Summary(v(t)), History(t))
    BY <1>6, <1>7, <1>9, <1>10
  <2>. QED  BY <1>5, <1>10, <2>1
<1>11. Fits(memory'[s], History(s)')
  <2> DEFINE h == History(s)
             g == History(s)'
             u == v(s)
  <2>1. /\ DOMAIN h = Traded(s) /\ IsFiniteSet(DOMAIN h) /\ DOMAIN h \subseteq 1..Len(ledger)
        /\ \A i \in DOMAIN h : h[i] = ledger[i].r /\ h[i] \in Int
    BY <1>2, HistoryFacts
  <2>2. /\ DOMAIN g = DOMAIN h \cup {n} /\ g[n] = r /\ (\A i \in DOMAIN h : g[i] = h[i])
        /\ n \in Int /\ n \notin DOMAIN h /\ DOMAIN h \subseteq Int
    <3>1. g = [i \in Traded(s)' |-> ledger'[i].r]
      BY DEF History
    <3>. QED  BY SMTT(30), <1>2, <1>3, <1>4, <2>1, <3>1
  <2>3. /\ u \in Seq(Int) /\ DOMAIN u = 1..Len(u) /\ IsFiniteSet(DOMAIN u) /\ Fits(Summary(u), History(s))
    BY <1>9
  <2> HIDE DEF h, g, u
  <2>4. /\ DOMAIN w = DOMAIN u \cup {Len(u) + 1} /\ w[Len(u) + 1] = r
        /\ \A i \in DOMAIN u : w[i] = u[i] /\ u[i] \in Int
        /\ Len(u) + 1 \in Int /\ Len(u) + 1 \notin DOMAIN u /\ DOMAIN u \subseteq Int
    BY <1>2, <2>3 DEF u
  <2> HIDE DEF w
  <2>5. /\ IsFiniteSet(DOMAIN w) /\ DOMAIN w \subseteq Int /\ (\A i \in DOMAIN w : w[i] \in Int)
        /\ Summary(w).trades = Summary(u).trades + 1 /\ Summary(w).net = Summary(u).net + r
        /\ Summary(w).wins = Summary(u).wins + IF r > 0 THEN 1 ELSE 0
        /\ Summary(w).losses = Summary(u).losses + IF r < 0 THEN 1 ELSE 0
    <3>1. Grown(w, u, Len(u) + 1)
      BY <1>2, <2>3, <2>4 DEF Grown
    <3>. QED  BY <2>4, <3>1, OneMore
  <2>6. /\ Summary(g).trades = Summary(h).trades + 1 /\ Summary(g).net = Summary(h).net + r
        /\ Summary(g).wins = Summary(h).wins + IF r > 0 THEN 1 ELSE 0
        /\ Summary(g).losses = Summary(h).losses + IF r < 0 THEN 1 ELSE 0
    <3>1. Grown(g, h, n)
      BY <1>2, <2>1, <2>2 DEF Grown
    <3> HIDE DEF n
    <3>. QED  BY <2>2, <3>1, OneMore
  <2>7. Summary(w) \in Performance /\ Plausible(Summary(w))
    BY <2>5, SummaryFacts
  <2>8. (\A i \in DOMAIN g : g[i] \in {R, 0, -R}) => \A i \in DOMAIN h : h[i] \in {R, 0, -R}
    BY <2>2
  <2>9. memory'[s] = Summary(w) /\ g = History(s)'
    BY <1>6 DEF g
  <2>10. /\ Summary(u).trades = Summary(h).trades /\ Summary(u).net = Summary(h).net
         /\ (\A i \in DOMAIN h : h[i] \in {R, 0, -R}) =>
              Summary(u).wins = Summary(h).wins /\ Summary(u).losses = Summary(h).losses
    BY <2>3 DEF Fits, h
  <2>11. /\ Summary(w).trades = Summary(g).trades /\ Summary(w).net = Summary(g).net
         /\ (\A i \in DOMAIN g : g[i] \in {R, 0, -R}) =>
              Summary(w).wins = Summary(g).wins /\ Summary(w).losses = Summary(g).losses
    BY <2>5, <2>6, <2>8, <2>10
  <2>. QED  BY <2>7, <2>9, <2>11 DEF Fits
<1>12. \A t \in DOMAIN memory' : Fits(memory'[t], History(t)')
  BY <1>10, <1>11
<1>. QED  BY <1>3, <1>8, <1>12, LearnInvFitsNext

\* A memory built again fits.
LEMMA RebuildFits ==
  ASSUME LearnInv, Rebuild
  PROVE  LearnInv'
<1>1. ledger' = ledger /\ memory' = Build /\ LearnTypeOK
  BY DEF Rebuild, LearnInv
<1>2. \A s : Traded(s)' = Traded(s) /\ History(s)' = History(s)
  BY <1>1 DEF Traded, History
<1>3. /\ DOMAIN memory' = {s \in Sources : Traded(s)' # {}}
      /\ \A s \in DOMAIN memory' : memory'[s] = Summary(History(s)')
  BY <1>1, <1>2, BuildIsHistory
<1>4. \A s : Summary(History(s)) \in Performance /\ Plausible(Summary(History(s)))
  BY <1>1, Deserved
<1>5. \A s \in DOMAIN memory' : Fits(memory'[s], History(s)')
  BY <1>2, <1>3, <1>4 DEF Fits
<1>6. ledger' \in Seq(Event)
  BY <1>1 DEF LearnTypeOK
<1>. QED  BY <1>3, <1>5, <1>6, LearnInvFitsNext

\* The events the layer adds for itself change nothing.
LEMMA OwnEventsFit ==
  ASSUME LearnInv, Recommend \/ Train
  PROVE  LearnInv'
<1>1. LearnTypeOK /\ memory' = memory /\ ledger \in Seq(Event) /\ Len(ledger) \in Nat
  BY DEF Recommend, Train, LearnInv, LearnTypeOK
<1>2. /\ ledger' \in Seq(Event) /\ Len(ledger') >= Len(ledger)
      /\ \A i \in DOMAIN ledger' : IF i <= Len(ledger) THEN ledger'[i] = ledger[i]
                                   ELSE ledger'[i].kind # "outcome"
  <2>1. CASE Train
    <3>1. ledger' = WithExamples /\ "example" # "outcome"
      BY <2>1 DEF Train
    <3>. QED  BY <1>1, <3>1, ExamplesAppended
  <2>2. CASE Recommend
    <3>1. PICK s \in DOMAIN memory :
            ledger' = Append(ledger, [kind |-> "advice", source |-> s, r |-> 0])
      BY <2>2 DEF Recommend
    <3> DEFINE e == [kind |-> "advice", source |-> s, r |-> 0]
    <3>2. e \in Event /\ e.kind # "outcome"
      BY <1>1 DEF Event, LearnTypeOK
    <3> HIDE DEF e
    <3>3. ledger' = Append(ledger, e)
      BY <3>1 DEF e
    <3>4. /\ ledger' \in Seq(Event) /\ Len(ledger') = Len(ledger) + 1
          /\ \A i \in 1..Len(ledger) : ledger'[i] = ledger[i]
          /\ ledger'[Len(ledger) + 1] = e
      BY <1>1, <3>2, <3>3
    <3>5. \A i \in DOMAIN ledger' : i \in 1..Len(ledger) \/ (i = Len(ledger) + 1 /\ ~ (i <= Len(ledger)))
      BY <1>1, <3>4
    <3>. QED  BY <1>1, <3>2, <3>4, <3>5
  <2>. QED  BY <2>1, <2>2
<1>3. LearnTypeOK'
  BY <1>1, <1>2 DEF LearnTypeOK
<1>4. \A s : Traded(s)' = Traded(s) /\ History(s)' = History(s)
  BY <1>1, <1>2, <1>3, SameHistory
<1>6. \A s \in DOMAIN memory : Fits(memory[s], History(s))
  BY LearnInvFits
<1>7. \A s \in DOMAIN memory' : Fits(memory'[s], History(s)')
  BY <1>1, <1>4, <1>6
<1>8. DOMAIN memory' = {s \in Sources : Traded(s)' # {}}
  BY <1>1, <1>4, LearnInvFits
<1>. QED  BY <1>2, <1>7, <1>8, LearnInvFitsNext

LEMMA LearnInvKept ==
  ASSUME LearnInv, LearnNext \/ UNCHANGED learnVars
  PROVE  LearnInv'
<1>1. CASE CloseTrade
  BY <1>1, CloseTradeFits
<1>2. CASE Rebuild
  BY <1>2, RebuildFits
<1>3. CASE Recommend \/ Train
  BY <1>3, OwnEventsFit
<1>4. CASE UNCHANGED learnVars
  <2>1. ledger' = ledger /\ memory' = memory
    BY <1>4 DEF learnVars
  <2>2. \A s : Traded(s)' = Traded(s) /\ History(s)' = History(s)
    BY <2>1 DEF Traded, History
  <2>3. \A s \in DOMAIN memory' : Fits(memory'[s], History(s)')
    BY <2>1, <2>2, LearnInvFits
  <2>. QED  BY <2>1, <2>2, <2>3, LearnInvFits, LearnInvFitsNext
<1>. QED  BY <1>1, <1>2, <1>3, <1>4 DEF LearnNext

LEMMA LearnInvInit == Init => LearnInv
<1> SUFFICES ASSUME Init PROVE LearnInv
  OBVIOUS
<1>1. ledger = <<>> /\ memory = <<>> /\ ledger \in Seq(Event) /\ DOMAIN memory = {}
  BY DEF Init, LearnInit
<1>2. \A s : Traded(s) = {}
  BY <1>1 DEF Traded
<1>. QED  BY <1>1, <1>2, LearnInvFits

\* Advice comes from the net, and from the recent results where they are all.
LEMMA LearnInvAdvice == LearnInv => AdviceSound
<1> SUFFICES ASSUME LearnInv, NEW s \in DOMAIN memory
             PROVE  LET advised == Advice(memory[s])
                        deserved == Advice(Summary(History(s)))
                    IN  /\ {advised, deserved} # {"promote", "pause"}
                        /\ Cardinality(Traded(s)) <= Recent => advised = deserved
  BY DEF AdviceSound
<1> DEFINE p == memory[s]
           q == Summary(History(s))
<1>1. /\ Fits(p, History(s)) /\ LearnTypeOK
  BY LearnInvFits DEF LearnInv
<1>2. q \in Performance /\ Plausible(q) /\ q.trades = Cardinality(Traded(s))
  BY <1>1, Deserved
<1>3. /\ p \in Performance /\ Plausible(p) /\ p.trades = q.trades /\ p.net = q.net
  BY <1>1 DEF Fits
<1> HIDE DEF p, q
<1>4. p.net \in Int /\ p.recent \in Int /\ q.recent \in Int /\ p.trades \in Nat
  BY <1>2, <1>3 DEF Performance
<1>5. /\ Advice(p) = "pause" => p.net <= 0
      /\ Advice(p) = "promote" => p.net > 0
      /\ Advice(q) = "pause" => q.net <= 0
      /\ Advice(q) = "promote" => q.net > 0
  BY DEF Advice, Health
<1>6. {Advice(p), Advice(q)} # {"promote", "pause"}
  BY <1>3, <1>4, <1>5
<1>7. ASSUME Cardinality(Traded(s)) <= Recent PROVE Advice(p) = Advice(q)
  <2>1. p.recent = q.recent
    BY <1>2, <1>3, <1>7 DEF Plausible
  <2>. QED  BY <1>3, <2>1 DEF Advice, Health
<1>. QED  BY <1>6, <1>7 DEF p, q

LEMMA LearningStep ==
  ASSUME LearnInv, [Next]_vars
  PROVE  LearnInv'
<1>1. LearnNext \/ UNCHANGED learnVars
  BY DEF Next, vars, learnVars
<1>. QED  BY <1>1, LearnInvKept

LEMMA LearnInvAlways == Spec => []LearnInv
<1>. QED  BY LearnInvInit, LearningStep, PTL DEF Spec

\* Whatever was built, ingested, advised and trained, the memory of every source has the
\* trades and the net of its closed trades, and its wins and losses while results are whole.
THEOREM MemoryKeepsTotals == Spec => []MemoryTotals
<1>1. LearnInv => MemoryTotals
  BY DEF LearnInv
<1>. QED  BY <1>1, LearnInvAlways, PTL

\* The advice given from a memory is never the opposite of the one its trades deserve,
\* and the same while all of them are recent.
THEOREM AdviceNeverOpposite == Spec => []AdviceSound
<1>. QED  BY LearnInvAdvice, LearnInvAlways, PTL
-----------------------------------------------------------------------------
(***************************************************************************)
(* SignalParsing: what the parser extracts is in the text.                 *)
(***************************************************************************)

\* A word with a price is a level.
LEMMA LevelWords ==
  \A w \in Words : "price" \in DOMAIN w =>
    w \in Level /\ w.price \in Nat /\ w.price # NoLevel /\ w.label \in Labels /\ (w.label = "" => w.at)
<1> SUFFICES ASSUME NEW w \in Words, "price" \in DOMAIN w PROVE w \in Level
  BY Zenon, ParsingAssumption DEF Level
<1>1. w \notin Keyword /\ w \notin Name
  BY DEF Keyword, Name
<1>. QED  BY Zenon, <1>1, ParsingAssumption

\* The first element that passes a test.
LEMMA FirstSelected ==
  ASSUME NEW n \in Nat, NEW T \in SUBSET (1..n)
  PROVE  LET i == IF T # {} THEN Min(T) ELSE 0
         IN  IF T = {} THEN i = 0 ELSE i \in T /\ \A j \in T : i <= j
<1>1. T # {} => Min(T) \in T /\ \A j \in T : Min(T) <= j
  BY MinMember
<1>. QED  BY <1>1

\* The price of the first match is that of a match.
LEMMA LeadingLevel ==
  ASSUME NEW m \in Seq(Words), NEW T \in SUBSET DOMAIN m, \A i \in T : "price" \in DOMAIN m[i]
  PROVE  IF T = {} THEN Leading(m, T) = NoLevel
         ELSE \E i \in T : Leading(m, T) = m[i].price /\ m[i].price \in Nat \ {NoLevel}
<1>1. Len(m) \in Nat /\ T \in SUBSET (1..Len(m)) /\ \A i \in T : m[i] \in Words
  OBVIOUS
<1>2. T # {} => Min(T) \in T
  BY <1>1, FirstSelected
<1>. QED  BY Zenon, <1>1, <1>2, LevelWords DEF Leading

LEMMA ActionFound ==
  ASSUME NEW m
  PROVE  LET found == {i \in DOMAIN ActionWords : Has(m, ActionWords[i])}
         IN  IF found = {} THEN ExtractAction(m) = None
             ELSE ExtractAction(m) \in {"buy", "sell"} /\ \E i \in found : ExtractAction(m) = Meaning(i)
<1> DEFINE T == {i \in 1..Len(ActionWords) : Has(m, ActionWords[i])}
           i == IF T # {} THEN Min(T) ELSE 0
<1>1. Len(ActionWords) \in Nat /\ DOMAIN ActionWords = 1..Len(ActionWords)
  BY DEF ActionWords
<1>2. T \in SUBSET (1..Len(ActionWords))
  OBVIOUS
<1>3. IF T = {} THEN i = 0 ELSE i \in T /\ \A j \in T : i <= j
  <2> HIDE DEF T
  <2>. QED  BY <1>1, <1>2, FirstSelected
<1>4. ExtractAction(m) = IF i = 0 THEN None ELSE Meaning(i)
  BY DEF ExtractAction, SelectInSeq, Meaning
<1>5. i \in T => i # 0
  BY <1>1
<1> HIDE DEF i
<1>6. IF T = {} THEN ExtractAction(m) = None
      ELSE ExtractAction(m) \in {"buy", "sell"} /\ \E j \in T : ExtractAction(m) = Meaning(j)
  <2> HIDE DEF T
  <2>. QED  BY <1>3, <1>4, <1>5 DEF Meaning
<1>. QED  BY <1>1, <1>6

LEMMA SymbolFound ==
  ASSUME NEW m
  PROVE  ExtractSymbol(m) = None \/ (ExtractSymbol(m) \in ToSet(Aliases) /\ Names(m, ExtractSymbol(m)))
<1> DEFINE T == {i \in 1..Len(Aliases) : Names(m, Aliases[i])}
           i == IF T # {} THEN Min(T) ELSE 0
<1>1. Len(Aliases) \in Nat /\ DOMAIN Aliases = 1..Len(Aliases)
  BY DEF Aliases
<1>2. T \in SUBSET (1..Len(Aliases))
  OBVIOUS
<1>3. i = 0 \/ i \in T
  <2> HIDE DEF T
  <2>. QED  BY <1>1, <1>2, FirstSelected
<1>4. ExtractSymbol(m) = IF i = 0 THEN None ELSE Aliases[i]
  BY DEF ExtractSymbol, SelectInSeq
<1> HIDE DEF i
<1>. QED  BY <1>1, <1>3, <1>4 DEF ToSet

\* The levels with a label, and those with an @.
Labelled(m, label) == {i \in DOMAIN m : "price" \in DOMAIN m[i] /\ m[i].label = label}
Marked(m) == {i \in DOMAIN m : "price" \in DOMAIN m[i] /\ m[i].at}

\* The entry is of the first pattern that matches.
LEMMA EntryFound ==
  ASSUME NEW m \in Seq(Words)
  PROVE  LET entries == Labelled(m, "ENTRY")
             ats     == Marked(m)
             limits  == Labelled(m, "LIMIT")
         IN  /\ ExtractEntry(m) \in Nat
             /\ ExtractEntry(m) = NoLevel <=> entries = {} /\ ats = {} /\ limits = {}
             /\ ExtractEntry(m) # NoLevel =>
                  \E i \in DOMAIN m :
                    /\ "price" \in DOMAIN m[i] /\ ExtractEntry(m) = m[i].price
                    /\ m[i].price \in Nat
                    /\ \/ i \in entries \/ (entries = {} /\ (i \in ats \/ i \in limits))
<1> DEFINE P == EntryPatterns(m)
           T == {k \in 1..Len(P) : P[k] # {}}
           k == IF T # {} THEN Min(T) ELSE 0
           entries == Labelled(m, "ENTRY")
           ats     == Marked(m)
           limits  == Labelled(m, "LIMIT")
<1>1. P = <<entries, ats, limits>>
  BY DEF EntryPatterns, Levels, Labelled, Marked
<1>2. \A places \in {entries, ats, limits} :
        places \in SUBSET DOMAIN m /\ \A i \in places : "price" \in DOMAIN m[i]
  BY DEF Labelled, Marked
<1> HIDE DEF P, entries, ats, limits
<1>3. Len(P) = 3 /\ P[1] = entries /\ P[2] = ats /\ P[3] = limits
  BY <1>1
<1>4. T \in SUBSET (1..3) /\ 3 \in Nat
  BY <1>3
<1>5. IF T = {} THEN k = 0 ELSE k \in T /\ \A j \in T : k <= j
  <2> HIDE DEF T
  <2>. QED  BY <1>4, FirstSelected
<1>6. ExtractEntry(m) = IF k = 0 THEN NoLevel ELSE Leading(m, P[k])
  BY DEF ExtractEntry, SelectInSeq, P
<1> HIDE DEF k
<1>7. CASE T = {}
  <2>1. entries = {} /\ ats = {} /\ limits = {}
    BY <1>3, <1>7
  <2>. QED  BY <1>5, <1>6, <1>7, <2>1 DEF NoLevel, entries, ats, limits
<1>8. CASE T # {}
  <2>1. k \in 1..3 /\ k # 0 /\ P[k] # {} /\ (k # 1 => entries = {})
    BY <1>3, <1>4, <1>5, <1>8
  <2>2. P[k] \in {entries, ats, limits} /\ (k = 1 => P[k] = entries) /\ (k # 1 => P[k] \in {ats, limits})
    BY <1>3, <2>1
  <2>3. PICK i \in P[k] : Leading(m, P[k]) = m[i].price /\ m[i].price \in Nat \ {NoLevel}
    <3>1. P[k] \in SUBSET DOMAIN m /\ \A i \in P[k] : "price" \in DOMAIN m[i]
      BY <1>2, <2>2
    <3>. QED  BY <2>1, <3>1, LeadingLevel
  <2>4. ExtractEntry(m) = m[i].price /\ ExtractEntry(m) # NoLevel
    BY <1>6, <2>1, <2>3
  <2>5. i \in DOMAIN m /\ "price" \in DOMAIN m[i]
    BY <1>2, <2>2
  <2>6. i \in entries \/ (entries = {} /\ (i \in ats \/ i \in limits))
    BY <2>1, <2>2
  <2>7. ~ (entries = {} /\ ats = {} /\ limits = {})
    BY <2>6
  <2>. QED  BY <2>3, <2>4, <2>5, <2>6, <2>7 DEF entries, ats, limits
<1>. QED  BY <1>7, <1>8
-----------------------------------------------------------------------------
(***************************************************************************)
(* SignalParsing: paper trades are what the processor made of the message. *)
(***************************************************************************)

\* A valid signal has all that a paper trade needs.
LEMMA ValidSignal ==
  ASSUME NEW m \in Seq(Words), Parse(m).status = "VALID_SIGNAL"
  PROVE  /\ \A w \in CloseWords \cup UpdateWords : ~ Has(m, w)
         /\ Complete(m)
         /\ Parse(m) = [status |-> "VALID_SIGNAL", action |-> ExtractAction(m),
                        symbol |-> ExtractSymbol(m), entry |-> ExtractEntry(m),
                        stop |-> ExtractStop(m), target |-> ExtractTarget(m)]
         /\ Parse(m) \in [status : {"VALID_SIGNAL"}, action : {"buy", "sell"},
                          symbol : ToSet(Aliases), entry : Nat, stop : Nat \ {NoLevel},
                          target : Nat \ {NoLevel}]
<1>1. ParseStatus(m) = "VALID_SIGNAL"
  BY DEF Parse
<1>2. (\A w \in CloseWords \cup UpdateWords : ~ Has(m, w)) /\ Complete(m)
  BY <1>1 DEF ParseStatus
<1>3. Parse(m) = [status |-> "VALID_SIGNAL", action |-> ExtractAction(m),
                  symbol |-> ExtractSymbol(m), entry |-> ExtractEntry(m),
                  stop |-> ExtractStop(m), target |-> ExtractTarget(m)]
  BY <1>1 DEF Parse
<1>4. /\ ExtractAction(m) # None /\ ExtractSymbol(m) # None
      /\ ExtractStop(m) # NoLevel /\ ExtractTarget(m) # NoLevel
  BY <1>2 DEF Complete
<1>5. ExtractAction(m) \in {"buy", "sell"}
  BY <1>4, ActionFound
<1>6. ExtractSymbol(m) \in ToSet(Aliases)
  BY <1>4, SymbolFound
<1>7. ExtractEntry(m) \in Nat
  BY EntryFound
<1>8. ExtractStop(m) \in Nat \ {NoLevel}
  <2> DEFINE T == Labelled(m, "SL")
  <2>1. T \in SUBSET DOMAIN m /\ \A i \in T : "price" \in DOMAIN m[i]
    BY DEF Labelled
  <2>2. ExtractStop(m) = Leading(m, T)
    BY DEF ExtractStop, Levels, Labelled
  <2> HIDE DEF T
  <2>. QED  BY <1>4, <2>1, <2>2, LeadingLevel
<1>9. ExtractTarget(m) \in Nat \ {NoLevel}
  <2> DEFINE T == Labelled(m, "TP")
  <2>1. T \in SUBSET DOMAIN m /\ \A i \in T : "price" \in DOMAIN m[i]
    BY DEF Labelled
  <2>2. ExtractTarget(m) = Leading(m, T)
    BY DEF ExtractTarget, Levels, Labelled
  <2> HIDE DEF T
  <2>. QED  BY <1>4, <2>1, <2>2, LeadingLevel
<1>. QED  BY <1>2, <1>3, <1>5, <1>6, <1>7, <1>8, <1>9

LEMMA StatusKnown ==
  ASSUME NEW m
  PROVE  ParseStatus(m) \in Statuses /\ Parse(m).status = ParseStatus(m) /\ Parse(m) # NoSignal
<1>1. ParseStatus(m) \in Statuses
  BY DEF ParseStatus, Statuses
<1>2. Parse(m).status = ParseStatus(m)
  BY DEF Parse
<1>3. NoSignal.status \notin Statuses
  BY DEF NoSignal, Statuses
<1>. QED  BY <1>1, <1>2, <1>3

LEMMA DeskInvInit == Init => DeskInv
BY DEF Init, DeskInit, DeskInv, DeskTypeOK, NoSignal

LEMMA DeskInvKept ==
  ASSUME DeskInv, DeskNext \/ UNCHANGED deskVars
  PROVE  DeskInv'
<1> USE DEF DeskInv
<1>1. CASE Write
  <2>1. message' \in Seq(Words) /\ signal' = signal /\ parsed' = parsed /\ papers' = papers /\ signal = NoSignal
    BY <1>1 DEF Write, DeskTypeOK
  <2>2. signal.status # "VALID_SIGNAL" /\ DOMAIN papers = {}
    BY <2>1 DEF NoSignal
  <2>. QED  BY <2>1, <2>2 DEF DeskTypeOK
<1>2. CASE ProcessRawSignal
  <2>1. /\ signal = NoSignal /\ signal' = Parse(message) /\ message' = message /\ papers' = papers
        /\ parsed' = Append(parsed, ParseStatus(message))
    BY <1>2 DEF ProcessRawSignal
  <2>2. DOMAIN papers' = {}
    BY <2>1 DEF NoSignal
  <2>3. parsed' \in Seq(Statuses)
    BY <2>1, StatusKnown DEF DeskTypeOK
  <2>4. signal'.status = "VALID_SIGNAL" =>
          signal' \in [status : {"VALID_SIGNAL"}, action : {"buy", "sell"}, symbol : ToSet(Aliases),
                       entry : Nat, stop : Nat \ {NoLevel}, target : Nat \ {NoLevel}]
    BY <2>1, ValidSignal DEF DeskTypeOK
  <2>. QED  BY <2>1, <2>2, <2>3, <2>4 DEF DeskTypeOK
<1>3. CASE PaperTradeSignal
  <2> DEFINE p == [action |-> signal.action, symbol |-> signal.symbol, entry |-> signal.entry,
                   stop |-> signal.stop, target |-> signal.target]
  <2>1. /\ signal.status = "VALID_SIGNAL" /\ papers' = Append(papers, p)
        /\ message' = message /\ signal' = signal /\ parsed' = parsed
    BY <1>3 DEF PaperTradeSignal, CreatePaperTrade
  <2>2. p \in Paper
    BY <2>1 DEF DeskTypeOK, Paper
  <2> HIDE DEF p
  <2>3. papers \in Seq(Paper) /\ papers' \in Seq(Paper)
    BY <2>1, <2>2 DEF DeskTypeOK
  <2>4. \A i \in DOMAIN papers' : papers'[i] = p
    <3>1. \A i \in DOMAIN papers : papers[i] = p
      BY DEF p
    <3>. QED  BY <2>1, <2>2, <2>3, <3>1
  <2>. QED  BY <2>1, <2>3, <2>4 DEF DeskTypeOK, p
<1>4. CASE UNCHANGED deskVars
  BY <1>4 DEF deskVars, DeskTypeOK
<1>. QED  BY <1>1, <1>2, <1>3, <1>4 DEF DeskNext

LEMMA DeskInvAlways == Spec => []DeskInv
<1>1. DeskInv /\ [Next]_vars => DeskInv'
  <2>1. [Next]_vars => DeskNext \/ UNCHANGED deskVars
    BY DEF Next, vars, deskVars
  <2>. QED  BY <2>1, DeskInvKept
<1>. QED  BY <1>1, DeskInvInit, PTL DEF Spec

\* A set of at most one element has the element that is in it.
LEMMA OnlyOne ==
  ASSUME NEW S, IsFiniteSet(S), Cardinality(S) <= 1, NEW x \in S
  PROVE  S = {x}
<1>1. Cardinality(S) \in Nat /\ Cardinality(S) # 0
  BY FS_CardinalityType, FS_EmptySet
<1>2. Cardinality(S) = 1
  BY <1>1
<1>. QED  BY <1>2, FS_Singleton

LEMMA WrittenIsFinite ==
  ASSUME message \in Seq(Words)
  PROVE  IsFiniteSet(Written) /\ Written \subseteq Words /\ \A i \in DOMAIN message : message[i] \in Written
<1>1. Written = {message[i] : i \in 1..Len(message)} /\ Len(message) \in Nat
  BY DEF Written, ToSet
<1>2. IsFiniteSet(1..Len(message))
  BY <1>1, CountPlaces
<1>3. message \in Surjection(1..Len(message), Written)
  BY <1>1 DEF Surjection
<1>4. IsFiniteSet(Written)
  BY <1>2, <1>3, FS_Surjection
<1>. QED  BY <1>1, <1>4

\* The levels of a kind are those of the labels of the kind: at most one in a plain message.
LEMMA OneLevel ==
  ASSUME message \in Seq(Words), NEW labels,
         Cardinality({w \in Written : "price" \in DOMAIN w /\ w.label \in labels}) <= 1,
         NEW i \in DOMAIN message, "price" \in DOMAIN message[i], message[i].label \in labels
  PROVE  Prices(labels) = {message[i].price}
<1> DEFINE S == {w \in Written : "price" \in DOMAIN w /\ w.label \in labels}
<1>1. IsFiniteSet(S) /\ message[i] \in S
  <2>1. IsFiniteSet(Written) /\ message[i] \in Written /\ S \subseteq Written
    BY WrittenIsFinite
  <2> HIDE DEF S
  <2>2. IsFiniteSet(S)
    BY <2>1, FS_Subset
  <2>. QED  BY <2>1, <2>2 DEF S
<1>2. S = {message[i]}
  <2> HIDE DEF S
  <2>1. Cardinality(S) <= 1
    BY DEF S
  <2>. QED  BY <1>1, <2>1, OnlyOne
<1>3. Prices(labels) = {w.price : w \in S}
  BY DEF Prices
<1> HIDE DEF S
<1>. QED  BY <1>2, <1>3

LEMMA DeskInvMeant == DeskInv => PaperAsMeant
<1> SUFFICES ASSUME DeskInv, NEW k \in DOMAIN papers
             PROVE  /\ \A word \in CloseWords \cup UpdateWords : ~ Has(message, word)
                    /\ Plain =>
                         /\ \A d \in Directions : papers[k].action = Meaning(d)
                         /\ Names(message, papers[k].symbol)
                         /\ Prices({"SL"}) = {papers[k].stop} /\ Prices({"TP"}) = {papers[k].target}
                         /\ ~ Stray => Prices({"", "ENTRY", "LIMIT"}) = {papers[k].entry} \ {NoLevel}
  BY Zenon DEF PaperAsMeant
<1> DEFINE m == message
           p == papers[k]
<1>1. /\ m \in Seq(Words) /\ signal.status = "VALID_SIGNAL" /\ signal = Parse(m)
      /\ p = [action |-> signal.action, symbol |-> signal.symbol, entry |-> signal.entry,
              stop |-> signal.stop, target |-> signal.target]
  BY DEF DeskInv, DeskTypeOK, NoSignal
<1> HIDE DEF p
<1>2. /\ \A w \in CloseWords \cup UpdateWords : ~ Has(m, w)
      /\ Complete(m)
      /\ p.action = ExtractAction(m) /\ p.symbol = ExtractSymbol(m) /\ p.entry = ExtractEntry(m)
      /\ p.stop = ExtractStop(m) /\ p.target = ExtractTarget(m)
  BY <1>1, ValidSignal
<1>3. /\ p.action # None /\ p.symbol # None /\ p.stop # NoLevel /\ p.target # NoLevel
  BY <1>2 DEF Complete
<1> SUFFICES ASSUME Plain
             PROVE  /\ \A d \in Directions : p.action = Meaning(d)
                    /\ Names(m, p.symbol)
                    /\ Prices({"SL"}) = {p.stop} /\ Prices({"TP"}) = {p.target}
                    /\ ~ Stray => Prices({"", "ENTRY", "LIMIT"}) = {p.entry} \ {NoLevel}
  BY Zenon, <1>2 DEF p
<1>4. \A d \in Directions : p.action = Meaning(d)
  <2>1. PICK i \in Directions : p.action = Meaning(i)
    BY <1>2, <1>3, ActionFound DEF Directions
  <2>2. IsFiniteSet(Directions)
    <3>1. Directions \subseteq 1..4 /\ 4 \in Nat
      BY DEF Directions, ActionWords
    <3>. QED  BY <3>1, CountPlaces, FS_Subset
  <2>3. Cardinality(Directions) = 1
    BY Zenon DEF Plain
  <2>4. Directions = {i}
    BY <2>2, <2>3, FS_Singleton
  <2>. QED  BY <2>1, <2>4
<1>5. Names(m, p.symbol)
  BY <1>2, <1>3, SymbolFound
<1>6. \A labels \in {{"", "ENTRY", "LIMIT"}, {"SL"}, {"TP"}} :
        Cardinality({w \in Written : "price" \in DOMAIN w /\ w.label \in labels}) <= 1
  BY Zenon DEF Plain
<1>7. Prices({"SL"}) = {p.stop}
  <2>1. \E i \in Labelled(m, "SL") : ExtractStop(m) = m[i].price
    <3>1. ExtractStop(m) = Leading(m, Labelled(m, "SL"))
      BY DEF ExtractStop, Levels, Labelled
    <3>2. /\ Labelled(m, "SL") \in SUBSET DOMAIN m
          /\ \A i \in Labelled(m, "SL") : "price" \in DOMAIN m[i]
      BY DEF Labelled
    <3>. QED  BY <1>1, <1>2, <1>3, <3>1, <3>2, LeadingLevel
  <2>2. PICK i \in DOMAIN m : "price" \in DOMAIN m[i] /\ m[i].label = "SL" /\ p.stop = m[i].price
    BY <1>2, <2>1 DEF Labelled
  <2>3. Cardinality({w \in Written : "price" \in DOMAIN w /\ w.label \in {"SL"}}) <= 1
    BY Zenon, <1>6
  <2>. QED  BY <1>1, <2>2, <2>3, OneLevel
<1>8. Prices({"TP"}) = {p.target}
  <2>1. \E i \in Labelled(m, "TP") : ExtractTarget(m) = m[i].price
    <3>1. ExtractTarget(m) = Leading(m, Labelled(m, "TP"))
      BY DEF ExtractTarget, Levels, Labelled
    <3>2. /\ Labelled(m, "TP") \in SUBSET DOMAIN m
          /\ \A i \in Labelled(m, "TP") : "price" \in DOMAIN m[i]
      BY DEF Labelled
    <3>. QED  BY <1>1, <1>2, <1>3, <3>1, <3>2, LeadingLevel
  <2>2. PICK i \in DOMAIN m : "price" \in DOMAIN m[i] /\ m[i].label = "TP" /\ p.target = m[i].price
    BY <1>2, <2>1 DEF Labelled
  <2>3. Cardinality({w \in Written : "price" \in DOMAIN w /\ w.label \in {"TP"}}) <= 1
    BY Zenon, <1>6
  <2>. QED  BY <1>1, <2>2, <2>3, OneLevel
<1>9. ASSUME ~ Stray PROVE Prices({"", "ENTRY", "LIMIT"}) = {p.entry} \ {NoLevel}
  <2> DEFINE E == {"", "ENTRY", "LIMIT"}
  <2>1. \A i \in DOMAIN m : "price" \in DOMAIN m[i] =>
          /\ m[i].price \in Nat /\ m[i].price # NoLevel /\ m[i].label \in Labels
          /\ m[i].label = "" => m[i].at
    <3>1. \A i \in DOMAIN m : m[i] \in Words
      BY <1>1
    <3>. QED  BY Zenon, <3>1, LevelWords
  <2>2. CASE p.entry = NoLevel
    <3>1. Labelled(m, "ENTRY") = {} /\ Marked(m) = {} /\ Labelled(m, "LIMIT") = {}
      BY <1>1, <1>2, <2>2, EntryFound
    <3>2. \A w \in Written : "price" \in DOMAIN w => w.label \notin E
      BY Zenon, <2>1, <3>1 DEF Written, ToSet, Labelled, Marked
    <3>. QED  BY Zenon, <2>2, <3>2 DEF Prices
  <2>3. CASE p.entry # NoLevel
    <3>1. PICK i \in DOMAIN m :
            /\ "price" \in DOMAIN m[i] /\ p.entry = m[i].price
            /\ \/ i \in Labelled(m, "ENTRY")
               \/ Labelled(m, "ENTRY") = {} /\ (i \in Marked(m) \/ i \in Labelled(m, "LIMIT"))
      BY <1>1, <1>2, <2>3, EntryFound
    <3>2. m[i].label \in E
      <4>1. CASE i \in Labelled(m, "ENTRY") \/ i \in Labelled(m, "LIMIT")
        BY Zenon, <4>1 DEF Labelled
      <4>2. CASE Labelled(m, "ENTRY") = {} /\ i \in Marked(m)
        <5>1. Prices({"ENTRY"}) = {}
          BY <4>2 DEF Prices, Written, ToSet, Labelled
        <5>2. m[i] \in Written /\ m[i].at
          BY <4>2 DEF Written, ToSet, Marked
        <5>3. m[i].label \notin {"SL", "TP"}
          BY <1>9, <3>1, <5>1, <5>2 DEF Stray
        <5>. QED  BY Zenon, <2>1, <3>1, <5>3 DEF Labels
      <4>. QED  BY Zenon, <3>1, <4>1, <4>2
    <3>3. Cardinality({w \in Written : "price" \in DOMAIN w /\ w.label \in E}) <= 1
      BY Zenon, <1>6
    <3> HIDE DEF E
    <3>4. Prices(E) = {p.entry}
      BY <1>1, <3>1, <3>2, <3>3, OneLevel
    <3>. QED  BY Zenon, <2>3, <3>4 DEF E
  <2>. QED  BY Zenon, <2>2, <2>3
<1>. QED  BY Zenon, <1>4, <1>5, <1>7, <1>8, <1>9

\* Every paper trade has the direction, symbol, stop and target of a plain message, and
\* its entry unless an @ stands in front of a stop or a target and no ENTRY is about;
\* none comes of a message that closes or moves a trade.
THEOREM PaperTradesAreMeant == Spec => []PaperAsMeant
<1>. QED  BY DeskInvMeant, DeskInvAlways, PTL
-----------------------------------------------------------------------------
(***************************************************************************)
(* SignalReplay: the candles are what is left of the ticks.                *)
(***************************************************************************)
Candle == [time : Nat, open : Price, high : Price, low : Price, close : Price, complete : BOOLEAN]

LEMMA ReplayInvInit == Init => ReplayInv
BY ReplayAssumption DEF Init, ReplayInit, ReplayInv, ReplayTypeOK, CandlesInOrder, CandlesTrue

\* A tick that opens a candle.
LEMMA OpenKeeps ==
  ASSUME ReplayInv, NEW price \in Price, Len(ticks) < MaxTicks, posts' = posts,
         ticks' = Append(ticks, price),
         candles = <<>> \/ candles[Len(candles)].complete,
         candles' = Append(candles, Opened(price))
  PROVE  ReplayInv'
<1> DEFINE n == Len(ticks)
           l == Len(candles)
           o == Opened(price)
<1>1. /\ ticks \in Seq(Price) /\ candles \in Seq(Candle) /\ n \in Nat /\ l \in Nat /\ n + 1 <= MaxTicks
      /\ MaxTicks \in Nat /\ Span \in Nat /\ Span > 0
  BY ReplayAssumption DEF ReplayInv, ReplayTypeOK, Candle
<1>2. /\ o \in Candle /\ o.time = n /\ o.low = price /\ o.high = price
      /\ o.complete <=> Span = 1
  BY <1>1 DEF Opened, Candle
<1> HIDE DEF o
<1>3. /\ ticks' \in Seq(Price) /\ Len(ticks') = n + 1 /\ ticks'[n + 1] = price
      /\ (\A i \in 1..n : ticks'[i] = ticks[i]) /\ DOMAIN ticks' = 1..n + 1 /\ DOMAIN ticks = 1..n
  BY <1>1
<1>4. /\ candles' \in Seq(Candle) /\ Len(candles') = l + 1 /\ candles'[l + 1] = o
      /\ (\A k \in 1..l : candles'[k] = candles[k] /\ candles[k] \in Candle)
      /\ DOMAIN candles' = 1..l + 1 /\ DOMAIN candles = 1..l
  <2>1. candles' = Append(candles, o)
    BY DEF o
  <2> HIDE DEF o
  <2>. QED  BY <1>1, <1>2, <2>1
<1>5. ReplayTypeOK'
  BY <1>3, <1>4 DEF ReplayInv, ReplayTypeOK, Candle
<1>6. \A k \in 1..l : /\ candles[k].complete /\ candles[k].time + Span <= n /\ candles[k].time \in Nat
                      /\ candles[k].time < n
  <2>1. \A k \in 1..l : /\ candles[k].time < n /\ (candles[k].complete <=> candles[k].time + Span <= n)
                        /\ k # l => candles[k].complete
    BY Zenon, <1>4 DEF ReplayInv, CandlesInOrder
  <2>2. ASSUME NEW k \in 1..l PROVE candles[k].complete
    <3>1. candles # <<>>
      BY <1>1
    <3>2. candles[l].complete
      BY <3>1
    <3>. QED  BY <2>1, <3>2
  <2>3. \A k \in 1..l : candles[k].time \in Nat
    BY <1>4 DEF Candle
  <2> HIDE DEF n, l
  <2>. QED  BY SMTT(30), <2>1, <2>2, <2>3
<1>7. CandlesInOrder'
  <2>1. candles' # <<>> /\ ticks' # <<>>
    BY <1>1, <1>3, <1>4
  <2>2. ASSUME NEW k \in 1..l + 1
        PROVE  LET c == candles'[k]
               IN  /\ c.time < n + 1
                   /\ c.complete <=> c.time + Span <= n + 1
                   /\ IF k = l + 1 THEN n + 1 <= c.time + Span ELSE c.complete
    <3>1. CASE k = l + 1
      BY <1>1, <1>2, <1>4, <3>1
    <3>2. CASE k # l + 1
      <4>1. k \in 1..l
        BY <1>1, <3>2
      <4>. QED  BY <1>1, <1>4, <1>6, <3>2, <4>1
    <3>. QED  BY <3>1, <3>2
  <2>3. ASSUME NEW j \in 1..l + 1, NEW k \in 1..l + 1, j < k
        PROVE  candles'[j].time + Span <= candles'[k].time
    <3>1. j \in 1..l
      BY <1>1, <2>3
    <3>2. CASE k = l + 1
      <4>1. candles'[k].time = n /\ candles'[j] = candles[j]
        BY <1>2, <1>4, <3>1, <3>2
      <4>. QED  BY <1>6, <3>1, <4>1
    <3>3. CASE k \in 1..l
      BY <1>4, <2>3, <3>1, <3>3 DEF ReplayInv, CandlesInOrder
    <3>. QED  BY <1>1, <3>2, <3>3
  <2>. QED  BY <1>3, <1>4, <2>1, <2>2, <2>3 DEF CandlesInOrder
<1>8. CandlesTrue'
  <2>1. ASSUME NEW k \in 1..l + 1
        PROVE  LET c == candles'[k]
                   here == TicksOf(c) \cap DOMAIN ticks'
               IN  /\ \A i \in here : c.low <= ticks'[i] /\ ticks'[i] <= c.high
                   /\ \E i \in here : ticks'[i] = c.low
                   /\ \E i \in here : ticks'[i] = c.high
    <3>1. CASE k = l + 1
      <4>1. candles'[k] = o
        BY <1>4, <3>1
      <4>2. TicksOf(o) \cap DOMAIN ticks' = {n + 1}
        BY <1>1, <1>2, <1>3 DEF TicksOf
      <4>3. price \in Nat
        BY DEF Price
      <4>. QED  BY <1>2, <1>3, <4>1, <4>2, <4>3
    <3>2. CASE k \in 1..l
      <4>1. /\ candles'[k] = candles[k]
            /\ TicksOf(candles[k]) \cap DOMAIN ticks' = TicksOf(candles[k]) \cap DOMAIN ticks
            /\ \A i \in TicksOf(candles[k]) \cap DOMAIN ticks : ticks'[i] = ticks[i]
        BY <1>1, <1>3, <1>4, <1>6, <3>2 DEF TicksOf
      <4>. QED  BY <1>4, <3>2, <4>1 DEF ReplayInv, CandlesTrue
    <3>3. k = l + 1 \/ k \in 1..l
      BY <1>1
    <3>. QED  BY <3>1, <3>2, <3>3
  <2>. QED  BY <1>4, <2>1 DEF CandlesTrue, TicksOf
<1>. QED  BY <1>1, <1>3, <1>5, <1>7, <1>8 DEF ReplayInv

\* What the last candle becomes with one more price.
LEMMA ExtendedCandle ==
  ASSUME Len(ticks) \in Nat, NEW c \in Candle, NEW price \in Price
  PROVE  LET x == Extended(c, price)
         IN  /\ x \in Candle /\ x.time = c.time
             /\ x.high = (IF c.high >= price THEN c.high ELSE price)
             /\ x.low = (IF c.low <= price THEN c.low ELSE price)
             /\ x.complete <=> Len(ticks) + 1 = c.time + Span
<1>1. c.high \in Price /\ c.low \in Price
  BY DEF Candle
<1>2. Price \subseteq Int
  BY DEF Price
<1>3. Max({c.high, price}) = (IF c.high >= price THEN c.high ELSE price)
  BY <1>1, <1>2, MaxOfTwo
<1>4. Min({c.low, price}) = (IF c.low <= price THEN c.low ELSE price)
  BY <1>1, <1>2, MinOfTwo
<1>5. Max({c.high, price}) \in Price /\ Min({c.low, price}) \in Price
  BY <1>1, <1>3, <1>4
<1>. QED  BY <1>3, <1>4, <1>5 DEF Extended, Candle

\* A list with another last element.
LEMMA Replaced ==
  ASSUME NEW S, NEW s \in Seq(S), s # <<>>, NEW x \in S, NEW t, t = [s EXCEPT ![Len(s)] = x]
  PROVE  /\ t \in Seq(S) /\ Len(t) = Len(s) /\ t[Len(s)] = x
         /\ \A k \in 1..Len(s) : k # Len(s) => t[k] = s[k]
<1> DEFINE n == Len(s)
<1>1. s \in [1..n -> S] /\ n \in Nat /\ n \in 1..n
  OBVIOUS
<1> HIDE DEF n
<1>2. t = [s EXCEPT ![n] = x]
  BY DEF n
<1>3. t \in [1..n -> S] /\ t[n] = x /\ \A k \in 1..n : k # n => t[k] = s[k]
  BY <1>1, <1>2
<1>4. t \in Seq(S) /\ Len(t) = n
  BY <1>1, <1>3
<1>. QED  BY Zenon, <1>3, <1>4 DEF n

\* A tick goes into the last candle.
ExtendsLast(price) ==
  /\ Len(ticks) < MaxTicks /\ posts' = posts
  /\ ticks' = Append(ticks, price)
  /\ candles # <<>> /\ ~ candles[Len(candles)].complete
  /\ candles' \in Seq(Candle) /\ Len(candles') = Len(candles)
  /\ candles'[Len(candles)] = Extended(candles[Len(candles)], price)
  /\ \A k \in 1..Len(candles) : k # Len(candles) => candles'[k] = candles[k]

LEMMA ExtendKeeps ==
  ASSUME ReplayInv, NEW price \in Price, ExtendsLast(price)
  PROVE  ReplayInv'
<1> DEFINE n == Len(ticks)
           l == Len(candles)
           c == candles[l]
           x == Extended(c, price)
<1>1. /\ ticks \in Seq(Price) /\ candles \in Seq(Candle) /\ n \in Nat /\ l \in Nat /\ n + 1 <= MaxTicks
      /\ MaxTicks \in Nat /\ Span \in Nat /\ Span > 0 /\ l > 0 /\ l \in 1..l /\ price \in Nat
  <2>1. ticks \in Seq(Price) /\ candles \in Seq(Candle)
    BY DEF ReplayInv, ReplayTypeOK, Candle
  <2>2. candles # <<>> /\ n < MaxTicks /\ MaxTicks \in Nat /\ Span \in Nat \ {0} /\ price \in Nat
    BY ReplayAssumption DEF ExtendsLast, Price
  <2>. QED  BY <2>1, <2>2
<1>2. c \in Candle /\ c.time < n /\ n < c.time + Span /\ c.time \in Nat /\ c.low \in Nat /\ c.high \in Nat
  <2>1. c \in Candle /\ l \in DOMAIN candles
    BY <1>1
  <2>2. c.time < n /\ ~ (c.time + Span <= n)
    BY <2>1 DEF ReplayInv, CandlesInOrder, ExtendsLast
  <2>3. c.time \in Nat /\ c.low \in Nat /\ c.high \in Nat
    BY <2>1 DEF Candle, Price
  <2>. QED  BY <1>1, <2>1, <2>2, <2>3
<1>3. /\ x \in Candle /\ x.time = c.time
      /\ x.high = (IF c.high >= price THEN c.high ELSE price)
      /\ x.low = (IF c.low <= price THEN c.low ELSE price)
      /\ (x.complete <=> n + 1 = c.time + Span)
  BY SMTT(30), <1>1, <1>2, ExtendedCandle
<1> HIDE DEF x
<1>4. /\ ticks' \in Seq(Price) /\ Len(ticks') = n + 1 /\ ticks'[n + 1] = price
      /\ (\A i \in 1..n : ticks'[i] = ticks[i]) /\ DOMAIN ticks' = 1..n + 1 /\ DOMAIN ticks = 1..n
  BY <1>1 DEF ExtendsLast
<1>5. /\ candles' \in Seq(Candle) /\ Len(candles') = l /\ candles'[l] = x
      /\ (\A k \in 1..l : k # l => candles'[k] = candles[k])
      /\ (\A k \in 1..l : candles[k] \in Candle /\ candles'[k].time = candles[k].time)
      /\ DOMAIN candles' = 1..l /\ DOMAIN candles = 1..l
  <2>0. /\ candles' \in Seq(Candle) /\ Len(candles') = l
        /\ \A k \in 1..l : k # l => candles'[k] = candles[k]
    BY DEF ExtendsLast
  <2>1. candles'[l] = x
    BY DEF x, ExtendsLast
  <2>2. DOMAIN candles' = 1..l /\ DOMAIN candles = 1..l /\ \A k \in 1..l : candles[k] \in Candle
    BY <1>1, <2>0
  <2>3. candles'[l].time = candles[l].time
    BY SMTT(30), <1>3, <2>1
  <2> HIDE DEF c
  <2>. QED  BY Zenon, <1>1, <2>0, <2>1, <2>2, <2>3
<1>6. ReplayTypeOK'
  BY Zenon, <1>4, <1>5 DEF ReplayInv, ReplayTypeOK, Candle, ExtendsLast
<1>7. \A k \in 1..l : /\ candles[k].time \in Nat /\ candles[k].time < n
                      /\ k # l => candles[k].complete /\ candles[k].time + Span <= n
  BY Zenon, <1>5 DEF ReplayInv, CandlesInOrder, Candle
<1>8. CandlesInOrder'
  <2>1. candles' # <<>> /\ ticks' # <<>>
    <3>1. Len(candles') = l /\ Len(ticks') = n + 1
      BY Zenon, <1>4, <1>5
    <3>2. n \in Nat /\ l \in Nat /\ l > 0
      BY <1>1
    <3>3. Len(<<>>) = 0
      OBVIOUS
    <3> HIDE DEF n, l
    <3>. QED  BY <3>1, <3>2, <3>3
  <2>2. ASSUME NEW k \in 1..l
        PROVE  LET d == candles'[k]
               IN  /\ d.time < n + 1
                   /\ d.complete <=> d.time + Span <= n + 1
                   /\ IF k = l THEN n + 1 <= d.time + Span ELSE d.complete
    <3>1. CASE k = l
      <4>1. candles'[k] = x
        BY <1>5, <3>1
      <4> HIDE DEF c
      <4>. QED  BY SMTT(30), <1>1, <1>2, <1>3, <3>1, <4>1
    <3>2. CASE k # l
      <4>1. candles'[k] = candles[k]
        BY Zenon, <1>5, <3>2
      <4>. QED  BY SMTT(30), <1>1, <1>7, <3>2, <4>1
    <3>. QED  BY <3>1, <3>2
  <2>3. ASSUME NEW j \in 1..l, NEW k \in 1..l, j < k
        PROVE  candles'[j].time + Span <= candles'[k].time
    BY Zenon, <1>5, <2>3 DEF ReplayInv, CandlesInOrder
  <2>. QED  BY Zenon, <1>4, <1>5, <2>1, <2>2, <2>3 DEF CandlesInOrder
<1>9. CandlesTrue'
  <2>1. ASSUME NEW k \in 1..l
        PROVE  LET d == candles'[k]
                   here == TicksOf(d) \cap DOMAIN ticks'
               IN  /\ \A i \in here : d.low <= ticks'[i] /\ ticks'[i] <= d.high
                   /\ \E i \in here : ticks'[i] = d.low
                   /\ \E i \in here : ticks'[i] = d.high
    <3>1. CASE k = l
      <4> DEFINE here == TicksOf(c) \cap DOMAIN ticks
      <4>1. candles'[k] = x
        BY <1>5, <3>1
      <4>2. TicksOf(x) \cap DOMAIN ticks' = here \cup {n + 1}
        <5> HIDE DEF c
        <5>. QED  BY SMTT(30), <1>1, <1>2, <1>3, <1>4 DEF TicksOf
      <4>3. /\ \A i \in here : c.low <= ticks[i] /\ ticks[i] <= c.high
            /\ \E i \in here : ticks[i] = c.low
            /\ \E i \in here : ticks[i] = c.high
        BY Zenon, <1>1, <1>5 DEF ReplayInv, CandlesTrue
      <4>4. \A i \in here : ticks'[i] = ticks[i] /\ ticks[i] \in Nat
        BY <1>1, <1>4 DEF Price
      <4> HIDE DEF here, c
      <4>5. /\ \A i \in here \cup {n + 1} : x.low <= ticks'[i] /\ ticks'[i] <= x.high
            /\ \E i \in here \cup {n + 1} : ticks'[i] = x.low
            /\ \E i \in here \cup {n + 1} : ticks'[i] = x.high
        <5>1. /\ x.low <= price /\ price <= x.high /\ x.low <= c.low /\ c.high <= x.high
              /\ (x.low = price \/ x.low = c.low) /\ (x.high = price \/ x.high = c.high)
              /\ x.low \in Nat /\ x.high \in Nat
          BY SMTT(30), <1>1, <1>2, <1>3
        <5>2. \A i \in here : x.low <= ticks[i] /\ ticks[i] <= x.high
          BY <1>2, <4>3, <4>4, <5>1
        <5>3. ticks'[n + 1] = price
          BY SMTT(30), <1>4
        <5> HIDE DEF n
        <5>. QED  BY <4>3, <4>4, <5>1, <5>2, <5>3
      <4>. QED  BY <4>1, <4>2, <4>5
    <3>2. CASE k # l
      <4>1. candles'[k] = candles[k]
        BY <1>5, <3>2
      <4>2. candles[k].time \in Nat /\ candles[k].time + Span <= n
        BY <1>7, <3>2
      <4>3. /\ TicksOf(candles[k]) \cap DOMAIN ticks' = TicksOf(candles[k]) \cap DOMAIN ticks
            /\ \A i \in TicksOf(candles[k]) \cap DOMAIN ticks : ticks'[i] = ticks[i]
        BY <1>1, <1>4, <4>2 DEF TicksOf
      <4>. QED  BY ZenonT(30), <1>5, <4>1, <4>3 DEF ReplayInv, CandlesTrue
    <3>. QED  BY <3>1, <3>2
  <2>. QED  BY Zenon, <1>5, <2>1 DEF CandlesTrue, TicksOf
<1>. QED  BY <1>1, <1>4, <1>6, <1>8, <1>9 DEF ReplayInv

LEMMA ReplayInvKept ==
  ASSUME ReplayInv, ReplayNext \/ UNCHANGED replayVars
  PROVE  ReplayInv'
<1>1. CASE Tick
  <2>1. PICK price \in IF ticks = <<>> THEN {Start} ELSE {ticks[Len(ticks)] + m : m \in Moves} :
          /\ price > NoPrice
          /\ ticks' = Append(ticks, price)
          /\ candles' = IF candles = <<>> \/ candles[Len(candles)].complete
                        THEN Append(candles, Opened(price))
                        ELSE [candles EXCEPT ![Len(candles)] = Extended(@, price)]
    BY <1>1 DEF Tick
  <2>2. posts' = posts /\ Len(ticks) < MaxTicks
    BY <1>1 DEF Tick
  <2>3. price \in Price
    <3>1. CASE ticks = <<>>
      BY <2>1, <3>1, ReplayAssumption DEF Price, NoPrice
    <3>2. CASE ticks # <<>>
      <4>1. ticks \in Seq(Price) /\ ticks[Len(ticks)] \in Price
        BY <3>2 DEF ReplayInv, ReplayTypeOK
      <4>2. PICK m \in Moves : price = ticks[Len(ticks)] + m
        BY <2>1, <3>2
      <4>. QED  BY <2>1, <4>1, <4>2, ReplayAssumption DEF Price, NoPrice
    <3>. QED  BY <3>1, <3>2
  <2>4. CASE candles = <<>> \/ candles[Len(candles)].complete
    BY <2>1, <2>2, <2>3, <2>4, OpenKeeps
  <2>5. CASE ~ (candles = <<>> \/ candles[Len(candles)].complete)
    <3> DEFINE x == Extended(candles[Len(candles)], price)
    <3>1. candles # <<>> /\ candles \in Seq(Candle) /\ candles[Len(candles)] \in Candle /\ Len(ticks) \in Nat
      <4>1. candles \in Seq(Candle) /\ ticks \in Seq(Price)
        BY DEF ReplayInv, ReplayTypeOK, Candle
      <4>. QED  BY <2>5, <4>1
    <3>2. x \in Candle
      BY <2>3, <3>1, ExtendedCandle
    <3>3. candles' = [candles EXCEPT ![Len(candles)] = x]
      BY <2>1, <2>5
    <3> HIDE DEF x
    <3>4. /\ candles' \in Seq(Candle) /\ Len(candles') = Len(candles) /\ candles'[Len(candles)] = x
          /\ \A k \in 1..Len(candles) : k # Len(candles) => candles'[k] = candles[k]
      BY SMTT(30), <3>1, <3>2, <3>3, Replaced
    <3>5. ExtendsLast(price)
      BY Zenon, <2>1, <2>2, <2>5, <3>4 DEF ExtendsLast, x
    <3>. QED  BY <2>3, <3>5, ExtendKeeps
  <2>. QED  BY <2>4, <2>5
<1>2. CASE Post
  <2>1. ticks' = ticks /\ candles' = candles /\ Len(ticks) \in Nat
    BY <1>2 DEF Post, ReplayInv, ReplayTypeOK
  <2>2. PICK plan \in Plans :
          posts' = Append(posts, [action |-> plan.action, entry |-> plan.entry,
            stop |-> plan.stop, target |-> plan.target, at |-> Len(ticks)])
    BY <1>2 DEF Post
  <2> DEFINE p == [action |-> plan.action, entry |-> plan.entry,
            stop |-> plan.stop, target |-> plan.target, at |-> Len(ticks)]
             Signal == [action : {"buy", "sell"}, entry : Nat, stop : Nat, target : Nat, at : Nat]
  <2>3. p \in Signal
    BY <2>1, ReplayAssumption
  <2> HIDE DEF p
  <2>4. posts' \in Seq(Signal)
    <3>1. posts \in Seq(Signal)
      BY DEF ReplayInv, ReplayTypeOK
    <3> HIDE DEF Signal
    <3>. QED  BY <2>2, <2>3, <3>1 DEF p
  <2>5. ReplayTypeOK'
    BY <2>1, <2>4 DEF ReplayInv, ReplayTypeOK
  <2>. QED  BY <2>1, <2>5 DEF ReplayInv, CandlesInOrder, CandlesTrue, TicksOf
<1>3. CASE UNCHANGED replayVars
  BY <1>3 DEF replayVars, ReplayInv, ReplayTypeOK, CandlesInOrder, CandlesTrue, TicksOf
<1>. QED  BY <1>1, <1>2, <1>3 DEF ReplayNext

LEMMA ReplayStep == [Next]_vars => ReplayNext \/ UNCHANGED replayVars
BY DEF Next, vars, replayVars

LEMMA ReplayInvAlways == Spec => []ReplayInv
<1>1. ReplayInv /\ [Next]_vars => ReplayInv'
  BY ReplayStep, ReplayInvKept
<1>. QED  BY <1>1, ReplayInvInit, PTL DEF Spec

\* Prices, results, messages and papers keep their types.
THEOREM TypesKept == Spec => []TypeOK
<1>1. ReplayInv /\ LearnInv /\ DeskInv => TypeOK
  BY DEF TypeOK, ReplayInv, LearnInv, DeskInv
<1>. QED  BY <1>1, ReplayInvAlways, LearnInvAlways, DeskInvAlways, PTL
-----------------------------------------------------------------------------
(***************************************************************************)
(* SignalReplay: what the loop over the candles finds, for any candles cs. *)
(***************************************************************************)
LoopOf(cs, s, entry, test) ==
  LET run[k \in 0..Len(cs)] ==
        IF k = 0 THEN [entered |-> s.entry = NoPrice, outcome |-> "NONE"]
        ELSE LET before == run[k - 1]
                 in == before.entered \/ EntryHit(entry, cs[k])
             IN  IF k \notin test \/ before.outcome # "NONE" THEN before
                 ELSE [entered |-> in,
                       outcome |-> IF in THEN CheckOutcome(s, cs[k]) ELSE "NONE"]
  IN  run[Len(cs)]

\* The trade is entered at one of the candles up to k.
Entered(cs, s, entry, test, k) ==
  s.entry = NoPrice \/ \E i \in test : i <= k /\ EntryHit(entry, cs[i])

\* A candle that decides: the trade is entered and one of the levels is reached.
Decides(cs, s, entry, test, k) ==
  /\ k \in test /\ Entered(cs, s, entry, test, k)
  /\ CheckOutcome(s, cs[k]) # "NONE"

\* The outcome is that of the first candle that decides.
LEMMA LoopFinds ==
  ASSUME NEW cs, Len(cs) \in Nat, NEW s, NEW entry, NEW test \in SUBSET (1..Len(cs))
  PROVE  LET end == LoopOf(cs, s, entry, test)
             n   == Len(cs)
         IN  /\ end.outcome = "NONE" => /\ \A k \in test : ~ Decides(cs, s, entry, test, k)
                                        /\ end.entered <=> Entered(cs, s, entry, test, n)
             /\ end.outcome # "NONE" =>
                  \E k \in test : /\ Decides(cs, s, entry, test, k)
                                  /\ end.outcome = CheckOutcome(s, cs[k])
                                  /\ \A j \in test : j < k => ~ Decides(cs, s, entry, test, j)
<1> DEFINE n == Len(cs)
           A == [entered : BOOLEAN, outcome : {"NONE", "WIN", "LOSS"}]
           b0 == [entered |-> s.entry = NoPrice, outcome |-> "NONE"]
           step(k, b) == LET in == b.entered \/ EntryHit(entry, cs[k])
                         IN  IF k \notin test \/ b.outcome # "NONE" THEN b
                             ELSE [entered |-> in,
                                   outcome |-> IF in THEN CheckOutcome(s, cs[k]) ELSE "NONE"]
           F == [x \in (1..n) \X A |-> step(x[1], x[2])]
           body(h) == [k \in 0..n |-> IF k = 0 THEN b0 ELSE step(k, h[k - 1])]
           it == CHOOSE h : h = body(h)
           D(k) == Decides(cs, s, entry, test, k)
           E(k) == Entered(cs, s, entry, test, k)
<1>1. n \in Nat /\ b0 \in A
  OBVIOUS
<1>2. ASSUME NEW k \in 1..n, NEW b \in A PROVE step(k, b) \in A
  <2>1. CheckOutcome(s, cs[k]) \in {"NONE", "WIN", "LOSS"}
    BY DEF CheckOutcome
  <2>2. (b.entered \/ EntryHit(entry, cs[k])) \in BOOLEAN
    BY DEF EntryHit
  <2>. QED  BY <2>1, <2>2
<1> HIDE DEF A, step, b0
<1>3. F \in [(1..n) \X A -> A] /\ \A k \in 1..n, b \in A : F[<<k, b>>] = step(k, b)
  BY <1>2
<1> HIDE DEF F
<1>4. PICK run : Rounds(run, n, A, b0, F)
  BY <1>1, <1>3, LoopExists
<1>5. run = body(run)
  <2>1. \A k \in 1..n : run[k - 1] \in A /\ k - 1 \in 0..n
    BY <1>1, <1>4 DEF Rounds
  <2>2. \A k \in 0..n : run[k] = IF k = 0 THEN b0 ELSE step(k, run[k - 1])
    <3>1. \A k \in 0..n : k = 0 \/ k \in 1..n
      BY <1>1
    <3>2. \A k \in 1..n : k # 0
      BY <1>1
    <3> HIDE DEF n
    <3>. QED  BY <1>3, <1>4, <2>1, <3>1, <3>2 DEF Rounds
  <2> DEFINE b(k) == IF k = 0 THEN b0 ELSE step(k, run[k - 1])
  <2>3. [k \in 0..n |-> run[k]] = [k \in 0..n |-> b(k)]
    BY <2>2
  <2>4. run = [k \in 0..n |-> run[k]]
    BY <1>4 DEF Rounds
  <2>. QED  BY <2>3, <2>4
<1>6. it = body(it)
  <2> HIDE DEF body
  <2>. QED  BY <1>5, Zenon
<1>7. LoopOf(cs, s, entry, test) = it[n]
  BY Zenon DEF LoopOf, step, b0
<1> HIDE DEF it
<1> DEFINE Quiet(k) == \A j \in test : j <= k => ~ D(j)
           First(k, o) == \E j \in test : /\ j <= k /\ D(j) /\ o = CheckOutcome(s, cs[j])
                                          /\ \A i \in test : i < j => ~ D(i)
           Good(k, b) == /\ b \in A
                         /\ b.outcome = "NONE" => Quiet(k) /\ (b.entered <=> E(k))
                         /\ b.outcome # "NONE" => First(k, b.outcome)
           G == {k \in 0..n : Good(k, it[k])}
<1>8. 0 \in G
  <2>1. it[0] = b0 /\ 0 \in 0..n
    BY <1>1, <1>6
  <2>2. \A j \in test : ~ (j <= 0)
    OBVIOUS
  <2>3. b0.outcome = "NONE" /\ (b0.entered <=> s.entry = NoPrice)
    BY DEF b0
  <2>4. E(0) <=> s.entry = NoPrice
    BY <2>2 DEF Entered
  <2>5. Quiet(0)
    BY <2>2
  <2> HIDE DEF Quiet, First, E
  <2>. QED  BY <1>1, <2>1, <2>3, <2>4, <2>5
<1>9. ASSUME NEW k \in 1..n, k - 1 \in G PROVE k \in G
  <2> DEFINE b == it[k - 1]
  <2>1. it[k] = step(k, b) /\ k \in 0..n /\ Good(k - 1, b)
    BY <1>1, <1>6, <1>9
  <2> HIDE DEF b
  <2>2. it[k] \in A
    BY <1>2, <2>1
  <2>3. \A j \in test : j <= k <=> (j <= k - 1 \/ j = k)
    OBVIOUS
  <2>4. k \in test => (E(k) <=> E(k - 1) \/ EntryHit(entry, cs[k]))
    BY <2>3 DEF Entered
  <2>5. k \notin test => (E(k) <=> E(k - 1))
    BY <2>3 DEF Entered
  <2>6. b.outcome # "NONE" => First(k, b.outcome)
    BY <2>1, <2>3
  <2>7. Quiet(k) <=> Quiet(k - 1) /\ (k \in test => ~ D(k))
    BY <2>3
  <2>8. k \in test /\ Quiet(k - 1) /\ D(k) => First(k, CheckOutcome(s, cs[k]))
    <3>1. \A i \in test : i < k => i <= k - 1
      OBVIOUS
    <3>. QED  BY <3>1
  <2>9. D(k) <=> k \in test /\ E(k) /\ CheckOutcome(s, cs[k]) # "NONE"
    BY DEF Decides
  <2> HIDE DEF Quiet, First, E, D
  <2>10. CASE k \notin test \/ b.outcome # "NONE"
    <3>1. it[k] = b
      BY <2>1, <2>10 DEF step
    <3>. QED  BY <2>1, <2>2, <2>5, <2>6, <2>7, <2>10, <3>1
  <2>11. CASE k \in test /\ b.outcome = "NONE"
    <3> DEFINE in == b.entered \/ EntryHit(entry, cs[k])
               o == CheckOutcome(s, cs[k])
    <3>1. it[k] = [entered |-> in, outcome |-> IF in THEN o ELSE "NONE"]
      BY <2>1, <2>11 DEF step
    <3>2. Quiet(k - 1) /\ (b.entered <=> E(k - 1)) /\ (in <=> E(k))
      BY <2>1, <2>4, <2>11
    <3>3. in \in BOOLEAN
      BY DEF EntryHit
    <3> HIDE DEF in, o
    <3>4. it[k].entered = in /\ it[k].outcome = (IF in THEN o ELSE "NONE")
      BY <3>1
    <3>5. CASE in
      <4>1. (it[k].entered <=> TRUE) /\ it[k].outcome = o
        BY <3>4, <3>5
      <4>2. E(k) /\ (o = "NONE" => ~ D(k)) /\ (o # "NONE" => D(k))
        BY <2>9, <2>11, <3>2, <3>5 DEF o
      <4>. QED  BY <2>1, <2>2, <2>7, <2>8, <2>11, <3>2, <4>1, <4>2 DEF o
    <3>6. CASE ~ in
      <4>1. (it[k].entered <=> FALSE) /\ it[k].outcome = "NONE"
        BY <3>4, <3>6
      <4>2. ~ E(k) /\ ~ D(k)
        BY <2>9, <3>2, <3>6
      <4>. QED  BY <2>1, <2>2, <2>7, <3>2, <4>1, <4>2
    <3>. QED  BY <3>5, <3>6
  <2>. QED  BY <2>10, <2>11
<1>10. n \in G
  <2> HIDE DEF G
  <2>1. \A k \in 0..n : k \in G
    BY <1>1, <1>8, <1>9, PlaceInduction
  <2>. QED  BY <1>1, <2>1
<1>11. \A j \in test : j <= n
  BY <1>1
<1>12. Quiet(n) => \A j \in test : ~ D(j)
  BY <1>11
<1>13. \A o : First(n, o) => \E j \in test : /\ D(j) /\ o = CheckOutcome(s, cs[j])
                                           /\ \A i \in test : i < j => ~ D(i)
  OBVIOUS
<1> HIDE DEF Quiet, First
<1>. QED  BY <1>7, <1>10, <1>12, <1>13
-----------------------------------------------------------------------------
(***************************************************************************)
(* SignalReplay: a verdict is final.                                       *)
(***************************************************************************)
EntryOf(cs, s, test) == IF s.entry = NoPrice THEN cs[Min(test)].open ELSE s.entry

\* backtest_signal, for any candles cs of which those in test are loaded.
ResultOf(cs, s, test) ==
  LET entry == EntryOf(cs, s, test)
      status == StatusOf(LoopOf(cs, s, entry, test))
  IN  IF test = {} THEN [status |-> "NO_MARKET_DATA", r |-> 0]
      ELSE IF entry = s.stop THEN [status |-> "INVALID_RISK", r |-> 0]
      ELSE [status |-> status, r |-> Realized(status, s, entry, cs[Max(test)].close)]

LEMMA ResultNow ==
  ASSUME NEW n
  PROVE  BacktestSignal(posts[n]) = ResultOf(candles, posts[n], Loaded(posts[n]))
BY Zenon DEF BacktestSignal, ResultOf, EntryPrice, EntryOf, Loop, LoopOf

LEMMA ResultNext ==
  ASSUME NEW n
  PROVE  BacktestSignal(posts[n])' = ResultOf(candles', posts'[n], Loaded(posts[n])')
BY Zenon DEF BacktestSignal, ResultOf, EntryPrice, EntryOf, Loop, LoopOf

\* The candles of a later replay: those of the earlier one and others after them.
Later(cs, test, ds, more) ==
  /\ Len(cs) \in Nat /\ Len(ds) \in Nat
  /\ test \in SUBSET (1..Len(cs)) /\ more \in SUBSET (1..Len(ds))
  /\ test \subseteq more /\ \A k \in test : ds[k] = cs[k]
  /\ \A k \in more \ test : \A j \in test : j < k

LEMMA SameFirst ==
  ASSUME NEW cs, NEW test, NEW ds, NEW more, Later(cs, test, ds, more), test # {}
  PROVE  Min(more) = Min(test) /\ Min(test) \in test
<1>1. /\ Min(test) \in test /\ \A k \in test : Min(test) <= k
      /\ Min(more) \in more /\ \A k \in more : Min(more) <= k
  <2>1. Len(cs) \in Nat /\ test \subseteq 1..Len(cs) /\ Len(ds) \in Nat /\ more \subseteq 1..Len(ds)
    BY DEF Later
  <2>2. more # {}
    BY DEF Later
  <2>3. Min(test) \in test /\ \A k \in test : Min(test) <= k
    BY <2>1, MinMember
  <2>4. Min(more) \in more /\ \A k \in more : Min(more) <= k
    BY <2>1, <2>2, MinMember
  <2>. QED  BY <2>3, <2>4
<1> DEFINE a == Min(test)
           b == Min(more)
<1>2. a \in more /\ a \in Int /\ b \in Int
  <2>1. more \subseteq Int /\ test \subseteq more
    BY DEF Later
  <2>. QED  BY <1>1, <2>1
<1>3. b \notin test => a < b
  BY <1>1 DEF Later
<1> HIDE DEF a, b
<1>4. b <= a
  BY <1>1, <1>2 DEF a, b
<1>5. b \in test
  BY <1>2, <1>3, <1>4
<1>6. a <= b
  BY <1>1, <1>5 DEF a, b
<1>7. a = b
  BY <1>2, <1>4, <1>6
<1>. QED  BY <1>1, <1>7 DEF a, b

LEMMA SameVerdict ==
  ASSUME NEW cs, NEW test, NEW ds, NEW more, Later(cs, test, ds, more), NEW s, NEW entry,
         LoopOf(cs, s, entry, test).outcome # "NONE"
  PROVE  LoopOf(ds, s, entry, more).outcome = LoopOf(cs, s, entry, test).outcome
<1> DEFINE D(k) == Decides(cs, s, entry, test, k)
           M(k) == Decides(ds, s, entry, more, k)
           o == LoopOf(cs, s, entry, test).outcome
           p == LoopOf(ds, s, entry, more).outcome
<1>1. /\ test \subseteq Int /\ more \subseteq Int /\ test \subseteq more
      /\ \A k \in test : ds[k] = cs[k]
      /\ \A k \in more \ test : \A j \in test : j < k
  BY DEF Later
<1>2. PICK k \in test : /\ D(k) /\ o = CheckOutcome(s, cs[k])
                        /\ \A j \in test : j < k => ~ D(j)
  BY LoopFinds DEF Later
<1>3. \A j \in test : D(j) <=> M(j)
  <2>1. ASSUME NEW j \in test
        PROVE  Entered(cs, s, entry, test, j) <=> Entered(ds, s, entry, more, j)
    <3>1. \A i \in more : i <= j => i \in test /\ ds[i] = cs[i]
      BY <1>1
    <3>. QED  BY <1>1, <3>1 DEF Entered
  <2>. QED  BY <1>1, <2>1 DEF Decides
<1>4. M(k) /\ k \in more
  BY <1>1, <1>2, <1>3
<1>5. /\ p # "NONE"
      /\ \E j \in more : M(j) /\ p = CheckOutcome(s, ds[j]) /\ \A i \in more : i < j => ~ M(i)
  <2>1. Len(ds) \in Nat /\ more \in SUBSET (1..Len(ds))
    BY DEF Later
  <2>2. /\ p = "NONE" => \A j \in more : ~ M(j)
        /\ p # "NONE" => \E j \in more : /\ M(j) /\ p = CheckOutcome(s, ds[j])
                                         /\ \A i \in more : i < j => ~ M(i)
    BY <2>1, LoopFinds
  <2> HIDE DEF M, p
  <2>. QED  BY <1>4, <2>2
<1>6. PICK j \in more : M(j) /\ p = CheckOutcome(s, ds[j]) /\ \A i \in more : i < j => ~ M(i)
  BY <1>5
<1> HIDE DEF D, M, o, p
<1>7. ~ (k < j)
  BY <1>4, <1>6
<1>8. j \in test
  BY <1>1, <1>7
<1>9. j = k
  BY <1>1, <1>2, <1>3, <1>6, <1>7, <1>8
<1>. QED  BY <1>1, <1>2, <1>6, <1>9 DEF o, p

LEMMA StatusDecided ==
  ASSUME NEW end
  PROVE  StatusOf(end) \in Decided => end.outcome # "NONE" /\ StatusOf(end) = end.outcome
BY DEF StatusOf, Decided

LEMMA SameResult ==
  ASSUME NEW cs, NEW test, NEW ds, NEW more, Later(cs, test, ds, more), NEW s,
         ResultOf(cs, s, test).status \in Decided
  PROVE  ResultOf(ds, s, more) = ResultOf(cs, s, test)
<1> DEFINE entry == EntryOf(cs, s, test)
           end == LoopOf(cs, s, entry, test)
           status == StatusOf(end)
<1>1. test # {} /\ entry # s.stop /\ status \in Decided
  BY DEF ResultOf, Decided
<1>2. more # {} /\ EntryOf(ds, s, more) = entry
  <2>1. Min(more) = Min(test) /\ Min(test) \in test
    BY <1>1, SameFirst
  <2>2. more # {} /\ ds[Min(test)] = cs[Min(test)]
    BY <2>1 DEF Later
  <2>. QED  BY <2>1, <2>2 DEF EntryOf
<1>3. end.outcome # "NONE" /\ status = end.outcome
  BY <1>1, StatusDecided
<1>4. LoopOf(ds, s, entry, more).outcome = end.outcome
  BY <1>3, SameVerdict
<1>5. StatusOf(LoopOf(ds, s, entry, more)) = status
  BY <1>3, <1>4 DEF StatusOf
<1>6. Realized(status, s, entry, ds[Max(more)].close) = Realized(status, s, entry, cs[Max(test)].close)
  BY <1>1 DEF Realized, Decided
<1> HIDE DEF entry, status
<1>. QED  BY <1>1, <1>2, <1>5, <1>6 DEF ResultOf, entry, status

\* A step adds candles to the window only after those that are in it.
LEMMA WindowGrows ==
  ASSUME ReplayInv, ReplayNext \/ UNCHANGED replayVars, NEW n \in DOMAIN posts
  PROVE  /\ posts'[n] = posts[n]
         /\ Later(candles, Loaded(posts[n]), candles', Loaded(posts[n])')
<1> DEFINE s == posts[n]
           test == Loaded(s)
           more == Loaded(s)'
           l == Len(candles)
<1>1. /\ candles \in Seq(Candle) /\ l \in Nat /\ test \in SUBSET (1..l) /\ DOMAIN candles = 1..l
      /\ \A k \in 1..l : k \in test <=> Usable(s, candles[k])
  <2>1. candles \in Seq(Candle)
    BY DEF ReplayInv, ReplayTypeOK, Candle
  <2>2. l \in Nat /\ DOMAIN candles = 1..l
    BY <2>1
  <2> HIDE DEF s
  <2>. QED  BY <2>1, <2>2 DEF Loaded
<1>2. posts'[n] = posts[n]
  <2>1. CASE Post
    <3>1. \E p : posts' = Append(posts, p)
      BY <2>1 DEF Post
    <3>. QED  BY SMTT(30), <3>1 DEF ReplayInv, ReplayTypeOK
  <2>. QED  BY <2>1 DEF ReplayNext, Tick, replayVars
<1>3. more = {k \in DOMAIN candles' : Usable(s, candles'[k])}
  BY <1>2 DEF Loaded
<1>4. CASE candles' = candles
  BY <1>1, <1>2, <1>3, <1>4 DEF Later
<1>5. CASE Tick
  <2>1. PICK price :
          candles' = IF candles = <<>> \/ candles[l].complete
                     THEN Append(candles, Opened(price))
                     ELSE [candles EXCEPT ![l] = Extended(@, price)]
    BY <1>5 DEF Tick
  <2>2. CASE candles = <<>> \/ candles[l].complete
    <3> DEFINE o == Opened(price)
    <3>1. candles' = Append(candles, o)
      BY <2>1, <2>2
    <3> HIDE DEF o
    <3>2. /\ Len(candles') = l + 1 /\ DOMAIN candles' = 1..l + 1
          /\ \A k \in 1..l : candles'[k] = candles[k]
      BY <1>1, <3>1
    <3> HIDE DEF test, more, s
    <3>3. \A k \in 1..l + 1 : k \in 1..l \/ k = l + 1
      BY <1>1
    <3>4. more \in SUBSET (1..l + 1) /\ \A k \in 1..l : k \in more <=> k \in test
      BY <1>1, <1>3, <3>2
    <3>5. test \subseteq more /\ \A k \in more \ test : \A j \in test : j < k
      BY <1>1, <3>3, <3>4
    <3>6. Later(candles, test, candles', more)
      BY <1>1, <3>2, <3>4, <3>5 DEF Later
    <3>. QED  BY <1>2, <3>6 DEF test, more, s
  <2>3. CASE ~ (candles = <<>> \/ candles[l].complete)
    <3> DEFINE x == Extended(candles[l], price)
    <3>1. candles' = [candles EXCEPT ![l] = x]
      BY <2>1, <2>3
    <3> HIDE DEF x
    <3>2. /\ Len(candles') = l /\ DOMAIN candles' = 1..l
          /\ \A k \in 1..l : k # l => candles'[k] = candles[k]
      <4>1. candles \in Seq(Candle \cup {x}) /\ candles # <<>>
        BY <1>1, <2>3
      <4>2. /\ candles' \in Seq(Candle \cup {x}) /\ Len(candles') = l
            /\ \A k \in 1..l : k # l => candles'[k] = candles[k]
        BY <3>1, <4>1, Replaced
      <4>3. DOMAIN candles' = 1..Len(candles')
        BY <4>2
      <4>. QED  BY Zenon, <4>2, <4>3
    <3>3. l \notin test
      BY SMTT(30), <1>1, <2>3 DEF Usable
    <3> HIDE DEF test, more, s
    <3>4. more \in SUBSET (1..l) /\ \A k \in 1..l : k # l => (k \in more <=> k \in test)
      BY Zenon, <1>1, <1>3, <3>2
    <3>5. test \subseteq more /\ \A k \in more \ test : \A j \in test : j < k
      <4>0. l \in Nat
        BY <1>1
      <4> HIDE DEF l
      <4>1. \A k \in 1..l : k = l \/ k < l
        BY <4>0
      <4>2. test \subseteq more /\ \A k \in more \ test : k = l
        BY SMTT(30), <1>1, <3>3, <3>4
      <4>. QED  BY <1>1, <3>3, <4>1, <4>2
    <3>6. \A k \in test : candles'[k] = candles[k]
      BY ZenonT(30), <1>1, <3>2, <3>3
    <3>7. Later(candles, test, candles', more)
      BY Zenon, <1>1, <3>2, <3>4, <3>5, <3>6 DEF Later
    <3>. QED  BY <1>2, <3>7 DEF test, more, s
  <2>. QED  BY <2>2, <2>3
<1>. QED  BY <1>4, <1>5 DEF ReplayNext, Post, replayVars

\* A win or a loss stays what it is, whatever the market does afterwards and whenever the
\* replay is run again.
THEOREM VerdictsAreFinal == Spec => VerdictFinal
<1> DEFINE Final == \A n \in DOMAIN posts :
                      BacktestSignal(posts[n]).status \in Decided =>
                        BacktestSignal(posts[n])' = BacktestSignal(posts[n])
<1>1. ReplayInv /\ [Next]_vars => Final
  <2> SUFFICES ASSUME ReplayInv, [Next]_vars, NEW n \in DOMAIN posts,
                      BacktestSignal(posts[n]).status \in Decided
               PROVE  BacktestSignal(posts[n])' = BacktestSignal(posts[n])
    OBVIOUS
  <2>1. /\ posts'[n] = posts[n]
        /\ Later(candles, Loaded(posts[n]), candles', Loaded(posts[n])')
    BY ReplayStep, WindowGrows
  <2>2. /\ BacktestSignal(posts[n]) = ResultOf(candles, posts[n], Loaded(posts[n]))
        /\ BacktestSignal(posts[n])' = ResultOf(candles', posts'[n], Loaded(posts[n])')
    BY ResultNow, ResultNext
  <2>3. ResultOf(candles, posts[n], Loaded(posts[n])).status \in Decided
    BY <2>2
  <2>4. ResultOf(candles', posts[n], Loaded(posts[n])') = ResultOf(candles, posts[n], Loaded(posts[n]))
    BY <2>1, <2>3, SameResult
  <2>. QED  BY <2>1, <2>2, <2>4
<1>. QED  BY <1>1, ReplayInvAlways, PTL DEF Spec, VerdictFinal
-----------------------------------------------------------------------------
(***************************************************************************)
(* SignalReplay: the candles tell what the ticks would have told.          *)
(***************************************************************************)
Signal == [action : {"buy", "sell"}, entry : Nat, stop : Nat, target : Nat, at : Nat]
Here(k) == TicksOf(candles[k])
Out(s, i) == CheckOutcome(s, Quote(i))

\* A loaded candle has all its ticks, and its low and its high are two of them.
LEMMA LoadedCandle ==
  ASSUME ReplayInv, NEW s, NEW k \in Loaded(s)
  PROVE  /\ k \in 1..Len(candles) /\ candles[k] \in Candle
         /\ Here(k) \subseteq 1..Len(ticks) /\ Here(k) # {}
         /\ \A i \in Here(k) : /\ i \in Int /\ ticks[i] \in Price
                               /\ candles[k].low <= ticks[i] /\ ticks[i] <= candles[k].high
         /\ \E i \in Here(k) : ticks[i] = candles[k].low
         /\ \E i \in Here(k) : ticks[i] = candles[k].high
<1> DEFINE c == candles[k]
           n == Len(ticks)
<1>1. candles \in Seq(Candle) /\ ticks \in Seq(Price) /\ Span \in Nat /\ Span > 0
  BY ReplayAssumption DEF ReplayInv, ReplayTypeOK, Candle
<1>2. k \in 1..Len(candles) /\ k \in DOMAIN candles /\ c.complete
  BY <1>1 DEF Loaded, Usable
<1>3. c \in Candle /\ c.time \in Nat /\ n \in Nat /\ DOMAIN ticks = 1..n
  <2>1. c \in Candle
    BY <1>1, <1>2
  <2>2. c.time \in Nat
    BY <2>1 DEF Candle
  <2>3. n \in Nat /\ DOMAIN ticks = 1..n
    BY <1>1
  <2>. QED  BY <2>1, <2>2, <2>3
<1>4. c.time + Span <= n
  BY <1>2 DEF ReplayInv, CandlesInOrder
<1>5. /\ \A i \in Here(k) \cap DOMAIN ticks : c.low <= ticks[i] /\ ticks[i] <= c.high
      /\ \E i \in Here(k) \cap DOMAIN ticks : ticks[i] = c.low
      /\ \E i \in Here(k) \cap DOMAIN ticks : ticks[i] = c.high
  BY <1>2, Zenon DEF ReplayInv, CandlesTrue, Here
<1> HIDE DEF c, n
<1>6. Here(k) = (c.time + 1)..(c.time + Span)
  BY DEF Here, TicksOf, c
<1>7. Here(k) \subseteq 1..n /\ Here(k) # {}
  <2> DEFINE a == c.time
  <2>1. a \in Nat /\ n \in Nat /\ a + Span <= n /\ Span \in Nat /\ Span > 0
    BY <1>1, <1>3, <1>4
  <2> HIDE DEF a
  <2>2. (a + 1)..(a + Span) \subseteq 1..n /\ a + 1 \in (a + 1)..(a + Span)
    BY <2>1
  <2>. QED  BY <1>6, <2>2 DEF a
<1>8. \A i \in Here(k) : i \in Int /\ ticks[i] \in Price
  BY <1>1, <1>3, <1>7
<1>9. Here(k) \cap DOMAIN ticks = Here(k)
  BY <1>3, <1>7
<1>. QED  BY <1>2, <1>3, <1>5, <1>7, <1>8, <1>9 DEF c, n

\* The ticks of an earlier candle are before those of a later one.
LEMMA TicksInOrder ==
  ASSUME ReplayInv, NEW s, NEW j \in Loaded(s), NEW k \in Loaded(s), j < k,
         NEW a \in Here(j), NEW b \in Here(k)
  PROVE  a < b
<1>1. j \in DOMAIN candles /\ k \in DOMAIN candles
  BY DEF Loaded
<1>2. candles[j].time + Span <= candles[k].time
  BY <1>1 DEF ReplayInv, CandlesInOrder
<1>3. candles[j].time \in Nat /\ candles[k].time \in Nat /\ Span \in Nat
  BY LoadedCandle, ReplayAssumption DEF Candle
<1>. QED  BY <1>2, <1>3 DEF Here, TicksOf

\* A level is reached by a candle if it is reached by one of its ticks.
LEMMA LevelsReached ==
  ASSUME ReplayInv, NEW s \in Signal, NEW k \in Loaded(s)
  PROVE  /\ StopHit(s, candles[k]) <=> \E i \in Here(k) : StopHit(s, Quote(i))
         /\ TargetHit(s, candles[k]) <=> \E i \in Here(k) : TargetHit(s, Quote(i))
<1> DEFINE c == candles[k]
<1>1. c.low \in Nat /\ c.high \in Nat /\ s.stop \in Nat /\ s.target \in Nat
  BY LoadedCandle DEF Candle, Price, Signal
<1>2. PICK a \in Here(k) : ticks[a] = c.low
  BY LoadedCandle
<1>3. PICK b \in Here(k) : ticks[b] = c.high
  BY LoadedCandle
<1>4. \A i \in Here(k) : ticks[i] \in Nat /\ c.low <= ticks[i] /\ ticks[i] <= c.high
  BY LoadedCandle DEF Price
<1>5. \A i \in Here(k) : Quote(i).low = ticks[i] /\ Quote(i).high = ticks[i]
  BY DEF Quote
<1> HIDE DEF c
<1>6. StopHit(s, c) <=> \E i \in Here(k) : StopHit(s, Quote(i))
  BY <1>1, <1>2, <1>3, <1>4, <1>5 DEF StopHit
<1>7. TargetHit(s, c) <=> \E i \in Here(k) : TargetHit(s, Quote(i))
  BY <1>1, <1>2, <1>3, <1>4, <1>5 DEF TargetHit
<1>. QED  BY <1>6, <1>7 DEF c

LEMMA OutcomeReached ==
  ASSUME ReplayInv, NEW s \in Signal, NEW k \in Loaded(s)
  PROVE  /\ CheckOutcome(s, candles[k]) # "NONE" <=> \E i \in Here(k) : Out(s, i) # "NONE"
         /\ CheckOutcome(s, candles[k]) = "WIN" => \A i \in Here(k) : Out(s, i) \in {"NONE", "WIN"}
         /\ CheckOutcome(s, candles[k]) \in {"NONE", "WIN", "LOSS"}
         /\ \A i \in Here(k) : Out(s, i) \in {"NONE", "WIN", "LOSS"}
         /\ CheckOutcome(s, candles[k]) = "LOSS" => StopHit(s, candles[k])
         /\ \A i \in Here(k) : Out(s, i) = "WIN" => TargetHit(s, candles[k])
<1>1. /\ StopHit(s, candles[k]) <=> \E i \in Here(k) : StopHit(s, Quote(i))
      /\ TargetHit(s, candles[k]) <=> \E i \in Here(k) : TargetHit(s, Quote(i))
  BY LevelsReached
<1>2. \A i : /\ Out(s, i) # "NONE" <=> (StopHit(s, Quote(i)) \/ TargetHit(s, Quote(i)))
             /\ ~ StopHit(s, Quote(i)) => Out(s, i) \in {"NONE", "WIN"}
             /\ Out(s, i) \in {"NONE", "WIN", "LOSS"}
             /\ Out(s, i) = "WIN" => TargetHit(s, Quote(i))
  BY DEF Out, CheckOutcome
<1>3. /\ CheckOutcome(s, candles[k]) # "NONE" <=> (StopHit(s, candles[k]) \/ TargetHit(s, candles[k]))
      /\ CheckOutcome(s, candles[k]) = "WIN" => ~ StopHit(s, candles[k])
      /\ CheckOutcome(s, candles[k]) \in {"NONE", "WIN", "LOSS"}
      /\ CheckOutcome(s, candles[k]) = "LOSS" => StopHit(s, candles[k])
  BY DEF CheckOutcome
<1>. QED  BY <1>1, <1>2, <1>3

\* Between the low and the high of a candle the price cannot pass the entry without being
\* seen there, or on both sides of it one tick after the other.
LEMMA EntryReached ==
  ASSUME ReplayInv, NEW s \in Signal, NEW k \in Loaded(s), EntryHit(s.entry, candles[k]),
         NEW seen, Here(k) \subseteq seen
  PROVE  \E i \in Here(k) : Reaches(s, seen, i)
<1> DEFINE c == candles[k]
           t == c.time + 1
           e == s.entry
           G == {j \in 0..Span - 1 : (ticks[t + j] < e) <=> (ticks[t] < e)}
<1> SUFFICES ASSUME \A i \in Here(k) : ~ Reaches(s, seen, i) PROVE FALSE
  OBVIOUS
<1>1. /\ c.time \in Nat /\ e \in Nat /\ c.low \in Nat /\ c.high \in Nat
      /\ Span \in Nat /\ Span > 0 /\ c.low <= e /\ e <= c.high
  BY SMTT(30), LoadedCandle, ReplayAssumption DEF Candle, Price, Signal, EntryHit
<1>2. Here(k) = t..(c.time + Span)
  BY DEF Here, TicksOf
<1>3. \A i \in Here(k) : ticks[i] # e
  BY DEF Reaches
<1>4. \A i \in Here(k) : i - 1 \in Here(k) => ((ticks[i - 1] < e) <=> (ticks[i] < e))
  BY DEF Reaches
<1>5. PICK a \in Here(k) : ticks[a] = c.low
  BY LoadedCandle
<1>6. PICK b \in Here(k) : ticks[b] = c.high
  BY LoadedCandle
<1> HIDE DEF c, e
<1>7. \A j \in 0..Span - 1 : t + j \in Here(k)
  BY SMTT(30), <1>1, <1>2
<1>8. 0 \in G
  BY <1>1
<1>9. ASSUME NEW j \in 1..Span - 1, j - 1 \in G PROVE j \in G
  <2>1. j \in 0..Span - 1 /\ j - 1 \in 0..Span - 1
    BY <1>1
  <2>2. t + j \in Here(k) /\ t + (j - 1) \in Here(k) /\ (t + j) - 1 = t + (j - 1)
    BY <1>1, <1>7, <2>1
  <2>3. (ticks[t + (j - 1)] < e) <=> (ticks[t + j] < e)
    BY <1>4, <2>2
  <2>. QED  BY <1>9, <2>1, <2>3
<1>10. \A j \in 0..Span - 1 : j \in G
  <2>1. Span - 1 \in Nat
    BY <1>1
  <2> HIDE DEF G
  <2>. QED  BY <1>8, <1>9, <2>1, PlaceInduction
<1>11. \A i \in Here(k) : (ticks[i] < e) <=> (ticks[t] < e)
  <2> TAKE i \in Here(k)
  <2>1. i - t \in 0..Span - 1 /\ t + (i - t) = i
    BY SMTT(30), <1>1, <1>2
  <2>2. i - t \in G
    BY <1>10, <2>1
  <2>. QED  BY <2>1, <2>2
<1>12. c.low < e /\ ~ (c.high < e)
  BY <1>1, <1>3, <1>5
<1>. QED  BY <1>5, <1>6, <1>11, <1>12

\* The earliest of some ticks.
LEMMA EarliestTick ==
  ASSUME NEW S \in SUBSET (1..MaxTicks)
  PROVE  /\ Earliest(S) = Never <=> S = {}
         /\ S # {} => Earliest(S) \in S
         /\ \A i \in S : Earliest(S) <= i
<1>1. Never \in Nat /\ Never > MaxTicks /\ MaxTicks \in Nat
  BY ReplayAssumption DEF Never
<1>2. S \cup {Never} \subseteq 1..Never /\ S \cup {Never} # {}
  BY <1>1
<1>3. /\ Earliest(S) \in S \cup {Never}
      /\ \A i \in S \cup {Never} : Earliest(S) <= i
  BY <1>1, <1>2, MinMember DEF Earliest
<1>4. \A i \in S : i \in Int /\ i < Never
  BY <1>1
<1> HIDE DEF Earliest, Never
<1>5. S # {} => Earliest(S) \in S
  <2> SUFFICES ASSUME NEW i \in S PROVE Earliest(S) \in S
    OBVIOUS
  <2>1. Earliest(S) <= i
    BY <1>3
  <2>2. ~ (Never <= i)
    BY <1>1, <1>4
  <2>. QED  BY <1>3, <2>1, <2>2
<1>6. S # {} => Earliest(S) # Never
  BY <1>1, <1>4, <1>5
<1>7. S = {} => Earliest(S) = Never
  BY <1>3
<1>. QED  BY <1>3, <1>5, <1>6, <1>7

\* The ticks that are seen are those of the loaded candles.
LEMMA SeenTicks ==
  ASSUME ReplayInv, NEW s
  PROVE  /\ Loaded(s) \in SUBSET (1..Len(candles)) /\ Len(candles) \in Nat
         /\ Seen(Loaded(s)) \in SUBSET (1..MaxTicks)
         /\ \A i : i \in Seen(Loaded(s)) <=> \E k \in Loaded(s) : i \in Here(k)
         /\ \A k \in Loaded(s) : Here(k) \subseteq Seen(Loaded(s)) /\ Here(k) # {}
<1> DEFINE test == Loaded(s)
<1>1. /\ candles \in Seq(Candle) /\ ticks \in Seq(Price)
      /\ Len(ticks) <= MaxTicks /\ MaxTicks \in Nat
  BY ReplayAssumption DEF ReplayInv, ReplayTypeOK, Candle
<1>2. DOMAIN ticks = 1..Len(ticks) /\ 1..Len(ticks) \subseteq 1..MaxTicks /\ Len(candles) \in Nat
  BY <1>1
<1>3. \A k \in test : k \in 1..Len(candles) /\ Here(k) \subseteq 1..Len(ticks) /\ Here(k) # {}
  BY LoadedCandle
<1> HIDE DEF test
<1>4. \A i : i \in Seen(test) <=> \E k \in test : i \in Here(k)
  BY <1>2, <1>3 DEF Seen, Here
<1>. QED  BY <1>2, <1>3, <1>4 DEF test

\* When the candle of the entry leaves no doubt, the candles that end a trade that was entered
\* are those in which it is ended by a tick.
LEMMA ExitsDecide ==
  ASSUME ReplayInv, NEW s \in Signal, Clear(s), Loaded(s) # {}
  PROVE  LET test == Loaded(s)
             from == EntryTick(s, Seen(test))
             entry == EntryPrice(s, test)
         IN  /\ from = Never => /\ ~ Entered(candles, s, entry, test, Len(candles))
                                /\ \A k \in test : ~ Decides(candles, s, entry, test, k)
             /\ from # Never =>
                  /\ Entered(candles, s, entry, test, Len(candles))
                  /\ \A k \in test : Decides(candles, s, entry, test, k) <=>
                                       \E i \in Here(k) : i >= from /\ Out(s, i) # "NONE"
<1> DEFINE test == Loaded(s)
           seen == Seen(test)
           from == EntryTick(s, seen)
           entry == EntryPrice(s, test)
           n == Len(candles)
           E(k) == Entered(candles, s, entry, test, k)
           D(k) == Decides(candles, s, entry, test, k)
<1>1. /\ test \in SUBSET (1..n) /\ n \in Nat
      /\ seen \in SUBSET (1..MaxTicks)
      /\ \A i : i \in seen <=> \E k \in test : i \in Here(k)
      /\ \A k \in test : Here(k) \subseteq seen /\ Here(k) # {}
  BY SeenTicks
<1>2. \A k \in test : CheckOutcome(s, candles[k]) # "NONE" <=> \E i \in Here(k) : Out(s, i) # "NONE"
  BY OutcomeReached
<1>3. \A j, k \in test : j < k => \A a \in Here(j), b \in Here(k) : a < b
  BY TicksInOrder
<1>4. \A k \in test : \A i \in Here(k) : i \in Int
  BY <1>1
<1>5. \A k \in test : k \in Int /\ k <= n
  BY <1>1
<1>6. \A k \in test : D(k) <=> E(k) /\ CheckOutcome(s, candles[k]) # "NONE"
  BY DEF Decides
<1>7. CASE s.entry = NoPrice
  <2>1. from = Earliest(seen)
    BY <1>7 DEF EntryTick
  <2>2. seen # {}
    BY <1>1
  <2>3. from # Never /\ \A i \in seen : i >= from
    <3> HIDE DEF from, seen
    <3>1. from \in seen /\ from # Never /\ \A i \in seen : from <= i
      BY <1>1, <2>1, <2>2, EarliestTick
    <3>. QED  BY <1>1, <3>1
  <2>4. \A k : E(k)
    BY <1>7 DEF Entered
  <2> HIDE DEF test, seen, from, entry, E, D
  <2>. QED  BY <1>1, <1>2, <1>6, <2>3, <2>4 DEF test, seen, from, entry, E, D
<1>8. CASE s.entry # NoPrice
  <2> DEFINE reached == {i \in seen : Reaches(s, seen, i)}
  <2>1. from = Earliest(reached) /\ entry = s.entry
    BY <1>8 DEF EntryTick, EntryPrice
  <2>2. reached \in SUBSET (1..MaxTicks)
    BY <1>1
  <2>3. ASSUME NEW k \in test, EntryHit(s.entry, candles[k]) PROVE \E i \in Here(k) : i \in reached
    <3>1. Here(k) \subseteq seen
      BY <1>1
    <3>2. PICK i \in Here(k) : Reaches(s, seen, i)
      <4> HIDE DEF seen
      <4>. QED  BY <2>3, <3>1, EntryReached
    <3>. QED  BY <3>1, <3>2
  <2>4. \A k : E(k) <=> \E j \in test : j <= k /\ EntryHit(s.entry, candles[j])
    BY <1>8, <2>1 DEF Entered
  <2>5. CASE from = Never
    <3>1. reached = {}
      <4> HIDE DEF reached, from
      <4>. QED  BY <2>1, <2>2, <2>5, EarliestTick
    <3>2. \A k : ~ E(k)
      <4> HIDE DEF E, reached
      <4>. QED  BY <2>3, <2>4, <3>1
    <3> HIDE DEF E, D
    <3>. QED  BY <1>6, <2>5, <3>2 DEF E, D
  <2>6. CASE from # Never
    <3>1. from \in reached /\ \A i \in reached : from <= i
      <4> HIDE DEF reached, from
      <4>. QED  BY <2>1, <2>2, <2>6, EarliestTick
    <3>2. PICK e \in test : from \in Here(e)
      BY <1>1, <3>1
    <3>3. EntryHit(s.entry, candles[e]) /\ CheckOutcome(s, candles[e]) = "NONE"
      BY <1>8, <3>2 DEF Clear, EntryUnclear, Here
    <3> HIDE DEF reached, from, seen, test, entry, E, D, n
    <3>4. \A j \in test : j < e => ~ EntryHit(s.entry, candles[j])
      <4> SUFFICES ASSUME NEW j \in test, j < e, EntryHit(s.entry, candles[j]) PROVE FALSE
        OBVIOUS
      <4>1. PICK i \in Here(j) : i \in reached
        BY <2>3
      <4>2. from <= i /\ i < from /\ i \in Int /\ from \in Int
        BY <1>3, <1>4, <3>1, <3>2, <4>1
      <4>. QED  BY <4>2
    <3>5. E(n)
      BY <1>5, <2>4, <3>3
    <3>6. ASSUME NEW k \in test
          PROVE  D(k) <=> \E i \in Here(k) : i >= from /\ Out(s, i) # "NONE"
      <4>1. CASE k < e
        <5>1. ~ E(k)
          BY <1>5, <2>4, <3>4, <4>1
        <5>2. \A i \in Here(k) : ~ (i >= from)
          BY <1>3, <1>4, <3>2, <4>1
        <5>. QED  BY <1>6, <5>1, <5>2
      <4>2. CASE k = e
        BY <1>2, <1>6, <3>3, <4>2
      <4>3. CASE e < k
        <5>1. E(k)
          BY <1>5, <2>4, <3>3, <4>3
        <5>2. \A i \in Here(k) : i >= from
          BY <1>3, <1>4, <3>2, <4>3
        <5>. QED  BY <1>2, <1>6, <5>1, <5>2
      <4>. QED  BY <1>5, <4>1, <4>2, <4>3
    <3>. QED  BY <2>6, <3>5, <3>6 DEF from, seen, test, entry, E, D, n
  <2>. QED  BY <2>5, <2>6
<1>. QED  BY <1>7, <1>8

\* The replay agrees with what happened, or calls lost what was won in a candle that has
\* both levels.
LEMMA StatusAgrees ==
  ASSUME ReplayInv, NEW s \in Signal, Clear(s)
  PROVE  \/ BacktestSignal(s).status = RealStatus(s)
         \/ /\ BacktestSignal(s).status = "LOSS" /\ RealStatus(s) = "WIN"
            /\ ExitUnclear(s, Loaded(s))
<1> DEFINE test == Loaded(s)
           seen == Seen(test)
           from == EntryTick(s, seen)
           entry == EntryPrice(s, test)
           n == Len(candles)
           E(k) == Entered(candles, s, entry, test, k)
           D(k) == Decides(candles, s, entry, test, k)
           end == LoopOf(candles, s, entry, test)
           exits == {i \in seen : i >= from /\ Out(s, i) # "NONE"}
           exit == Earliest(exits)
<1>1. /\ test \in SUBSET (1..n) /\ n \in Nat
      /\ seen \in SUBSET (1..MaxTicks)
      /\ \A i : i \in seen <=> \E k \in test : i \in Here(k)
      /\ \A k \in test : Here(k) \subseteq seen /\ Here(k) # {}
  BY SeenTicks
<1>2. CASE test = {}
  <2>1. BacktestSignal(s).status = "NO_MARKET_DATA"
    BY <1>2 DEF BacktestSignal
  <2>2. seen = {}
    BY <1>1, <1>2
  <2>. QED  BY <2>1, <2>2 DEF RealStatus
<1>3. CASE test # {}
  <2>1. seen # {} /\ entry # s.stop
    BY <1>1, <1>3 DEF Clear
  <2>2. BacktestSignal(s).status = StatusOf(end)
    BY <1>3, <2>1 DEF BacktestSignal, Loop, LoopOf
  <2>3. RealStatus(s) = IF from = Never THEN "NOT_TRIGGERED"
                        ELSE IF exit = Never THEN "OPEN" ELSE Out(s, exit)
    BY <2>1, Zenon DEF RealStatus, ExitTick, Out
  <2>4. /\ from = Never => ~ E(n) /\ \A k \in test : ~ D(k)
        /\ from # Never =>
             /\ E(n)
             /\ \A k \in test : D(k) <=> \E i \in Here(k) : i >= from /\ Out(s, i) # "NONE"
    BY <1>3, ExitsDecide
  <2>5. /\ end.outcome = "NONE" => (\A k \in test : ~ D(k)) /\ (end.entered <=> E(n))
        /\ end.outcome # "NONE" =>
             \E k \in test : /\ D(k) /\ end.outcome = CheckOutcome(s, candles[k])
                             /\ \A j \in test : j < k => ~ D(j)
    BY <1>1, LoopFinds
  <2>6. \A j, k \in test : j < k => \A a \in Here(j), b \in Here(k) : a < b
    BY TicksInOrder
  <2>7. exits \in SUBSET (1..MaxTicks)
    BY <1>1
  <2>8. \A i \in exits : \E k \in test : i \in Here(k)
    BY <1>1
  <2>9. \A k \in test : \A i \in Here(k) : i \in seen /\ i \in Int
    BY <1>1
  <2>10. \A i : i \in exits <=> i \in seen /\ i >= from /\ Out(s, i) # "NONE"
    OBVIOUS
  <2>11. /\ exit = Never <=> exits = {}
         /\ exits # {} => exit \in exits
         /\ \A i \in exits : exit <= i
    <3> HIDE DEF exits
    <3>. QED  BY <2>7, EarliestTick
  <2>12. \A k \in test :
           /\ CheckOutcome(s, candles[k]) = "WIN" => \A i \in Here(k) : Out(s, i) \in {"NONE", "WIN"}
           /\ CheckOutcome(s, candles[k]) \in {"NONE", "WIN", "LOSS"}
           /\ \A i \in Here(k) : Out(s, i) \in {"NONE", "WIN", "LOSS"}
           /\ CheckOutcome(s, candles[k]) = "LOSS" => StopHit(s, candles[k])
           /\ \A i \in Here(k) : Out(s, i) = "WIN" => TargetHit(s, candles[k])
    BY OutcomeReached
  <2>13. \A k \in test : D(k) => CheckOutcome(s, candles[k]) # "NONE"
    BY DEF Decides
  <2>14. \A k \in test : k \in Int
    BY <1>1
  <2> HIDE DEF test, seen, from, entry, n, E, D, end, exits, exit
  <2>15. CASE from = Never
    BY <2>2, <2>3, <2>4, <2>5, <2>15 DEF StatusOf
  <2>16. CASE from # Never /\ end.outcome = "NONE"
    <3>1. exits = {}
      BY <2>4, <2>5, <2>8, <2>10, <2>16
    <3>2. end.entered
      BY <2>4, <2>5, <2>16
    <3>. QED  BY <2>2, <2>3, <2>11, <2>16, <3>1, <3>2 DEF StatusOf
  <2>17. CASE from # Never /\ end.outcome # "NONE"
    <3>1. PICK k \in test : /\ D(k) /\ end.outcome = CheckOutcome(s, candles[k])
                            /\ \A j \in test : j < k => ~ D(j)
      BY <2>5, <2>17
    <3>2. PICK i \in Here(k) : i \in exits
      BY <2>4, <2>9, <2>10, <2>17, <3>1
    <3>3. exit \in exits /\ exit # Never /\ exit <= i
      BY <2>11, <3>2
    <3>4. PICK j \in test : exit \in Here(j)
      BY <2>8, <3>3
    <3>5. D(j)
      BY <2>4, <2>10, <2>17, <3>3, <3>4
    <3>6. ~ (j < k)
      BY <3>1, <3>5
    <3>7. ~ (k < j)
      <4> SUFFICES ASSUME k < j PROVE FALSE
        OBVIOUS
      <4>1. i < exit /\ i \in Int /\ exit \in Int
        BY <2>6, <2>9, <3>2, <3>4
      <4>. QED  BY <3>3, <4>1
    <3>8. j = k
      BY <2>14, <3>6, <3>7
    <3>9. StatusOf(end) = CheckOutcome(s, candles[k])
      BY <2>17, <3>1 DEF StatusOf
    <3>10. RealStatus(s) = Out(s, exit) /\ Out(s, exit) \in {"WIN", "LOSS"}
      BY <2>3, <2>10, <2>12, <2>17, <3>3, <3>4
    <3>11. CheckOutcome(s, candles[k]) \in {"WIN", "LOSS"}
      BY <2>12, <2>13, <3>1
    <3>12. CheckOutcome(s, candles[k]) = "WIN" => Out(s, exit) = "WIN"
      BY <2>12, <3>4, <3>8, <3>10
    <3>13. CASE CheckOutcome(s, candles[k]) = Out(s, exit)
      BY <2>2, <3>9, <3>10, <3>13
    <3>14. CASE CheckOutcome(s, candles[k]) # Out(s, exit)
      <4>1. CheckOutcome(s, candles[k]) = "LOSS" /\ Out(s, exit) = "WIN"
        BY <3>10, <3>11, <3>12, <3>14
      <4>2. StopHit(s, candles[k]) /\ TargetHit(s, candles[k])
        BY <2>12, <3>4, <3>8, <4>1
      <4>3. exit \in TicksOf(candles[k])
        BY <3>4, <3>8 DEF Here
      <4>4. exit = ExitTick(s, Seen(Loaded(s)))
        BY Zenon DEF exit, exits, from, seen, test, ExitTick, Out
      <4>5. ExitUnclear(s, Loaded(s))
        BY <4>2, <4>3, <4>4 DEF ExitUnclear, test
      <4>. QED  BY <2>2, <3>9, <3>10, <4>1, <4>5
    <3>. QED  BY <3>13, <3>14
  <2>. QED  BY <2>15, <2>16, <2>17
<1>. QED  BY <1>2, <1>3

LEMMA PostedSignal == ReplayInv => \A n \in DOMAIN posts : posts[n] \in Signal
<1> SUFFICES ASSUME ReplayInv, NEW n \in DOMAIN posts PROVE posts[n] \in Signal
  OBVIOUS
<1>1. posts \in Seq(Signal)
  BY DEF ReplayInv, ReplayTypeOK, Signal
<1>. QED  BY <1>1

\* What the replay of the candles makes of a signal is what a trader would have seen tick by
\* tick, whatever the signals, the prices and the size of the candles; a loss in place of a
\* win needs a candle that has both levels.
THEOREM ReplayFindsTheTruth == Spec => []ReplayAgrees
<1>1. ReplayInv => ReplayAgrees
  BY PostedSignal, StatusAgrees, Zenon DEF ReplayAgrees
<1>. QED  BY <1>1, ReplayInvAlways, PTL
-----------------------------------------------------------------------------
(***************************************************************************)
(* SignalReplay: the score of a source never flatters it.                  *)
(***************************************************************************)

\* A score with the same trades and no better results is no better.
LEMMA ScoreBelow ==
  ASSUME NEW D, IsFiniteSet(D), NEW f, DOMAIN f = D, NEW g, DOMAIN g = D,
         \A i \in D : f[i].status \in Decided <=> g[i].status \in Decided,
         \A i \in D : f[i].status \in Decided =>
                        f[i].r \in Int /\ g[i].r \in Int /\ f[i].r <= g[i].r
  PROVE  /\ Score(f).wins <= Score(g).wins /\ Score(f).net <= Score(g).net
         /\ Score(f).losses >= Score(g).losses
<1> DEFINE C == {i \in D : f[i].status \in Decided}
           v == [i \in C |-> f[i].r]
           w == [i \in C |-> g[i].r]
<1>1. Closed(f) = C /\ Closed(g) = C
  BY DEF Closed
<1>2. \A i \in C : f[i].r \in Int /\ g[i].r \in Int /\ f[i].r <= g[i].r
  OBVIOUS
<1>3. IsFiniteSet(C)
  BY FS_Subset
<1> HIDE DEF C
<1>4. /\ DOMAIN v = C /\ DOMAIN w = C
      /\ \A i \in C : v[i] = f[i].r /\ w[i] = g[i].r
  OBVIOUS
<1>5. /\ Score(f) = [wins |-> Cardinality({i \in C : f[i].r > 0}),
                     losses |-> Cardinality({i \in C : f[i].r < 0}), net |-> SumFunctionOnSet(v, C)]
      /\ Score(g) = [wins |-> Cardinality({i \in C : g[i].r > 0}),
                     losses |-> Cardinality({i \in C : g[i].r < 0}), net |-> SumFunctionOnSet(w, C)]
  BY <1>1, <1>4, Zenon DEF Score, SumFunction
<1>6. SumFunctionOnSet(v, C) <= SumFunctionOnSet(w, C)
  <2>1. \A i \in C : v[i] \in Int /\ w[i] \in Int /\ v[i] <= w[i]
    BY <1>2, <1>4
  <2> HIDE DEF v, w
  <2>. QED  BY <1>3, <2>1, SumBelow
<1>7. Cardinality({i \in C : f[i].r > 0}) <= Cardinality({i \in C : g[i].r > 0})
  <2>1. {i \in C : f[i].r > 0} \subseteq {i \in C : g[i].r > 0}
    BY <1>2
  <2>2. IsFiniteSet({i \in C : g[i].r > 0})
    BY <1>3, FS_Subset
  <2>. QED  BY <2>1, <2>2, FS_Subset
<1>8. Cardinality({i \in C : f[i].r < 0}) >= Cardinality({i \in C : g[i].r < 0})
  <2> DEFINE F == {i \in C : f[i].r < 0}
             G == {i \in C : g[i].r < 0}
  <2>1. G \subseteq F
    BY <1>2
  <2>2. IsFiniteSet(F)
    BY <1>3, FS_Subset
  <2> HIDE DEF F, G
  <2>3. Cardinality(G) <= Cardinality(F) /\ IsFiniteSet(G)
    BY <2>1, <2>2, FS_Subset
  <2>4. Cardinality(G) \in Nat /\ Cardinality(F) \in Nat
    BY <2>2, <2>3, FS_CardinalityType
  <2>5. Cardinality(F) >= Cardinality(G)
    BY <2>3, <2>4
  <2>. QED  BY <2>5 DEF F, G
<1>. QED  BY <1>5, <1>6, <1>7, <1>8

\* A gain is not counted as a loss when it is rounded.
LEMMA GainInR ==
  ASSUME NEW move \in Nat, NEW risk \in Nat, risk > 0
  PROVE  InR(move, risk) \in Nat
<1>1. Unit * move \in Nat
  BY ReplayAssumption
<1>2. \A a \in Nat : a \div risk \in Nat
  OBVIOUS
<1>. QED  BY <1>1, <1>2 DEF InR

\* The entry is a price.
LEMMA EntryIsPrice ==
  ASSUME ReplayInv, NEW s \in Signal, Loaded(s) # {}
  PROVE  EntryPrice(s, Loaded(s)) \in Nat
<1>1. Min(Loaded(s)) \in Loaded(s)
  BY SeenTicks, MinMember
<1>2. candles[Min(Loaded(s))].open \in Nat
  <2> DEFINE k == Min(Loaded(s))
  <2> HIDE DEF k
  <2>1. k \in Loaded(s)
    BY <1>1 DEF k
  <2>2. candles[k] \in Candle
    BY <2>1, LoadedCandle
  <2>3. candles[k].open \in Nat
    BY <2>2 DEF Candle, Price
  <2>. QED  BY <2>3 DEF k
<1>. QED  BY <1>2 DEF EntryPrice, Signal

\* A result that the replay finds is no better than the one that was earned.
LEMMA ResultBelow ==
  ASSUME ReplayInv, NEW s \in Signal, Clear(s), Loaded(s) # {}, Sided(s)
  PROVE  LET claimed == BacktestSignal(s)
             earned == Earned(s)
         IN  /\ claimed.status \in Decided <=> earned.status \in Decided
             /\ claimed.status \in Decided =>
                  claimed.r \in Int /\ earned.r \in Int /\ claimed.r <= earned.r
<1> DEFINE entry == EntryPrice(s, Loaded(s))
           risk == Magnitude(entry - s.stop)
           gain == Sign(s) * (s.target - entry)
           c == BacktestSignal(s)
           status == StatusOf(LoopOf(candles, s, entry, Loaded(s)))
           e == Earned(s)
<1>1. /\ c.status = e.status \/ (c.status = "LOSS" /\ e.status = "WIN")
      /\ e.status = RealStatus(s)
  BY StatusAgrees DEF Earned
<1>2. entry \in Nat /\ s.stop \in Nat /\ s.target \in Nat /\ entry # s.stop
  BY EntryIsPrice DEF Signal, Clear
<1>3. c = [status |-> status, r |-> Realized(status, s, entry, candles[Max(Loaded(s))].close)]
  BY <1>2, Zenon DEF BacktestSignal, Loop, LoopOf
<1>4. Sign(s) * (entry - s.stop) > 0 /\ gain > 0
  BY DEF Sided
<1>5. Sign(s) \in {1, -1}
  BY DEF Sign
<1> HIDE DEF c, status, entry
<1>6. /\ risk \in Nat /\ risk > 0
      /\ gain \in Nat /\ Magnitude(s.target - entry) = gain
  BY <1>2, <1>4, <1>5 DEF Magnitude
<1>7. /\ c.status = status
      /\ status = "WIN" => c.r = InR(gain, risk)
      /\ status = "LOSS" => c.r = -Unit
  BY <1>3, <1>6 DEF Realized
<1>8. /\ e.status = "WIN" => e.r = InR(gain, risk)
      /\ e.status = "LOSS" => e.r = -Unit
  BY <1>1 DEF Earned, entry
<1> HIDE DEF e, risk, gain
<1>9. InR(gain, risk) \in Nat /\ Unit \in Nat
  BY <1>6, GainInR, ReplayAssumption
<1>. QED  BY <1>1, <1>7, <1>8, <1>9 DEF Decided, e, c

\* The score never credits a source with more wins, fewer losses or a better net than its
\* signals earned.
THEOREM NoSourceIsFlattered == Spec => []ScoreNeverFlatters
<1>1. ASSUME ReplayInv PROVE ScoreNeverFlatters
  <2> DEFINE D == {n \in DOMAIN posts :
                     Clear(posts[n]) /\ Loaded(posts[n]) # {} /\ Sided(posts[n])}
             f == [n \in D |-> BacktestSignal(posts[n])]
             g == [n \in D |-> Earned(posts[n])]
  <2>1. IsFiniteSet(D)
    <3>1. DOMAIN posts = 1..Len(posts) /\ Len(posts) \in Nat
      BY <1>1 DEF ReplayInv, ReplayTypeOK
    <3>2. D \subseteq 1..Len(posts)
      BY <3>1
    <3> HIDE DEF D
    <3>. QED  BY <3>1, <3>2, CountPlaces, FS_Subset
  <2>2. ASSUME NEW n \in D
        PROVE  /\ f[n].status \in Decided <=> g[n].status \in Decided
               /\ f[n].status \in Decided =>
                    f[n].r \in Int /\ g[n].r \in Int /\ f[n].r <= g[n].r
    <3>1. /\ posts[n] \in Signal /\ Clear(posts[n]) /\ Loaded(posts[n]) # {}
          /\ Sided(posts[n])
      BY <1>1, PostedSignal
    <3>2. f[n] = BacktestSignal(posts[n]) /\ g[n] = Earned(posts[n])
      BY Zenon
    <3> HIDE DEF D, f, g
    <3>. QED  BY <1>1, <3>1, <3>2, ResultBelow
  <2>3. DOMAIN f = D /\ DOMAIN g = D
    BY Zenon
  <2> HIDE DEF f, g
  <2>4. /\ Score(f).wins <= Score(g).wins /\ Score(f).net <= Score(g).net
        /\ Score(f).losses >= Score(g).losses
    <3> HIDE DEF D
    <3>. QED  BY <2>1, <2>2, <2>3, ScoreBelow
  <2>. QED  BY <2>4, Zenon DEF ScoreNeverFlatters, f, g
<1>. QED  BY <1>1, ReplayInvAlways, PTL
=============================================================================
