----------------------------- MODULE FiniteOrders -----------------------------
(***************************************************************************)
(* First and last members of finite sets of numbers, and sums over finite  *)
(* sets: what the loops over lists, the batches of updates, the counters   *)
(* and the exposures of the other modules rest on.                         *)
(***************************************************************************)
EXTENDS Integers, FiniteSetsExt, Functions, FiniteSetTheorems, TLAPS

\* A set of places of a list has a first one.
LEMMA LeastPlace ==
  ASSUME NEW n \in Nat, NEW T, T \subseteq 1..n, T # {}
  PROVE  \E x \in T : \A y \in T : x <= y
<1> DEFINE R == StrictSubsetOrdering(1..n)
           U == {1..x : x \in T}
<1>1. IsFiniteSet(1..n)
  BY FS_Interval
<1>2. IsWellFoundedOn(R, SUBSET (1..n))
  BY <1>1, FS_StrictSubsetOrderingWellFounded, FS_FiniteSubsetsOfFinite
<1>3. U \subseteq SUBSET (1..n) /\ U # {}
  <2>1. \A x \in T : 1..x \subseteq 1..n
    OBVIOUS
  <2>2. PICK x : x \in T
    OBVIOUS
  <2>3. 1..x \in U
    BY <2>2
  <2>. QED  BY <2>1, <2>3
<1>4. PICK u \in U : \A v \in U : ~ (<<v, u>> \in R)
  <2> HIDE DEF R, U
  <2>. QED  BY <1>2, <1>3, WFMin
<1>5. PICK x \in T : u = 1..x
  OBVIOUS
<1>6. ASSUME NEW y \in T, ~ (x <= y) PROVE FALSE
  <2>1. 1..y \subseteq 1..x /\ x \in 1..x /\ x \notin 1..y
    BY <1>6
  <2>2. <<1..y, 1..x>> \in R
    BY <1>3, <2>1 DEF StrictSubsetOrdering
  <2>. QED  BY <1>4, <1>5, <2>2
<1>. QED  BY <1>6

\* ... and a last one.
LEMMA GreatestPlace ==
  ASSUME NEW n \in Nat, NEW T, T \subseteq 1..n, T # {}
  PROVE  \E x \in T : \A y \in T : x >= y
<1> DEFINE M == {n + 1 - x : x \in T}
<1>1. M \subseteq 1..n /\ M # {}
  <2>1. \A x \in T : n + 1 - x \in 1..n
    OBVIOUS
  <2>2. PICK x : x \in T
    OBVIOUS
  <2>3. n + 1 - x \in M
    BY <2>2
  <2>. QED  BY <2>1, <2>3
<1>2. PICK z \in M : \A y \in M : z <= y
  <2> HIDE DEF M
  <2>. QED  BY <1>1, LeastPlace
<1>3. PICK x \in T : z = n + 1 - x
  OBVIOUS
<1>4. \A y \in T : n + 1 - y \in M
  OBVIOUS
<1>5. ASSUME NEW y \in T PROVE x >= y
  BY <1>2, <1>3, <1>4
<1>. QED  BY <1>5

\* Min and Max choose a member of a batch.
LEMMA MinMember ==
  ASSUME NEW n \in Nat, NEW T, T \subseteq 1..n, T # {}
  PROVE  Min(T) \in T /\ \A y \in T : Min(T) <= y
BY LeastPlace DEF Min

LEMMA MaxMember ==
  ASSUME NEW n \in Nat, NEW T, T \subseteq 1..n, T # {}
  PROVE  Max(T) \in T /\ \A y \in T : Max(T) >= y
BY GreatestPlace DEF Max

LEMMA MaxOfTwo ==
  ASSUME NEW a \in Int, NEW b \in Int
  PROVE  Max({a, b}) = IF a >= b THEN a ELSE b
<1>1. \E x \in {a, b} : \A y \in {a, b} : x >= y
  OBVIOUS
<1>2. Max({a, b}) \in {a, b} /\ Max({a, b}) >= a /\ Max({a, b}) >= b
  BY <1>1 DEF Max
<1>3. Max({a, b}) = a \/ Max({a, b}) = b
  BY <1>2
<1>. QED  BY <1>2, <1>3

LEMMA MinOfTwo ==
  ASSUME NEW a \in Int, NEW b \in Int
  PROVE  Min({a, b}) = IF a <= b THEN a ELSE b
<1>1. \E x \in {a, b} : \A y \in {a, b} : x <= y
  OBVIOUS
<1>2. Min({a, b}) \in {a, b} /\ Min({a, b}) <= a /\ Min({a, b}) <= b
  BY <1>1 DEF Min
<1>3. Min({a, b}) = a \/ Min({a, b}) = b
  BY <1>2
<1>. QED  BY <1>2, <1>3

\* What holds of a subset when it holds of all its proper subsets, holds of them all.
LEMMA SubsetInduction ==
  ASSUME NEW S, IsFiniteSet(S), NEW G,
         \A T \in SUBSET S : (\A U \in SUBSET T : U # T => U \in G) => T \in G
  PROVE  \A T \in SUBSET S : T \in G
<1> DEFINE R == StrictSubsetOrdering(S)
           Bad == {T \in SUBSET S : T \notin G}
<1> SUFFICES ASSUME Bad # {} PROVE FALSE
  OBVIOUS
<1>1. IsWellFoundedOn(R, SUBSET S)
  <2>1. FiniteSubsetsOf(S) = SUBSET S
    BY FS_FiniteSubsetsOfFinite
  <2>2. IsWellFoundedOn(R, FiniteSubsetsOf(S))
    BY FS_StrictSubsetOrderingWellFounded
  <2>. QED  BY <2>1, <2>2
<1>2. PICK T \in Bad : \A U \in Bad : ~ (<<U, T>> \in R)
  <2> HIDE DEF R
  <2>1. Bad \subseteq SUBSET S
    OBVIOUS
  <2> HIDE DEF Bad
  <2>. QED  BY <1>1, <2>1, WFMin
<1>3. \A U \in SUBSET T : U # T => U \in G
  <2> SUFFICES ASSUME NEW U \in SUBSET T, U # T, U \notin G PROVE FALSE
    OBVIOUS
  <2>1. U \in Bad
    OBVIOUS
  <2>2. <<U, T>> \in R
    BY DEF StrictSubsetOrdering
  <2>. QED  BY <1>2, <2>1, <2>2
<1>. QED  BY <1>3

\* Of finitely many things some come last, and some first, by a number they have.
LEMMA GreatestValue ==
  ASSUME NEW S, IsFiniteSet(S), NEW v, \A x \in S : v[x] \in Int, S # {}
  PROVE  \E x \in S : \A y \in S : v[y] <= v[x]
<1> DEFINE G == {T \in SUBSET S : T # {} => \E x \in T : \A y \in T : v[y] <= v[x]}
<1>1. ASSUME NEW T \in SUBSET S, \A U \in SUBSET T : U # T => U \in G
      PROVE  T \in G
  <2>1. ASSUME NEW z \in T, T \ {z} # {} PROVE \E x \in T : \A y \in T : v[y] <= v[x]
    <3>1. T \ {z} \in G
      BY <1>1
    <3>2. PICK x \in T \ {z} : \A y \in T \ {z} : v[y] <= v[x]
      BY <2>1, <3>1
    <3>3. v[x] \in Int /\ v[z] \in Int
      OBVIOUS
    <3>4. CASE v[z] <= v[x]
      BY <3>2, <3>4
    <3>5. CASE v[x] <= v[z]
      <4>1. ASSUME NEW y \in T PROVE v[y] <= v[z]
        <5>1. CASE y = z
          BY <3>3, <5>1
        <5>2. CASE y # z
          <6>1. v[y] <= v[x] /\ v[y] \in Int
            BY <3>2, <5>2
          <6>. QED  BY <3>3, <3>5, <6>1
        <5>. QED  BY <5>1, <5>2
      <4>. QED  BY <4>1
    <3>. QED  BY <3>3, <3>4, <3>5
  <2>2. ASSUME NEW z \in T, T \ {z} = {} PROVE \E x \in T : \A y \in T : v[y] <= v[x]
    BY <2>2
  <2>. QED  BY <2>1, <2>2
<1> HIDE DEF G
<1>2. \A T \in SUBSET S : T \in G
  BY <1>1, SubsetInduction
<1>. QED  BY <1>2 DEF G

LEMMA LeastValue ==
  ASSUME NEW S, IsFiniteSet(S), NEW v, \A x \in S : v[x] \in Int, S # {}
  PROVE  \E x \in S : \A y \in S : v[x] <= v[y]
<1> DEFINE w == [x \in S |-> 0 - v[x]]
<1>1. \A x \in S : w[x] \in Int /\ w[x] = 0 - v[x]
  OBVIOUS
<1> HIDE DEF w
<1>2. PICK x \in S : \A y \in S : w[y] <= w[x]
  BY <1>1, GreatestValue
<1>3. ASSUME NEW y \in S PROVE v[x] <= v[y]
  <2>1. w[y] <= w[x] /\ w[y] = 0 - v[y] /\ w[x] = 0 - v[x] /\ v[x] \in Int /\ v[y] \in Int
    BY <1>1, <1>2
  <2>. QED  BY <2>1
<1>. QED  BY <1>3
-----------------------------------------------------------------------------
(***************************************************************************)
(* Sums over finite sets, as MapThenSumSet and SumFunction compute them:   *)
(* one member after the other, in an order nobody knows.                   *)
(***************************************************************************)

\* g gives the sum of v over every subset of S, member by member, in some order.
Picked(T) == CHOOSE x \in T : TRUE
Summed(g, v, T) == IF T = {} THEN 0 ELSE v[Picked(T)] + g[T \ {Picked(T)}]
SumsUp(g, S, v) == g = [T \in SUBSET S |-> Summed(g, v, T)]

\* The first member that is picked is added to the sum of the others.
LEMMA SumsValue ==
  ASSUME NEW S, NEW g, NEW v, SumsUp(g, S, v)
  PROVE  /\ g[{}] = 0
         /\ \A T \in SUBSET S : T # {} =>
              Picked(T) \in T /\ g[T] = v[Picked(T)] + g[T \ {Picked(T)}]
<1>1. \A T \in SUBSET S : g[T] = Summed(g, v, T)
  BY Zenon DEF SumsUp
<1>2. \A T : T # {} => Picked(T) \in T
  BY Zenon DEF Picked
<1>. QED  BY <1>1, <1>2 DEF Summed

\* A sum depends on nothing but the set and the values.
LEMMA SumsAgree ==
  ASSUME NEW S, IsFiniteSet(S), NEW S1, NEW S2, S \subseteq S1, S \subseteq S2,
         NEW g, NEW v, SumsUp(g, S1, v), NEW h, NEW w, SumsUp(h, S2, w),
         \A x \in S : v[x] = w[x]
  PROVE  \A T \in SUBSET S : g[T] = h[T]
<1> DEFINE G == {T \in SUBSET S : g[T] = h[T]}
<1>1. ASSUME NEW T \in SUBSET S, \A U \in SUBSET T : U # T => U \in G
      PROVE  T \in G
  <2>1. CASE T = {}
    <3>1. g[{}] = 0 /\ h[{}] = 0
      BY SumsValue
    <3>. QED  BY <2>1, <3>1
  <2>2. CASE T # {}
    <3>1. /\ Picked(T) \in T
          /\ g[T] = v[Picked(T)] + g[T \ {Picked(T)}]
          /\ h[T] = w[Picked(T)] + h[T \ {Picked(T)}]
      <4>1. T \in SUBSET S1 /\ T \in SUBSET S2
        OBVIOUS
      <4>. QED  BY <2>2, <4>1, SumsValue
    <3>2. T \ {Picked(T)} \in SUBSET T /\ T \ {Picked(T)} # T
      BY <3>1
    <3>3. g[T \ {Picked(T)}] = h[T \ {Picked(T)}]
      BY <1>1, <3>2
    <3>. QED  BY <3>1, <3>3
  <2>. QED  BY <2>1, <2>2
<1> HIDE DEF G
<1>2. \A T \in SUBSET S : T \in G
  BY <1>1, SubsetInduction
<1>. QED  BY <1>2 DEF G

\* A finite set has sums.
LEMMA SumsExist ==
  ASSUME NEW S, IsFiniteSet(S), NEW v
  PROVE  \E g : SumsUp(g, S, v)
<1> DEFINE G == {T \in SUBSET S : \E g : SumsUp(g, T, v)}
           sum(T) == CHOOSE g : SumsUp(g, T, v)
<1>1. ASSUME NEW T \in SUBSET S, \A U \in SUBSET T : U # T => U \in G
      PROVE  T \in G
  <2> DEFINE value(U) ==
               IF U = {} THEN 0 ELSE v[Picked(U)] + sum(U \ {Picked(U)})[U \ {Picked(U)}]
             g == [U \in SUBSET T |-> value(U)]
  <2>1. \A U \in SUBSET T : U # T => SumsUp(sum(U), U, v)
    <3> SUFFICES ASSUME NEW U \in SUBSET T, U # T PROVE SumsUp(sum(U), U, v)
      OBVIOUS
    <3>1. \E h : SumsUp(h, U, v)
      BY <1>1
    <3>. QED  BY <3>1, Zenon
  <2>2. ASSUME NEW U \in SUBSET T, U # T PROVE sum(U)[U] = value(U)
    <3>1. CASE U = {}
      BY <2>1, <2>2, <3>1, SumsValue
    <3>2. CASE U # {}
      <4> DEFINE W == U \ {Picked(U)}
      <4>1. SumsUp(sum(U), U, v) /\ U \in SUBSET U
        BY <2>1, <2>2
      <4>2. Picked(U) \in U /\ sum(U)[U] = v[Picked(U)] + sum(U)[W]
        <5>1. ASSUME NEW h, SumsUp(h, U, v) PROVE Picked(U) \in U /\ h[U] = v[Picked(U)] + h[W]
          BY <3>2, <5>1, SumsValue
        <5> HIDE DEF sum, W
        <5>. QED  BY <4>1, <5>1
      <4>3. W \in SUBSET T /\ W # T /\ W \subseteq U /\ W \in SUBSET W
        BY <4>2
      <4>4. SumsUp(sum(W), W, v)
        BY <2>1, <4>3
      <4>5. IsFiniteSet(W)
        BY <4>3, FS_Subset
      <4>6. sum(U)[W] = sum(W)[W]
        <5> HIDE DEF sum, W
        <5>. QED  BY <4>1, <4>3, <4>4, <4>5, SumsAgree
      <4>. QED  BY <3>2, <4>2, <4>6
    <3>. QED  BY <3>1, <3>2
  <2>3. ASSUME NEW U \in SUBSET T PROVE value(U) = Summed(g, v, U)
    <3>1. CASE U = {}
      BY <3>1 DEF Summed
    <3>2. CASE U # {}
      <4> DEFINE W == U \ {Picked(U)}
      <4>1. Picked(U) \in U
        BY <3>2, Zenon DEF Picked
      <4>2. W \in SUBSET T /\ W # T
        BY <4>1
      <4>3. g[W] = value(W) /\ value(W) = sum(W)[W]
        BY <2>2, <4>2
      <4>4. value(U) = v[Picked(U)] + sum(W)[W]
        BY <3>2
      <4>. QED  BY <3>2, <4>3, <4>4 DEF Summed
    <3>. QED  BY <3>1, <3>2
  <2>4. g = [U \in SUBSET T |-> Summed(g, v, U)]
    <3> HIDE DEF value
    <3>. QED  BY <2>3
  <2>. QED  BY <2>4 DEF SumsUp
<1> HIDE DEF G
<1>2. S \in G
  BY <1>1, SubsetInduction
<1>. QED  BY <1>2 DEF G

\* Any member may be taken out first.
LEMMA SumsPart ==
  ASSUME NEW S, IsFiniteSet(S), NEW g, NEW v, SumsUp(g, S, v), \A x \in S : v[x] \in Nat
  PROVE  \A T \in SUBSET S :
           g[T] \in Nat /\ \A x \in T : g[T] = v[x] + g[T \ {x}] /\ g[T \ {x}] \in Nat
<1> DEFINE G == {T \in SUBSET S : g[T] \in Nat /\ \A x \in T : g[T] = v[x] + g[T \ {x}]}
<1>1. ASSUME NEW T \in SUBSET S, \A U \in SUBSET T : U # T => U \in G
      PROVE  T \in G
  <2>1. CASE T = {}
    BY <2>1, SumsValue
  <2>2. CASE T # {}
    <3>0. Picked(T) \in T /\ g[T] = v[Picked(T)] + g[T \ {Picked(T)}]
      BY <2>2, SumsValue
    <3>1. PICK y \in T : g[T] = v[y] + g[T \ {y}]
      BY <3>0
    <3>2. T \ {y} \in G
      BY <1>1
    <3>3. g[T] \in Nat
      BY <3>1, <3>2
    <3>4. ASSUME NEW x \in T, x # y PROVE g[T] = v[x] + g[T \ {x}]
      <4>1. T \ {x} \in G
        BY <1>1
      <4>2. g[T \ {x}] = v[y] + g[(T \ {x}) \ {y}]
        BY <3>4, <4>1
      <4>3. g[T \ {y}] = v[x] + g[(T \ {y}) \ {x}]
        BY <3>2, <3>4
      <4>4. (T \ {x}) \ {y} = (T \ {y}) \ {x}
        OBVIOUS
      <4>5. (T \ {y}) \ {x} \in G
        BY <1>1
      <4> DEFINE W == (T \ {y}) \ {x}
      <4>6. v[x] \in Nat /\ v[y] \in Nat /\ g[W] \in Nat
        BY <4>5
      <4> HIDE DEF W
      <4>7. g[T] = v[y] + (v[x] + g[W]) /\ g[T \ {x}] = v[y] + g[W]
        BY <3>1, <4>2, <4>3, <4>4 DEF W
      <4>. QED  BY <4>6, <4>7
    <3>. QED  BY <3>1, <3>3, <3>4
  <2>. QED  BY <2>1, <2>2
<1> HIDE DEF G
<1>2. \A T \in SUBSET S : T \in G
  BY <1>1, SubsetInduction
<1>. QED  BY <1>2 DEF G

\* A larger set has no smaller sum.
LEMMA SumsGrow ==
  ASSUME NEW S, IsFiniteSet(S), NEW g, NEW v, SumsUp(g, S, v), \A x \in S : v[x] \in Nat
  PROVE  \A U \in SUBSET S : \A T \in SUBSET U : g[T] <= g[U]
<1> DEFINE G == {U \in SUBSET S : \A T \in SUBSET U : g[T] <= g[U]}
<1>1. ASSUME NEW U \in SUBSET S, \A W \in SUBSET U : W # U => W \in G
      PROVE  U \in G
  <2>1. ASSUME NEW T \in SUBSET U PROVE g[T] <= g[U]
    <3>1. CASE T = U
      BY <3>1, SumsPart
    <3>2. CASE T # U
      <4>1. PICK x \in U : x \notin T
        BY <3>2
      <4>2. g[T] <= g[U \ {x}]
        BY <1>1, <4>1
      <4>3. /\ g[U] = v[x] + g[U \ {x}] /\ v[x] \in Nat
            /\ g[T] \in Nat /\ g[U \ {x}] \in Nat
        <5>1. \A W \in SUBSET S :
                g[W] \in Nat /\ \A z \in W : g[W] = v[z] + g[W \ {z}] /\ g[W \ {z}] \in Nat
          BY SumsPart
        <5>2. T \in SUBSET S
          OBVIOUS
        <5>. QED  BY <5>1, <5>2
      <4>. QED  BY <4>2, <4>3
    <3>. QED  BY <3>1, <3>2
  <2>. QED  BY <2>1
<1> HIDE DEF G
<1>2. \A U \in SUBSET S : U \in G
  BY <1>1, SubsetInduction
<1>. QED  BY <1>2 DEF G

\* A sum may be taken over other names of its summands.
LEMMA SumsRenamed ==
  ASSUME NEW S, IsFiniteSet(S), NEW R, IsFiniteSet(R), NEW f, \A x \in S : f[x] \in R,
         NEW g, NEW v, SumsUp(g, S, v), NEW h, NEW w, SumsUp(h, R, w),
         \A y \in R : w[y] \in Nat, \A x \in S : v[x] = w[f[x]],
         NEW T \in SUBSET S, \A x, y \in T : f[x] = f[y] => x = y
  PROVE  g[T] = h[{f[x] : x \in T}]
<1> DEFINE image(U) == {f[x] : x \in U}
           G == {U \in SUBSET T : g[U] = h[image(U)]}
<1>1. ASSUME NEW U \in SUBSET T, \A W \in SUBSET U : W # U => W \in G
      PROVE  U \in G
  <2>1. CASE U = {}
    <3>1. g[{}] = 0 /\ h[{}] = 0
      BY SumsValue
    <3>2. image(U) = {}
      BY <2>1
    <3>. QED  BY <2>1, <3>1, <3>2
  <2>2. CASE U # {}
    <3>1. PICK x : x \in U
      BY <2>2
    <3>2. U \ {x} \in G
      <4>1. U \ {x} \in SUBSET U /\ U \ {x} # U
        BY <3>1
      <4> HIDE DEF G
      <4>. QED  BY <1>1, <4>1
    <3>3. image(U \ {x}) = image(U) \ {f[x]} /\ f[x] \in image(U)
      <4>1. \A y \in U : f[y] = f[x] => y = x
        BY <3>1
      <4>. QED  BY <3>1, <4>1
    <3>a. image(U) \in SUBSET R
      OBVIOUS
    <3>4. g[U] = v[x] + g[U \ {x}]
      <4>1. \A y \in S : v[y] \in Nat
        OBVIOUS
      <4>2. U \in SUBSET S
        OBVIOUS
      <4>. QED  BY <3>1, <4>1, <4>2, SumsPart
    <3>5. h[image(U)] = w[f[x]] + h[image(U) \ {f[x]}]
      <4> HIDE DEF image
      <4>. QED  BY <3>3, <3>a, SumsPart
    <3>6. v[x] = w[f[x]]
      BY <3>1
    <3>7. g[U \ {x}] = h[image(U \ {x})]
      BY <3>2
    <3>. QED  BY <3>3, <3>4, <3>5, <3>6, <3>7
  <2>. QED  BY <2>1, <2>2
<1>2. IsFiniteSet(T)
  BY FS_Subset
<1> HIDE DEF G
<1>3. \A U \in SUBSET T : U \in G
  BY <1>1, <1>2, SubsetInduction
<1>. QED  BY <1>3 DEF G
-----------------------------------------------------------------------------
(***************************************************************************)
(* SumFunctionOnSet: the sum of the values that a function of integers has *)
(* on a finite set.                                                        *)
(***************************************************************************)
LEMMA SetSums ==
  ASSUME NEW v, NEW S, IsFiniteSet(S)
  PROVE  \E g : SumsUp(g, S, v) /\ \A T \in SUBSET S : SumFunctionOnSet(v, T) = g[T]
<1> DEFINE it(T) == CHOOSE h : h = [s \in SUBSET T |->
                      IF s = {} THEN 0
                      ELSE v[CHOOSE x \in s : TRUE] + h[s \ {CHOOSE x \in s : TRUE}]]
<1>1. ASSUME NEW T \in SUBSET S
      PROVE  SumFunctionOnSet(v, T) = it(T)[T] /\ SumsUp(it(T), T, v)
  <2>1. SumFunctionOnSet(v, T) = it(T)[T]
    BY Zenon DEF SumFunctionOnSet, FoldFunctionOnSet, MapThenFoldSet
  <2>2. IsFiniteSet(T)
    BY FS_Subset
  <2>3. \E h : SumsUp(h, T, v)
    BY <2>2, SumsExist
  <2>4. SumsUp(it(T), T, v)
    BY <2>3, Zenon DEF SumsUp, Summed, Picked
  <2>. QED  BY <2>1, <2>4
<1> HIDE DEF it
<1>2. PICK g : SumsUp(g, S, v)
  BY SumsExist
<1>3. ASSUME NEW T \in SUBSET S PROVE SumFunctionOnSet(v, T) = g[T]
  <2>1. IsFiniteSet(T) /\ T \in SUBSET T
    BY FS_Subset
  <2>2. it(T)[T] = g[T]
    BY <1>1, <1>2, <2>1, SumsAgree
  <2>. QED  BY <1>1, <2>2
<1>. QED  BY <1>2, <1>3

LEMMA SumOfNothing == \A v : SumFunctionOnSet(v, {}) = 0
<1> SUFFICES ASSUME NEW v PROVE SumFunctionOnSet(v, {}) = 0
  OBVIOUS
<1>1. IsFiniteSet({}) /\ {} \in SUBSET {}
  BY FS_EmptySet
<1>2. PICK g : SumsUp(g, {}, v) /\ \A T \in SUBSET {} : SumFunctionOnSet(v, T) = g[T]
  BY <1>1, SetSums
<1>3. g[{}] = 0
  BY <1>2, SumsValue
<1>. QED  BY <1>1, <1>2, <1>3

LEMMA SumSame ==
  ASSUME NEW v, NEW w, NEW S, IsFiniteSet(S), \A x \in S : v[x] = w[x]
  PROVE  SumFunctionOnSet(v, S) = SumFunctionOnSet(w, S)
<1>1. PICK g : SumsUp(g, S, v) /\ \A T \in SUBSET S : SumFunctionOnSet(v, T) = g[T]
  BY SetSums
<1>2. PICK h : SumsUp(h, S, w) /\ \A T \in SUBSET S : SumFunctionOnSet(w, T) = h[T]
  BY SetSums
<1>3. \A T \in SUBSET S : g[T] = h[T]
  <2>1. SumsUp(g, S, v) /\ SumsUp(h, S, w) /\ S \subseteq S
    BY <1>1, <1>2
  <2>. QED  BY <2>1, SumsAgree
<1>4. S \in SUBSET S
  OBVIOUS
<1>. QED  BY <1>1, <1>2, <1>3, <1>4, Zenon

\* A sum of integers is one, and any member may be taken out.
LEMMA SumMember ==
  ASSUME NEW v, NEW S, IsFiniteSet(S), \A x \in S : v[x] \in Int
  PROVE  \A T \in SUBSET S :
           /\ SumFunctionOnSet(v, T) \in Int
           /\ \A x \in T : /\ SumFunctionOnSet(v, T \ {x}) \in Int
                          /\ SumFunctionOnSet(v, T) = v[x] + SumFunctionOnSet(v, T \ {x})
<1>1. PICK g : SumsUp(g, S, v) /\ \A T \in SUBSET S : SumFunctionOnSet(v, T) = g[T]
  BY SetSums
<1> DEFINE G == {T \in SUBSET S : g[T] \in Int /\ \A x \in T : g[T] = v[x] + g[T \ {x}]}
<1>2. ASSUME NEW T \in SUBSET S, \A U \in SUBSET T : U # T => U \in G
      PROVE  T \in G
  <2>1. CASE T = {}
    BY <1>1, <2>1, SumsValue
  <2>2. CASE T # {}
    <3>0. Picked(T) \in T /\ g[T] = v[Picked(T)] + g[T \ {Picked(T)}]
      BY <1>1, <2>2, SumsValue
    <3>1. PICK y \in T : g[T] = v[y] + g[T \ {y}]
      BY <3>0
    <3>2. T \ {y} \in G
      BY <1>2
    <3>3. g[T] \in Int
      BY <3>1, <3>2
    <3>4. ASSUME NEW x \in T, x # y PROVE g[T] = v[x] + g[T \ {x}]
      <4> DEFINE W == (T \ {y}) \ {x}
      <4>1. T \ {x} \in G /\ W \in G
        BY <1>2
      <4>2. (T \ {x}) \ {y} = W
        OBVIOUS
      <4>3. g[T \ {x}] = v[y] + g[W]
        BY <3>4, <4>1, <4>2
      <4>4. g[T \ {y}] = v[x] + g[W]
        BY <3>2, <3>4
      <4>5. v[x] \in Int /\ v[y] \in Int /\ g[W] \in Int
        BY <4>1
      <4> HIDE DEF W
      <4>. QED  BY <3>1, <4>3, <4>4, <4>5
    <3>. QED  BY <3>1, <3>3, <3>4
  <2>. QED  BY <2>1, <2>2
<1> HIDE DEF G
<1>3. \A T \in SUBSET S : T \in G
  BY <1>2, SubsetInduction
<1>4. \A T \in SUBSET S : T \in G /\ \A x \in T : T \ {x} \in G
  BY <1>3
<1>. QED  BY <1>1, <1>4 DEF G

\* Larger values have no smaller sum.
LEMMA SumBelow ==
  ASSUME NEW v, NEW w, NEW S, IsFiniteSet(S),
         \A x \in S : v[x] \in Int /\ w[x] \in Int /\ v[x] <= w[x]
  PROVE  SumFunctionOnSet(v, S) <= SumFunctionOnSet(w, S)
<1> DEFINE V(T) == SumFunctionOnSet(v, T)
           W(T) == SumFunctionOnSet(w, T)
           G == {T \in SUBSET S : V(T) <= W(T)}
<1>1. ASSUME NEW T \in SUBSET S, \A U \in SUBSET T : U # T => U \in G
      PROVE  T \in G
  <2>1. CASE T = {}
    BY <2>1, SumOfNothing
  <2>2. CASE T # {}
    <3>1. PICK x : x \in T
      BY <2>2
    <3>2. IsFiniteSet(T)
      BY FS_Subset
    <3>3. /\ V(T) = v[x] + V(T \ {x}) /\ V(T \ {x}) \in Int
          /\ W(T) = w[x] + W(T \ {x}) /\ W(T \ {x}) \in Int
      <4>1. \A y \in S : v[y] \in Int
        OBVIOUS
      <4>2. \A y \in S : w[y] \in Int
        OBVIOUS
      <4>. QED  BY <3>1, <4>1, <4>2, SumMember
    <3>4. T \ {x} \in G
      BY <1>1, <3>1
    <3>5. V(T \ {x}) <= W(T \ {x}) /\ v[x] \in Int /\ w[x] \in Int /\ v[x] <= w[x]
      BY <3>1, <3>4
    <3> HIDE DEF V, W
    <3>. QED  BY <3>3, <3>5
  <2>. QED  BY <2>1, <2>2
<1> HIDE DEF G
<1>2. S \in G
  BY <1>1, SubsetInduction
<1>. QED  BY <1>2 DEF G

\* The sum of values that are a unit, none, or a unit less.
LEMMA SumOfWholes ==
  ASSUME NEW v, NEW S, IsFiniteSet(S), NEW u \in Nat, u > 0,
         \A x \in S : v[x] \in {u, 0, -u}
  PROVE  SumFunctionOnSet(v, S)
           = u * Cardinality({x \in S : v[x] > 0}) - u * Cardinality({x \in S : v[x] < 0})
<1> DEFINE P(T) == {x \in T : v[x] > 0}
           N(T) == {x \in T : v[x] < 0}
           V(T) == SumFunctionOnSet(v, T)
           G == {T \in SUBSET S : V(T) = u * Cardinality(P(T)) - u * Cardinality(N(T))}
<1>1. ASSUME NEW T \in SUBSET S, \A U \in SUBSET T : U # T => U \in G
      PROVE  T \in G
  <2>1. CASE T = {}
    <3>1. P(T) = {} /\ N(T) = {} /\ V(T) = 0
      BY <2>1, SumOfNothing
    <3>2. Cardinality({}) = 0
      BY FS_EmptySet
    <3>3. V(T) = u * Cardinality(P(T)) - u * Cardinality(N(T))
      <4> HIDE DEF P, N, V
      <4>. QED  BY <3>1, <3>2
    <3>. QED  BY <3>3
  <2>2. CASE T # {}
    <3>1. PICK x : x \in T
      BY <2>2
    <3> DEFINE W == T \ {x}
    <3>2. IsFiniteSet(T) /\ IsFiniteSet(P(W)) /\ IsFiniteSet(N(W))
      BY FS_Subset
    <3>3. V(T) = v[x] + V(W) /\ V(W) \in Int
      <4>1. \A y \in S : v[y] \in Int
        <5>1. u \in Int /\ -u \in Int /\ 0 \in Int
          OBVIOUS
        <5>. QED  BY <5>1
      <4>. QED  BY <3>1, <4>1, SumMember
    <3>4. V(W) = u * Cardinality(P(W)) - u * Cardinality(N(W))
      <4>1. W \in G
        BY <1>1, <3>1
      <4>. QED  BY <4>1
    <3>5. Cardinality(P(W)) \in Nat /\ Cardinality(N(W)) \in Nat
      BY <3>2, FS_CardinalityType
    <3>6. CASE v[x] = u
      <4>1. P(T) = P(W) \cup {x} /\ N(T) = N(W) /\ x \notin P(W)
        BY <3>1, <3>6
      <4>2. Cardinality(P(T)) = Cardinality(P(W)) + 1
        <5> HIDE DEF P
        <5>. QED  BY <3>2, <4>1, FS_AddElement
      <4>3. \A a, b \in Nat : u + (u * a - u * b) = u * (a + 1) - u * b
        OBVIOUS
      <4>4. V(T) = u * (Cardinality(P(W)) + 1) - u * Cardinality(N(W))
        <5> HIDE DEF P, N, V, W
        <5>. QED  BY <3>3, <3>4, <3>5, <3>6, <4>3
      <4>5. N(T) = N(W)
        BY <4>1
      <4> HIDE DEF P, N, V, W
      <4>6. V(T) = u * Cardinality(P(T)) - u * Cardinality(N(T))
        BY <4>2, <4>4, <4>5
      <4>. QED  BY <4>6
    <3>7. CASE v[x] = -u
      <4>1. N(T) = N(W) \cup {x} /\ P(T) = P(W) /\ x \notin N(W)
        BY <3>1, <3>7
      <4>2. Cardinality(N(T)) = Cardinality(N(W)) + 1
        <5> HIDE DEF N
        <5>. QED  BY <3>2, <4>1, FS_AddElement
      <4>3. \A a, b \in Nat : -u + (u * a - u * b) = u * a - u * (b + 1)
        OBVIOUS
      <4>4. V(T) = u * Cardinality(P(W)) - u * (Cardinality(N(W)) + 1)
        <5> HIDE DEF P, N, V, W
        <5>. QED  BY <3>3, <3>4, <3>5, <3>7, <4>3
      <4>5. P(T) = P(W)
        BY <4>1
      <4> HIDE DEF P, N, V, W
      <4>6. V(T) = u * Cardinality(P(T)) - u * Cardinality(N(T))
        BY <4>2, <4>4, <4>5
      <4>. QED  BY <4>6
    <3>8. CASE v[x] = 0
      <4>1. N(T) = N(W) /\ P(T) = P(W)
        BY <3>1, <3>8
      <4>2. V(T) = V(W)
        BY <3>3, <3>8
      <4> HIDE DEF P, N, V, W
      <4>. QED  BY <3>4, <4>1, <4>2
    <3>. QED  BY <3>1, <3>6, <3>7, <3>8
  <2>. QED  BY <2>1, <2>2
<1> HIDE DEF G
<1>2. S \in G
  BY <1>1, SubsetInduction
<1>. QED  BY <1>2 DEF G
-----------------------------------------------------------------------------
(***************************************************************************)
(* Loops over the places of a list.                                        *)
(***************************************************************************)

\* How many places there are.
LEMMA CountBetween ==
  ASSUME NEW a \in Nat, NEW b \in Nat
  PROVE  IsFiniteSet(a + 1..a + b) /\ Cardinality(a + 1..a + b) = b
<1>1. a + 1 \in Int /\ a + b \in Int
  OBVIOUS
<1>2. /\ IsFiniteSet(a + 1..a + b)
      /\ Cardinality(a + 1..a + b) = IF a + 1 > a + b THEN 0 ELSE (a + b) - (a + 1) + 1
  BY <1>1, FS_Interval
<1>. QED  BY <1>2

LEMMA CountPlaces ==
  ASSUME NEW n \in Nat
  PROVE  IsFiniteSet(1..n) /\ Cardinality(1..n) = n
<1>1. IsFiniteSet(0 + 1..0 + n) /\ Cardinality(0 + 1..0 + n) = n
  BY CountBetween
<1>. QED  BY <1>1

\* What holds before the loop and is kept by every round holds after each.
LEMMA PlaceInduction ==
  ASSUME NEW n \in Nat, NEW G, 0 \in G, \A k \in 1..n : k - 1 \in G => k \in G
  PROVE  \A k \in 0..n : k \in G
<1> DEFINE T == {k \in 1..n : k \notin G}
<1> SUFFICES ASSUME T # {} PROVE FALSE
  OBVIOUS
<1>1. PICK k \in T : \A j \in T : k <= j
  <2>1. T \subseteq 1..n
    OBVIOUS
  <2> HIDE DEF T
  <2>. QED  BY <2>1, LeastPlace
<1>2. k - 1 \in G
  <2>1. CASE k = 1
    BY <2>1
  <2>2. CASE k # 1
    <3>1. k - 1 \in 1..n /\ ~ (k <= k - 1)
      BY <2>2
    <3>. QED  BY <1>1, <3>1
  <2>. QED  BY <2>1, <2>2
<1>. QED  BY <1>1, <1>2

\* The results of a loop of n rounds after each of them, from a on: F takes the round
\* and the result before it.
Rounds(run, n, A, a, F) ==
  /\ run \in [0..n -> A] /\ run[0] = a
  /\ \A k \in 1..n : run[k] = F[<<k, run[k - 1]>>]

\* A loop has a result after each round.
LEMMA LoopExists ==
  ASSUME NEW n \in Nat, NEW A, NEW a \in A, NEW F \in [(1..n) \X A -> A]
  PROVE  \E run : Rounds(run, n, A, a, F)
<1> DEFINE Runs(m, run) == /\ run = [k \in 0..m |-> IF k = 0 THEN a ELSE F[<<k, run[k - 1]>>]]
                           /\ \A k \in 0..m : run[k] \in A
           G == {m \in 0..n : \E run : Runs(m, run)}
<1>0. \A k \in 1..n, x \in A : F[<<k, x>>] \in A
  OBVIOUS
<1>1. 0 \in G
  <2> DEFINE r == [k \in 0..0 |-> a]
  <2>1. r = [k \in 0..0 |-> IF k = 0 THEN a ELSE F[<<k, r[k - 1]>>]]
    OBVIOUS
  <2>2. \A k \in 0..0 : r[k] \in A
    OBVIOUS
  <2>3. Runs(0, r)
    BY <2>1, <2>2
  <2>4. 0 \in 0..n
    OBVIOUS
  <2> HIDE DEF Runs, r
  <2>. QED  BY <2>3, <2>4
<1>2. ASSUME NEW m \in 1..n, m - 1 \in G PROVE m \in G
  <2>1. PICK p : Runs(m - 1, p)
    BY <1>2
  <2> DEFINE r == [k \in 0..m |-> IF k = m THEN F[<<m, p[m - 1]>>] ELSE p[k]]
  <2>2. \A k \in 0..m - 1 : r[k] = p[k] /\ p[k] \in A
    BY <2>1
  <2>3. r[m] = F[<<m, r[m - 1]>>] /\ r[m] \in A
    <3>1. m - 1 \in 0..m - 1 /\ m \in 0..m
      OBVIOUS
    <3>. QED  BY <1>0, <2>2, <3>1
  <2>4. ASSUME NEW k \in 0..m PROVE r[k] = IF k = 0 THEN a ELSE F[<<k, r[k - 1]>>]
    <3>1. CASE k = m
      BY <2>3, <3>1
    <3>2. CASE k # m /\ k = 0
      BY <2>1, <3>2
    <3>3. CASE k # m /\ k # 0
      <4>1. k \in 0..m - 1 /\ k - 1 \in 0..m - 1
        BY <3>3
      <4>2. p[k] = F[<<k, p[k - 1]>>]
        BY <2>1, <3>3, <4>1
      <4>. QED  BY <2>2, <3>3, <4>1, <4>2
    <3>. QED  BY <3>1, <3>2, <3>3
  <2>5. \A k \in 0..m : r[k] \in A
    <3>1. \A k \in 0..m : k = m \/ k \in 0..m - 1
      OBVIOUS
    <3> HIDE DEF r
    <3>. QED  BY <2>2, <2>3, <3>1
  <2>6. r = [k \in 0..m |-> r[k]]
    OBVIOUS
  <2> DEFINE b(k) == IF k = 0 THEN a ELSE F[<<k, r[k - 1]>>]
  <2>7. r = [k \in 0..m |-> b(k)]
    <3>1. \A k \in 0..m : r[k] = b(k)
      BY <2>4
    <3> HIDE DEF r, b
    <3>. QED  BY <2>6, <3>1
  <2>8. Runs(m, r)
    BY <2>5, <2>7
  <2>9. m \in 0..n
    OBVIOUS
  <2> HIDE DEF Runs, r
  <2>. QED  BY <2>8, <2>9
<1> HIDE DEF G
<1>3. n \in G
  BY <1>1, <1>2, PlaceInduction
<1>4. PICK run : Runs(n, run)
  BY <1>3 DEF G
<1>5. run \in [0..n -> A] /\ run[0] = a
  BY <1>4
<1>6. ASSUME NEW k \in 1..n PROVE run[k] = F[<<k, run[k - 1]>>]
  BY <1>4
<1> HIDE DEF Runs
<1>. QED  BY <1>5, <1>6 DEF Rounds
=============================================================================
