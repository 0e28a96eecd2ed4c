----------------------------- MODULE Arithmetic -----------------------------
(***************************************************************************)
(* Lemmas about numbers that the proofs about WlabSampler and Station need.*)
(* Those by induction rest on the least element of a set of naturals: a    *)
(* set that holds 0 and the successor of each of its elements is Nat.      *)
(***************************************************************************)
EXTENDS Integers, FiniteSetsExt, Functions, FiniteSetTheorems,
        WellFoundedInduction, TLAPS

LEMMA LeastNatural ==
  ASSUME NEW T \in SUBSET Nat, T # {}
  PROVE  \E x \in T : \A y \in T : x <= y
<1> DEFINE R == OpToRel(<, Nat)
<1>1. IsWellFoundedOn(R, Nat)
  BY NatLessThanWellFounded
<1>2. \A x, y \in Nat : y < x => <<y, x>> \in R
  BY DEF OpToRel
<1> HIDE DEF R
<1>3. PICK x \in T : \A y \in T : ~ (<<y, x>> \in R)
  BY <1>1, WFMin
<1>4. \A y \in T : ~ (y < x)
  BY <1>2, <1>3
<1>5. \A y \in T : x <= y
  BY <1>4
<1> QED
  BY <1>5

LEMMA SetInduction ==
  ASSUME NEW T, 0 \in T, \A n \in Nat : n \in T => n + 1 \in T
  PROVE  Nat \subseteq T
<1> SUFFICES ASSUME Nat \ T # {} PROVE FALSE
  OBVIOUS
<1>1. PICK x \in Nat \ T : \A y \in Nat \ T : x <= y
  BY LeastNatural
<1>2. x # 0 /\ x - 1 \in Nat /\ x - 1 \in T
  BY <1>1
<1> QED
  BY <1>1, <1>2

-----------------------------------------------------------------------------
(* The least and the greatest of a set.                                     *)

LEMMA MinOf ==
  ASSUME NEW S \in SUBSET Int, NEW m \in S, \A x \in S : m <= x
  PROVE  Min(S) = m
<1>1. Min(S) \in S /\ \A y \in S : Min(S) <= y
  BY DEF Min
<1>2. Min(S) <= m /\ m <= Min(S) /\ Min(S) \in Int
  BY <1>1
<1> QED
  BY <1>2

LEMMA MaxOf ==
  ASSUME NEW S \in SUBSET Int, NEW m \in S, \A x \in S : x <= m
  PROVE  Max(S) = m
<1>1. Max(S) \in S /\ \A y \in S : Max(S) >= y
  BY DEF Max
<1>2. Max(S) <= m /\ m <= Max(S) /\ Max(S) \in Int
  BY <1>1
<1> QED
  BY <1>2

LEMMA MinMember ==
  ASSUME NEW lo \in Int, NEW S \in SUBSET Int, S # {}, \A x \in S : lo <= x
  PROVE  Min(S) \in S /\ \A x \in S : Min(S) <= x
<1> DEFINE T == {x - lo : x \in S}
<1>2. \A x \in S : x - lo \in T
  OBVIOUS
<1>1. T \in SUBSET Nat /\ T # {}
  <2>1. \A x \in S : x - lo \in Nat
    OBVIOUS
  <2>2. T # {}
    BY <1>2
  <2> QED
    BY <2>1, <2>2
<1> HIDE DEF T
<1>3. PICK n \in T : \A k \in T : n <= k
  BY <1>1, LeastNatural
<1>4. PICK m \in S : n = m - lo
  BY <1>3 DEF T
<1>5. \A x \in S : m <= x
  BY <1>2, <1>3, <1>4
<1> QED
  BY <1>5, MinOf

LEMMA MaxMember ==
  ASSUME NEW hi \in Int, NEW S \in SUBSET Int, S # {}, \A x \in S : x <= hi
  PROVE  Max(S) \in S /\ \A x \in S : x <= Max(S)
<1> DEFINE T == {hi - x : x \in S}
<1>2. \A x \in S : hi - x \in T
  OBVIOUS
<1>1. T \in SUBSET Nat /\ T # {}
  <2>1. \A x \in S : hi - x \in Nat
    OBVIOUS
  <2>2. T # {}
    BY <1>2
  <2> QED
    BY <2>1, <2>2
<1> HIDE DEF T
<1>3. PICK n \in T : \A k \in T : n <= k
  BY <1>1, LeastNatural
<1>4. PICK m \in S : n = hi - m
  BY <1>3 DEF T
<1>5. \A x \in S : x <= m
  BY <1>2, <1>3, <1>4
<1> QED
  BY <1>5, MaxOf

-----------------------------------------------------------------------------
(* SumFunction: a fold over the sets of indices, one chosen after another.  *)

Chosen(s) == CHOOSE x \in s : TRUE
Rec(f, g, s) == IF s = {} THEN 0 ELSE f[Chosen(s)] + g[s \ {Chosen(s)}]
(* g[s] is the sum of f[i] for i in s.                                      *)
IsSum(f, n, g) == g = [s \in SUBSET (1 .. n) |-> Rec(f, g, s)]

LEMMA Unfold ==
  ASSUME NEW f, NEW n, DOMAIN f = 1 .. n
  PROVE  SumFunction(f) = (CHOOSE g : IsSum(f, n, g))[1 .. n]
BY DEF SumFunction, SumFunctionOnSet, FoldFunctionOnSet, MapThenFoldSet, Rec,
       Chosen, IsSum

(* The cardinalities of the subsets of an interval.                         *)
LEMMA Smaller ==
  ASSUME NEW n \in Nat, NEW s \in SUBSET (1 .. n)
  PROVE  /\ Cardinality(s) \in 0 .. n
         /\ Cardinality(s) = 0 <=> s = {}
         /\ \A x \in s : /\ s \ {x} \in SUBSET (1 .. n)
                         /\ Cardinality(s \ {x}) = Cardinality(s) - 1
<1>1. IsFiniteSet(1 .. n) /\ Cardinality(1 .. n) = n
  BY FS_Interval
<1>2. IsFiniteSet(s) /\ Cardinality(s) <= n
  BY <1>1, FS_Subset
<1>3. Cardinality(s) \in Nat
  BY <1>2, FS_CardinalityType
<1>4. Cardinality(s) = 0 <=> s = {}
  BY <1>2, FS_EmptySet
<1>5. ASSUME NEW x \in s
      PROVE  Cardinality(s \ {x}) = Cardinality(s) - 1
  BY <1>2, <1>5, FS_RemoveElement
<1> QED
  BY <1>2, <1>3, <1>4, <1>5

LEMMA ChosenIn == ASSUME NEW s, s # {} PROVE Chosen(s) \in s
BY DEF Chosen

LEMMA RecEmpty ==
  ASSUME NEW f, NEW g, NEW s, s = {}
  PROVE  Rec(f, g, s) = 0
BY DEF Rec

LEMMA RecChosen ==
  ASSUME NEW f, NEW g, NEW s, s # {}
  PROVE  Rec(f, g, s) = f[Chosen(s)] + g[s \ {Chosen(s)}]
BY DEF Rec

LEMMA SumExists ==
  ASSUME NEW n \in Nat, NEW f \in [1 .. n -> Int]
  PROVE  \E g : IsSum(f, n, g)
<1> DEFINE Upto(k, g) == /\ g = [s \in SUBSET (1 .. n) |-> g[s]]
                         /\ \A s \in SUBSET (1 .. n) : Cardinality(s) <= k
                              => g[s] = Rec(f, g, s)
           T == {k \in Nat : \E g : Upto(k, g)}
<1>1. 0 \in T
  <2> DEFINE g == [s \in SUBSET (1 .. n) |-> 0]
  <2>1. \A s \in SUBSET (1 .. n) : Cardinality(s) <= 0 => g[s] = Rec(f, g, s)
    BY Smaller DEF Rec
  <2>2. g = [s \in SUBSET (1 .. n) |-> g[s]]
    OBVIOUS
  <2> HIDE DEF g
  <2>3. Upto(0, g)
    BY <2>1, <2>2
  <2> HIDE DEF Upto
  <2> QED
    BY <2>3
<1>2. ASSUME NEW k \in Nat, k \in T PROVE k + 1 \in T
  <2>1. PICK g : Upto(k, g)
    BY <1>2
  <2> DEFINE h == [s \in SUBSET (1 .. n) |->
                     IF Cardinality(s) <= k THEN g[s] ELSE Rec(f, g, s)]
  <2>2. ASSUME NEW s \in SUBSET (1 .. n), Cardinality(s) <= k + 1
        PROVE  h[s] = Rec(f, g, s) /\ Rec(f, h, s) = Rec(f, g, s)
    <3>1. h[s] = Rec(f, g, s)
      BY <2>1
    <3>2. CASE s = {}
      BY <3>1, <3>2, RecEmpty
    <3>3. CASE s # {}
      <4> DEFINE r == s \ {Chosen(s)}
      <4>1. Chosen(s) \in s
        BY <3>3, ChosenIn
      <4>2. r \in SUBSET (1 .. n) /\ Cardinality(r) = Cardinality(s) - 1
        BY <4>1, Smaller
      <4>3. Cardinality(s) \in Nat
        BY Smaller
      <4>4. Cardinality(r) <= k
        BY <2>2, <4>2, <4>3
      <4>5. h[r] = g[r]
        BY <4>2, <4>4
      <4>6. Rec(f, g, s) = f[Chosen(s)] + g[r] /\ Rec(f, h, s) = f[Chosen(s)] + h[r]
        <5> HIDE DEF h
        <5> QED
          BY <3>3, RecChosen
      <4> HIDE DEF r, h
      <4> QED
        BY <3>1, <4>5, <4>6
    <3> QED
      BY <3>2, <3>3
  <2>3. h = [s \in SUBSET (1 .. n) |-> h[s]]
    OBVIOUS
  <2> HIDE DEF h
  <2>4. Upto(k + 1, h)
    BY <2>2, <2>3
  <2> HIDE DEF Upto
  <2> QED
    BY <2>4
<1>3. n \in T
  <2> HIDE DEF T
  <2> QED
    BY <1>1, <1>2, SetInduction
<1>4. PICK g : Upto(n, g)
  BY <1>3
<1>5. \A s \in SUBSET (1 .. n) : g[s] = Rec(f, g, s)
  <2>1. ASSUME NEW s \in SUBSET (1 .. n) PROVE Cardinality(s) <= n
    BY Smaller
  <2> QED
    BY <1>4, <2>1
<1>6. g = [s \in SUBSET (1 .. n) |-> g[s]]
  BY <1>4
<1> QED
  BY <1>5, <1>6 DEF IsSum

(* The order in which the elements are chosen does not matter.              *)
LEMMA SumOrder ==
  ASSUME NEW n \in Nat, NEW f \in [1 .. n -> Int], NEW g, IsSum(f, n, g)
  PROVE  \A s \in SUBSET (1 .. n) :
           g[s] \in Int /\ \A y \in s : g[s] = f[y] + g[s \ {y}]
<1> DEFINE Ordered(s) == g[s] \in Int /\ \A y \in s : g[s] = f[y] + g[s \ {y}]
           T == {k \in Nat : \A s \in SUBSET (1 .. n) :
                               Cardinality(s) <= k => Ordered(s)}
<1>1. \A s \in SUBSET (1 .. n) : g[s] = Rec(f, g, s)
  BY DEF IsSum
<1>2. 0 \in T
  <2>1. ASSUME NEW s \in SUBSET (1 .. n), Cardinality(s) <= 0 PROVE Ordered(s)
    <3>1. Cardinality(s) = 0
      BY <2>1, Smaller
    <3>2. s = {}
      BY <3>1, Smaller
    <3>3. g[s] = 0
      BY <1>1, <3>2, RecEmpty
    <3> QED
      BY <3>2, <3>3
  <2> HIDE DEF Ordered
  <2> QED
    BY <2>1
<1>3. ASSUME NEW k \in Nat, k \in T PROVE k + 1 \in T
  <2>1. \A s \in SUBSET (1 .. n) : Cardinality(s) <= k => Ordered(s)
    BY <1>3
  <2>2. ASSUME NEW s \in SUBSET (1 .. n), Cardinality(s) <= k + 1 PROVE Ordered(s)
    <3>1. CASE s = {}
      <4>1. g[s] = 0
        BY <1>1, <3>1, RecEmpty
      <4> QED
        BY <3>1, <4>1
    <3>2. CASE s # {}
      <4> DEFINE x == Chosen(s)
      <4>1. x \in s /\ x \in 1 .. n /\ f[x] \in Int
        BY <3>2, ChosenIn
      <4>2. g[s] = f[x] + g[s \ {x}]
        <5>1. Rec(f, g, s) = f[x] + g[s \ {x}]
          BY <3>2, RecChosen
        <5>2. g[s] = Rec(f, g, s)
          BY <1>1
        <5> HIDE DEF x
        <5> QED
          BY <5>1, <5>2
      <4> HIDE DEF x
      <4>3. ASSUME NEW y \in s
            PROVE  s \ {y} \in SUBSET (1 .. n) /\ Ordered(s \ {y})
        <5>1. s \ {y} \in SUBSET (1 .. n) /\ Cardinality(s \ {y}) = Cardinality(s) - 1
          BY Smaller
        <5>2. Cardinality(s) \in Nat
          BY Smaller
        <5>3. Cardinality(s \ {y}) <= k
          BY <2>2, <5>1, <5>2
        <5> HIDE DEF Ordered
        <5> QED
          BY <2>1, <5>1, <5>3
      <4>4. g[s \ {x}] \in Int
        BY <4>1, <4>3
      <4>5. ASSUME NEW y \in s, y # x PROVE g[s] = f[y] + g[s \ {y}]
        <5> DEFINE r == s \ {x, y}
        <5>1. (s \ {x}) \ {y} = r /\ (s \ {y}) \ {x} = r
          OBVIOUS
        <5>2. g[s \ {x}] = f[y] + g[r]
          <6>1. y \in s \ {x}
            BY <4>5
          <6>2. g[s \ {x}] = f[y] + g[(s \ {x}) \ {y}]
            BY <4>1, <4>3, <6>1
          <6> QED
            BY <5>1, <6>2
        <5>3. g[s \ {y}] = f[x] + g[r]
          <6>1. x \in s \ {y}
            BY <4>1, <4>5
          <6>2. g[s \ {y}] = f[x] + g[(s \ {y}) \ {x}]
            BY <4>3, <6>1
          <6> QED
            BY <5>1, <6>2
        <5>4. g[r] \in Int
          <6> DEFINE q == s \ {x}
          <6>1. q \in SUBSET (1 .. n) /\ y \in q /\ Cardinality(q) = Cardinality(s) - 1
            BY <4>1, <4>5, Smaller
          <6>2. Cardinality(s) \in Nat /\ Cardinality(q) \in Nat
            BY <6>1, Smaller
          <6>3. r = q \ {y}
            OBVIOUS
          <6> HIDE DEF q, r
          <6>4. r \in SUBSET (1 .. n) /\ Cardinality(r) = Cardinality(q) - 1
            BY <6>1, <6>3, Smaller
          <6>5. Cardinality(r) <= k
            BY <2>2, <6>1, <6>2, <6>4
          <6> QED
            BY <2>1, <6>4, <6>5
        <5>5. f[y] \in Int
          OBVIOUS
        <5> HIDE DEF r
        <5> QED
          BY <4>1, <4>2, <5>2, <5>3, <5>4, <5>5
      <4>6. g[s] \in Int
        BY <4>1, <4>2, <4>4
      <4> QED
        BY <4>2, <4>5, <4>6
    <3> QED
      BY <3>1, <3>2
  <2> HIDE DEF Ordered
  <2> QED
    BY <2>2
<1>4. Nat \subseteq T
  <2> HIDE DEF T
  <2> QED
    BY <1>2, <1>3, SetInduction
<1>5. ASSUME NEW s \in SUBSET (1 .. n) PROVE Ordered(s)
  <2>1. n \in T
    BY <1>4
  <2>2. Cardinality(s) <= n
    BY Smaller
  <2> HIDE DEF Ordered
  <2> QED
    BY <2>1, <2>2
<1> QED
  BY <1>5

Prefix(f, n) == [i \in 1 .. n |-> f[i]]

(* The sum over a set does not depend on what the function is elsewhere.    *)
LEMMA SumRestricts ==
  ASSUME NEW n \in Nat, NEW f,
         NEW g, IsSum(f, n + 1, g), NEW h, IsSum(Prefix(f, n), n, h)
  PROVE  \A s \in SUBSET (1 .. n) : g[s] = h[s]
<1> DEFINE e == Prefix(f, n)
<1>0. IsSum(e, n, h) /\ \A i \in 1 .. n : e[i] = f[i]
  BY DEF Prefix
<1> HIDE DEF e
<1> DEFINE T == {k \in Nat : \A s \in SUBSET (1 .. n) :
                               Cardinality(s) <= k => g[s] = h[s]}
<1>1. \A s \in SUBSET (1 .. n) : g[s] = Rec(f, g, s) /\ h[s] = Rec(e, h, s)
  <2>1. \A s \in SUBSET (1 .. n) : s \in SUBSET (1 .. n + 1)
    OBVIOUS
  <2> QED
    BY <1>0, <2>1 DEF IsSum
<1>2. 0 \in T
  <2>1. ASSUME NEW s \in SUBSET (1 .. n), Cardinality(s) <= 0 PROVE g[s] = h[s]
    <3>1. Cardinality(s) = 0
      BY <2>1, Smaller
    <3>2. s = {}
      BY <3>1, Smaller
    <3>3. Rec(f, g, s) = 0 /\ Rec(e, h, s) = 0
      BY <3>2, RecEmpty
    <3> QED
      BY <1>1, <3>3
  <2> QED
    BY <2>1
<1>3. ASSUME NEW k \in Nat, k \in T PROVE k + 1 \in T
  <2>1. ASSUME NEW s \in SUBSET (1 .. n), Cardinality(s) <= k + 1 PROVE g[s] = h[s]
    <3>1. CASE s = {}
      <4>1. Rec(f, g, s) = 0 /\ Rec(e, h, s) = 0
        BY <3>1, RecEmpty
      <4> QED
        BY <1>1, <4>1
    <3>2. CASE s # {}
      <4> DEFINE r == s \ {Chosen(s)}
      <4>1. Chosen(s) \in s
        BY <3>2, ChosenIn
      <4>2. r \in SUBSET (1 .. n) /\ Cardinality(r) = Cardinality(s) - 1
        BY <4>1, Smaller
      <4>3. Cardinality(s) \in Nat
        BY Smaller
      <4>4. Cardinality(r) <= k
        BY <2>1, <4>2, <4>3
      <4>5. Chosen(s) \in 1 .. n
        BY <4>1
      <4>6. g[s] = f[Chosen(s)] + g[r] /\ h[s] = e[Chosen(s)] + h[r]
        <5>1. /\ Rec(f, g, s) = f[Chosen(s)] + g[r]
              /\ Rec(e, h, s) = e[Chosen(s)] + h[r]
          BY <3>2, RecChosen
        <5> HIDE DEF r
        <5> QED
          BY <1>1, <5>1
      <4> HIDE DEF r
      <4>7. g[r] = h[r]
        BY <1>3, <4>2, <4>4
      <4> QED
        BY <1>0, <4>5, <4>6, <4>7
    <3> QED
      BY <3>1, <3>2
  <2> QED
    BY <2>1
<1>4. n \in T
  <2> HIDE DEF T
  <2> QED
    BY <1>2, <1>3, SetInduction
<1> QED
  BY <1>4, Smaller

LEMMA SumIsSum ==
  ASSUME NEW n \in Nat, NEW f \in [1 .. n -> Int]
  PROVE  \E g : IsSum(f, n, g) /\ SumFunction(f) = g[1 .. n]
<1> DEFINE g == CHOOSE g : IsSum(f, n, g)
<1>1. IsSum(f, n, g)
  BY SumExists
<1>2. SumFunction(f) = g[1 .. n]
  BY Unfold
<1> QED
  BY <1>1, <1>2

(* The sum of a longer function.                                            *)
LEMMA SumExtends ==
  ASSUME NEW n \in Nat, NEW f \in [1 .. n + 1 -> Int]
  PROVE  SumFunction(f) = SumFunction(Prefix(f, n)) + f[n + 1]
<1> DEFINE e == Prefix(f, n)
<1>1. e \in [1 .. n -> Int]
  BY DEF Prefix
<1> HIDE DEF e
<1>2. PICK g : IsSum(f, n + 1, g) /\ SumFunction(f) = g[1 .. n + 1]
  BY SumIsSum
<1>3. PICK h : IsSum(e, n, h) /\ SumFunction(e) = h[1 .. n]
  BY <1>1, SumIsSum
<1>4. g[1 .. n + 1] = f[n + 1] + g[(1 .. n + 1) \ {n + 1}]
  <2> DEFINE m == n + 1
             S == 1 .. m
  <2>1. m \in Nat /\ f \in [1 .. m -> Int] /\ IsSum(f, m, g) /\ m \in S
        /\ S \in SUBSET (1 .. m)
    BY <1>2
  <2> HIDE DEF m, S
  <2>2. g[S] = f[m] + g[S \ {m}]
    BY <2>1, SumOrder
  <2> QED
    BY <2>2 DEF m, S
<1>5. (1 .. n + 1) \ {n + 1} = 1 .. n
  OBVIOUS
<1>6. g[1 .. n] = h[1 .. n]
  <2> DEFINE S == 1 .. n
  <2>1. S \in SUBSET (1 .. n)
    OBVIOUS
  <2> HIDE DEF S
  <2>2. g[S] = h[S]
    <3>1. IsSum(f, n + 1, g) /\ IsSum(Prefix(f, n), n, h)
      BY <1>2, <1>3 DEF e
    <3>2. \A s \in SUBSET (1 .. n) : g[s] = h[s]
      BY <3>1, SumRestricts
    <3> QED
      BY <2>1, <3>2
  <2> QED
    BY <2>2 DEF S
<1>7. h[1 .. n] \in Int
  BY <1>1, <1>3, SumOrder
<1>8. g[1 .. n + 1] = f[n + 1] + h[1 .. n]
  BY <1>4, <1>5, <1>6
<1>9. f[n + 1] \in Int
  OBVIOUS
<1>10. f[n + 1] + h[1 .. n] = h[1 .. n] + f[n + 1]
  BY <1>7, <1>9
<1>11. SumFunction(f) = SumFunction(e) + f[n + 1]
  BY <1>2, <1>3, <1>8, <1>10
<1> QED
  BY <1>11 DEF e

LEMMA SumEmpty ==
  ASSUME NEW f, DOMAIN f = {}
  PROVE  SumFunction(f) = 0
<1>1. f \in [1 .. 0 -> Int] /\ 1 .. 0 = {}
  OBVIOUS
<1>2. PICK g : IsSum(f, 0, g) /\ SumFunction(f) = g[1 .. 0]
  BY <1>1, SumIsSum
<1> QED
  BY <1>1, <1>2 DEF IsSum, Rec

LEMMA SumInt ==
  ASSUME NEW n \in Nat, NEW f \in [1 .. n -> Int]
  PROVE  SumFunction(f) \in Int
<1>1. PICK g : IsSum(f, n, g) /\ SumFunction(f) = g[1 .. n]
  BY SumIsSum
<1> QED
  BY <1>1, SumOrder

-----------------------------------------------------------------------------
(* Division.                                                                *)

LEMMA DivMod ==
  ASSUME NEW a \in Int, NEW b \in Nat \ {0}
  PROVE  /\ a \div b \in Int /\ a % b \in 0 .. b - 1
         /\ a = (b * (a \div b)) + (a % b)
         /\ a \in Nat => a \div b \in Nat
OBVIOUS

LEMMA DivModNat ==
  ASSUME NEW a \in Nat, NEW b \in Nat \ {0}
  PROVE  /\ a \div b \in Nat /\ a % b \in 0 .. b - 1
         /\ a = (b * (a \div b)) + (a % b)
OBVIOUS

(* What is less than one more times b is at most as many times.             *)
LEMMA LessFactor ==
  ASSUME NEW b \in Nat \ {0}, NEW p \in Int, NEW q \in Int, b * p < b * (q + 1)
  PROVE  p <= q
<1> SUFFICES ASSUME q < p PROVE FALSE
  OBVIOUS
<1>1. PICK k \in Nat : p = (q + 1) + k
  <2>1. p - (q + 1) \in Nat
    OBVIOUS
  <2> QED
    BY <2>1
<1>2. b * p = (b * (q + 1)) + (b * k)
  BY <1>1
<1>3. b * k \in Nat /\ b * (q + 1) \in Int
  BY <1>1
<1> QED
  BY <1>2, <1>3

LEMMA DivUnique ==
  ASSUME NEW a \in Int, NEW b \in Nat \ {0}, NEW q \in Int, NEW r \in 0 .. b - 1,
         a = (b * q) + r
  PROVE  a \div b = q /\ a % b = r
<1> DEFINE p == a \div b
           m == a % b
<1>1. p \in Int /\ m \in 0 .. b - 1 /\ a = (b * p) + m
  BY DivMod
<1> HIDE DEF p, m
<1>2. b * (p + 1) = (b * p) + b /\ b * (q + 1) = (b * q) + b
      /\ b * p \in Int /\ b * q \in Int
  BY <1>1
<1>3. p <= q
  <2>1. b * p < b * (q + 1)
    BY <1>1, <1>2
  <2> QED
    BY <1>1, <2>1, LessFactor
<1>4. q <= p
  <2>1. b * q < b * (p + 1)
    BY <1>1, <1>2
  <2> QED
    BY <1>1, <2>1, LessFactor
<1>5. p = q
  BY <1>1, <1>3, <1>4
<1>6. m = r
  BY <1>1, <1>2, <1>5
<1> QED
  BY <1>5, <1>6 DEF p, m

LEMMA DivMonotone ==
  ASSUME NEW a \in Int, NEW c \in Int, a <= c, NEW b \in Nat \ {0}
  PROVE  a \div b <= c \div b /\ b * (a \div b) <= b * (c \div b)
<1> DEFINE p == a \div b
           q == c \div b
<1>1. /\ p \in Int /\ a % b \in 0 .. b - 1 /\ a = (b * p) + (a % b)
      /\ q \in Int /\ c % b \in 0 .. b - 1 /\ c = (b * q) + (c % b)
  BY DivMod
<1> HIDE DEF p, q
<1>2. b * (q + 1) = (b * q) + b /\ b * p \in Int /\ b * q \in Int
  BY <1>1
<1>3. b * p < b * (q + 1)
  BY <1>1, <1>2
<1>4. p <= q
  BY <1>1, <1>3, LessFactor
<1>5. b * p <= b * q
  <2>1. PICK k \in Nat : q = p + k
    <3>1. q - p \in Nat
      BY <1>1, <1>4
    <3> QED
      BY <1>1, <3>1
  <2>2. b * q = (b * p) + (b * k) /\ b * k \in Nat
    BY <1>1, <2>1
  <2> QED
    BY <1>2, <2>2
<1> QED
  BY <1>4, <1>5 DEF p, q

-----------------------------------------------------------------------------
(* A mean lies between the extremes.                                        *)

LEMMA SumBounds ==
  ASSUME NEW n \in Nat, NEW lo \in Int, NEW hi \in Int, NEW f \in [1 .. n -> lo .. hi]
  PROVE  n * lo <= SumFunction(f) /\ SumFunction(f) <= n * hi
<1> DEFINE Bounded(k, e) == k * lo <= SumFunction(e) /\ SumFunction(e) <= k * hi
           T == {k \in Nat : \A e \in [1 .. k -> lo .. hi] : Bounded(k, e)}
<1>1. 0 \in T
  <2>1. ASSUME NEW e \in [1 .. 0 -> lo .. hi] PROVE Bounded(0, e)
    <3>1. DOMAIN e = {}
      OBVIOUS
    <3>2. SumFunction(e) = 0
      BY <3>1, SumEmpty
    <3> QED
      BY <3>2
  <2> HIDE DEF Bounded
  <2> QED
    BY <2>1
<1>2. ASSUME NEW k \in Nat, k \in T PROVE k + 1 \in T
  <2>1. ASSUME NEW e \in [1 .. k + 1 -> lo .. hi] PROVE Bounded(k + 1, e)
    <3> DEFINE p == Prefix(e, k)
    <3>1. p \in [1 .. k -> lo .. hi] /\ p \in [1 .. k -> Int]
      BY DEF Prefix
    <3>2. e \in [1 .. k + 1 -> Int] /\ e[k + 1] \in lo .. hi
      OBVIOUS
    <3>3. SumFunction(e) = SumFunction(p) + e[k + 1]
      BY <3>2, SumExtends
    <3> HIDE DEF p
    <3>4. Bounded(k, p)
      BY <1>2, <3>1
    <3>5. SumFunction(p) \in Int
      BY <3>1, SumInt
    <3>6. /\ (k + 1) * lo = (k * lo) + lo /\ k * lo \in Int
          /\ (k + 1) * hi = (k * hi) + hi /\ k * hi \in Int
      OBVIOUS
    <3> QED
      BY <3>2, <3>3, <3>4, <3>5, <3>6
  <2> HIDE DEF Bounded
  <2> QED
    BY <2>1
<1>3. n \in T
  <2> HIDE DEF T
  <2> QED
    BY <1>1, <1>2, SetInduction
<1> QED
  BY <1>3

LEMMA DivBounds ==
  ASSUME NEW a \in Int, NEW b \in Nat \ {0}, NEW lo \in Int, NEW hi \in Int,
         b * lo <= a, a <= b * hi
  PROVE  a \div b \in lo .. hi
<1> DEFINE q == a \div b
<1>1. q \in Int /\ a % b \in 0 .. b - 1 /\ a = (b * q) + (a % b)
  BY DivMod
<1> HIDE DEF q
<1>2. /\ b * (q + 1) = (b * q) + b /\ b * (hi + 1) = (b * hi) + b
      /\ b * q \in Int /\ b * lo \in Int /\ b * hi \in Int
  BY <1>1
<1>3. b * q < b * (hi + 1) /\ b * lo < b * (q + 1)
  BY <1>1, <1>2
<1>4. q <= hi /\ lo <= q
  BY <1>1, <1>3, LessFactor
<1> QED
  BY <1>1, <1>4 DEF q

-----------------------------------------------------------------------------
(* Powers of two: 2 ^ n counts the subsets of a set of n elements, and one   *)
(* element more makes two subsets of each.                                   *)

LEMMA PowerOne == 2 ^ 0 = 1
OBVIOUS

LEMMA PowerSucc ==
  ASSUME NEW n \in Nat
  PROVE  2 ^ (n + 1) = 2 * 2 ^ n
<1> DEFINE S == 1 .. n
           U == 1 .. n + 1
           A == SUBSET S
           B == {s \cup {n + 1} : s \in A}
           f == [s \in A |-> s \cup {n + 1}]
<1>1. IsFiniteSet(S) /\ Cardinality(S) = n /\ IsFiniteSet(U) /\ Cardinality(U) = n + 1
  <2>1. n \in Int /\ 1 \in Int /\ n + 1 \in Int
    OBVIOUS
  <2> QED
    BY <2>1, FS_Interval
<1>2. IsFiniteSet(A) /\ Cardinality(A) = 2 ^ n
  BY <1>1, FS_SUBSET
<1>3. IsFiniteSet(SUBSET U) /\ Cardinality(SUBSET U) = 2 ^ (n + 1)
  BY <1>1, FS_SUBSET
<1>4. \A s \in A : n + 1 \notin s
  OBVIOUS
<1>5. f \in Bijection(A, B)
  <2>1. f \in [A -> B] /\ \A s \in A : f[s] = s \cup {n + 1}
    OBVIOUS
  <2>2. ASSUME NEW s \in A, NEW t \in A, f[s] = f[t] PROVE s = t
    <3>1. s = f[s] \ {n + 1} /\ t = f[t] \ {n + 1}
      BY <1>4, <2>1
    <3> QED
      BY <2>2, <3>1
  <2>3. \A t \in B : \E s \in A : f[s] = t
    OBVIOUS
  <2> HIDE DEF f, A, B
  <2> QED
    BY <2>1, <2>2, <2>3 DEF Bijection, Injection, Surjection, IsInjective
<1>6. IsFiniteSet(B) /\ Cardinality(B) = 2 ^ n
  <2>1. ExistsBijection(A, B)
    BY <1>5 DEF ExistsBijection
  <2> QED
    BY <1>2, <2>1, FS_Bijection
<1>7. SUBSET U = A \cup B
  <2>1. U = S \cup {n + 1}
    OBVIOUS
  <2>2. ASSUME NEW u \in SUBSET U PROVE u \in A \cup B
    <3>1. CASE n + 1 \in u
      <4>1. u \ {n + 1} \in A /\ u = (u \ {n + 1}) \cup {n + 1}
        BY <2>1, <3>1
      <4> QED
        BY <4>1
    <3>2. CASE n + 1 \notin u
      BY <2>1, <3>2
    <3> QED
      BY <3>1, <3>2
  <2>3. A \subseteq SUBSET U /\ B \subseteq SUBSET U
    BY <2>1
  <2> QED
    BY <2>2, <2>3
<1>8. A \cap B = {}
  BY <1>4
<1>9. Cardinality({}) = 0
  BY FS_EmptySet
<1> HIDE DEF A, B, U
<1>10. Cardinality(A \cup B) = Cardinality(A) + Cardinality(B) - Cardinality(A \cap B)
  BY <1>2, <1>6, FS_Union
<1>11. 2 ^ (n + 1) = 2 ^ n + 2 ^ n - 0
  BY <1>2, <1>3, <1>6, <1>7, <1>8, <1>9, <1>10
<1>12. 2 ^ n \in Int
  OBVIOUS
<1> QED
  BY <1>11, <1>12

LEMMA Power ==
  ASSUME NEW n \in Nat
  PROVE  2 ^ n \in Nat \ {0}
<1> DEFINE T == {k \in Nat : 2 ^ k \in Nat \ {0}}
<1>1. 0 \in T
  BY PowerOne
<1>2. ASSUME NEW k \in Nat, k \in T PROVE k + 1 \in T
  BY <1>2, PowerSucc
<1> HIDE DEF T
<1>3. n \in T
  BY <1>1, <1>2, SetInduction
<1> QED
  BY <1>3 DEF T

LEMMA PowerSum ==
  ASSUME NEW a \in Nat, NEW b \in Nat
  PROVE  2 ^ (a + b) = 2 ^ a * 2 ^ b
<1> DEFINE T == {k \in Nat : 2 ^ (a + k) = 2 ^ a * 2 ^ k}
<1>1. 0 \in T
  <2>1. a + 0 = a /\ 2 ^ a \in Nat
    BY Power
  <2> QED
    BY <2>1, PowerOne
<1>2. ASSUME NEW k \in Nat, k \in T PROVE k + 1 \in T
  <2>1. 2 ^ (a + k) = 2 ^ a * 2 ^ k
    BY <1>2
  <2>2. a + (k + 1) = (a + k) + 1 /\ a + k \in Nat
    OBVIOUS
  <2>3. 2 ^ (a + (k + 1)) = 2 * 2 ^ (a + k)
    BY <2>2, PowerSucc
  <2>4. 2 ^ (k + 1) = 2 * 2 ^ k
    BY PowerSucc
  <2>5. 2 ^ a \in Nat /\ 2 ^ k \in Nat
    BY Power
  <2>6. 2 * (2 ^ a * 2 ^ k) = 2 ^ a * (2 * 2 ^ k)
    <3> DEFINE x == 2 ^ a
               y == 2 ^ k
    <3> HIDE DEF x, y
    <3>1. x \in Nat /\ y \in Nat
      BY <2>5 DEF x, y
    <3>2. 2 * (x * y) = x * (2 * y)
      BY <3>1
    <3> QED
      BY <3>2 DEF x, y
  <2> QED
    BY <2>1, <2>3, <2>4, <2>6
<1> HIDE DEF T
<1>3. b \in T
  BY <1>1, <1>2, SetInduction
<1> QED
  BY <1>3 DEF T

-----------------------------------------------------------------------------
(* Dividing in steps, and adding below or above the divisor.                 *)

LEMMA DivDiv ==
  ASSUME NEW a \in Nat, NEW b \in Nat \ {0}, NEW c \in Nat \ {0}
  PROVE  (a \div b) \div c = a \div (b * c)
<1> DEFINE q == a \div b
           r == a % b
           p == q \div c
           s == q % c
<1>1. q \in Nat /\ r \in 0 .. b - 1 /\ a = (b * q) + r
  BY DivModNat
<1> HIDE DEF q, r
<1>2. p \in Nat /\ s \in 0 .. c - 1 /\ q = (c * p) + s
  BY <1>1, DivModNat
<1> HIDE DEF p, s
<1>3. b * q = ((b * c) * p) + (b * s)
  BY <1>1, <1>2
<1>4. b * s \in Nat /\ (b * s) + b <= b * c /\ b * c \in Nat
  <2>1. PICK k \in Nat : c = (s + 1) + k
    <3>1. c - (s + 1) \in Nat
      BY <1>2
    <3> QED
      BY <1>2, <3>1
  <2>2. b * c = ((b * s) + b) + (b * k)
    BY <1>2, <2>1
  <2>3. b * s \in Nat /\ b * k \in Nat
    BY <1>2, <2>1
  <2> QED
    BY <2>2, <2>3
<1> DEFINE d == b * c
           t == b * s
           e == t + r
<1>5. d \in Nat /\ t \in Nat /\ t + b <= d /\ b * q = (d * p) + t /\ d * p \in Int
  BY <1>2, <1>3, <1>4
<1> HIDE DEF d, t
<1>6. a = (d * p) + e /\ e \in 0 .. d - 1 /\ d \in Nat \ {0}
  <2> DEFINE u == b * q
             v == d * p
  <2>1. a = u + r /\ u = v + t /\ v \in Int
    BY <1>1, <1>5
  <2> HIDE DEF u, v
  <2>2. a = v + e /\ e \in 0 .. d - 1 /\ d \in Nat \ {0}
    BY <1>1, <1>5, <2>1
  <2> QED
    BY <2>2 DEF v
<1> HIDE DEF e
<1>7. a \div d = p
  BY <1>2, <1>6, DivUnique
<1> QED
  BY <1>7 DEF d, p, q

LEMMA DivAdd ==
  ASSUME NEW a \in Nat, NEW b \in Nat \ {0}, NEW k \in Nat
  PROVE  ((b * k) + a) \div b = k + (a \div b) /\ ((b * k) + a) % b = a % b
<1> DEFINE q == a \div b
           r == a % b
           n == (b * k) + a
<1>1. q \in Nat /\ r \in 0 .. b - 1 /\ a = (b * q) + r
  BY DivModNat
<1> HIDE DEF q, r
<1>2. b * (k + q) = (b * k) + (b * q) /\ b * k \in Nat /\ b * q \in Nat
  BY <1>1
<1>3. n = (b * (k + q)) + r /\ n \in Nat /\ k + q \in Nat
  BY <1>1, <1>2
<1> HIDE DEF n
<1>4. n \div b = k + q /\ n % b = r
  BY <1>1, <1>3, DivUnique
<1> QED
  BY <1>4 DEF q, r, n

LEMMA DivPower ==
  ASSUME NEW n \in Nat, NEW a \in Nat, NEW b \in Nat
  PROVE  (n \div 2 ^ a) \div 2 ^ b = n \div 2 ^ (a + b)
<1>1. 2 ^ a \in Nat \ {0} /\ 2 ^ b \in Nat \ {0}
  BY Power
<1>2. (n \div 2 ^ a) \div 2 ^ b = n \div (2 ^ a * 2 ^ b)
  BY <1>1, DivDiv
<1> QED
  BY <1>2, PowerSum

(* A bit that is 0 is set without a carry.                                   *)
LEMMA NoCarry ==
  ASSUME NEW q \in Nat, NEW w \in Nat, NEW b \in Nat, b < w, (q \div 2 ^ b) % 2 = 0
  PROVE  /\ (q + 2 ^ b) \div 2 ^ w = q \div 2 ^ w
         /\ (q + 2 ^ b) % 2 ^ w = (q % 2 ^ w) + 2 ^ b
<1> DEFINE x == 2 ^ b
           y == 2 ^ w
           c == w - (b + 1)
           z == 2 ^ c
           m == q \div x
           l == q % x
           h == m \div 2
<1>1. c \in Nat /\ b + 1 \in Nat /\ w = (b + 1) + c
  OBVIOUS
<1>2. x \in Nat \ {0} /\ y \in Nat \ {0} /\ z \in Nat \ {0}
  BY <1>1, Power
<1>3. y = (2 * x) * z
  <2>1. y = 2 ^ (b + 1) * z
    BY <1>1, PowerSum
  <2> QED
    BY <2>1, PowerSucc
<1>4. m % 2 = 0
  OBVIOUS
<1> HIDE DEF x, y, z, c
<1>5. m \in Nat /\ l \in 0 .. x - 1 /\ q = (x * m) + l
  BY <1>2, DivModNat
<1> HIDE DEF m, l
<1>6. h \in Nat /\ m = 2 * h
  <2>1. 2 \in Nat \ {0}
    OBVIOUS
  <2>2. m \div 2 \in Nat /\ m = (2 * (m \div 2)) + (m % 2)
    BY <1>5, <2>1, DivModNat
  <2> QED
    BY <1>4, <2>2
<1> HIDE DEF h
<1>7. x * m = (2 * x) * h /\ (2 * x) * h \in Nat
  BY <1>2, <1>6
<1>8. q \div (2 * x) = h /\ (q + x) \div (2 * x) = h
  <2> DEFINE d == 2 * x
  <2>1. d \in Nat \ {0} /\ l \in 0 .. d - 1 /\ l + x \in 0 .. d - 1
    BY <1>2, <1>5
  <2>2. q = (d * h) + l /\ q + x = (d * h) + (l + x) /\ q \in Int /\ q + x \in Int
    BY <1>2, <1>5, <1>7
  <2>5. h \in Int /\ l \in 0 .. d - 1 /\ q = (d * h) + l
    BY <1>6, <2>1, <2>2
  <2> HIDE DEF d
  <2>3. q \div d = h
    BY <2>1, <2>2, <2>5, DivUnique
  <2>4. (q + x) \div d = h
    BY <1>6, <2>1, <2>2, DivUnique
  <2> QED
    BY <2>3, <2>4 DEF d
<1>9. (q + x) \div y = q \div y
  <2>1. 2 * x \in Nat \ {0} /\ q + x \in Nat
    BY <1>2
  <2>2. (q \div (2 * x)) \div z = q \div ((2 * x) * z)
    BY <1>2, <2>1, DivDiv
  <2>3. ((q + x) \div (2 * x)) \div z = (q + x) \div ((2 * x) * z)
    BY <1>2, <2>1, DivDiv
  <2> QED
    BY <1>3, <1>8, <2>2, <2>3
<1>10. (q + x) % y = (q % y) + x
  <2> DEFINE u == q \div y
             v == q + x
  <2>1. u \in Nat /\ q % y \in Nat /\ q = (y * u) + (q % y) /\ y * u \in Nat
    BY <1>2, DivModNat
  <2>2. v = (y * (v \div y)) + (v % y) /\ v % y \in Nat
    BY <1>2, DivModNat
  <2>3. v \div y = u
    BY <1>9
  <2> HIDE DEF u
  <2>4. v = (y * u) + (v % y)
    BY <2>2, <2>3
  <2> QED
    BY <1>2, <2>1, <2>2, <2>4
<1> QED
  BY <1>9, <1>10 DEF x, y

-----------------------------------------------------------------------------
(* What adding to one of the terms does to a sum, and to its remainder.      *)

ChangedAt(n, f, e, i) ==
  /\ f \in [1 .. n -> Int] /\ e \in [1 .. n -> Int] /\ i \in 1 .. n
  /\ \A k \in 1 .. n : k # i => f[k] = e[k]

LEMMA SumChange ==
  ASSUME NEW n \in Nat, NEW f, NEW e, NEW i, ChangedAt(n, f, e, i)
  PROVE  SumFunction(f) = SumFunction(e) + (f[i] - e[i])
<1> DEFINE Moves(g, h, j) == SumFunction(g) = SumFunction(h) + (g[j] - h[j])
           T == {k \in Nat : \A g, h \in [1 .. k -> Int] : \A j \in 1 .. k :
                               ChangedAt(k, g, h, j) => Moves(g, h, j)}
<1>1. 0 \in T
  OBVIOUS
<1>2. ASSUME NEW k \in Nat, k \in T PROVE k + 1 \in T
  <2>1. ASSUME NEW g \in [1 .. k + 1 -> Int], NEW h \in [1 .. k + 1 -> Int],
               NEW j \in 1 .. k + 1, ChangedAt(k + 1, g, h, j)
        PROVE  Moves(g, h, j)
    <3> DEFINE p == Prefix(g, k)
               q == Prefix(h, k)
    <3>1. /\ p \in [1 .. k -> Int] /\ \A m \in 1 .. k : p[m] = g[m]
          /\ q \in [1 .. k -> Int] /\ \A m \in 1 .. k : q[m] = h[m]
      BY DEF Prefix
    <3>2. SumFunction(g) = SumFunction(p) + g[k + 1]
      BY SumExtends
    <3>3. SumFunction(h) = SumFunction(q) + h[k + 1]
      BY SumExtends
    <3> HIDE DEF p, q
    <3>4. SumFunction(p) \in Int /\ SumFunction(q) \in Int
      BY <3>1, SumInt
    <3>5. g[k + 1] \in Int /\ h[k + 1] \in Int
      OBVIOUS
    <3>6. CASE j = k + 1
      <4>1. \A m \in 1 .. k : p[m] = q[m]
        BY <2>1, <3>1, <3>6 DEF ChangedAt
      <4>2. p = q
        BY <3>1, <4>1
      <4> QED
        BY <3>2, <3>3, <3>4, <3>5, <3>6, <4>2
    <3>7. CASE j # k + 1
      <4>1. j \in 1 .. k /\ p[j] = g[j] /\ q[j] = h[j] /\ g[k + 1] = h[k + 1]
        BY <2>1, <3>1, <3>7 DEF ChangedAt
      <4>2. ChangedAt(k, p, q, j)
        BY <2>1, <3>1, <4>1 DEF ChangedAt
      <4> HIDE DEF Moves
      <4>3. Moves(p, q, j)
        BY <1>2, <3>1, <4>1, <4>2
      <4>4. SumFunction(p) = SumFunction(q) + (g[j] - h[j])
        BY <4>1, <4>3 DEF Moves
      <4>5. g[j] \in Int /\ h[j] \in Int
        OBVIOUS
      <4> QED
        BY <3>2, <3>3, <3>4, <3>5, <4>1, <4>4, <4>5 DEF Moves
    <3> QED
      BY <3>6, <3>7
  <2> HIDE DEF Moves
  <2>2. \A g, h \in [1 .. k + 1 -> Int] : \A j \in 1 .. k + 1 :
          ChangedAt(k + 1, g, h, j) => Moves(g, h, j)
    BY <2>1
  <2>3. k + 1 \in Nat
    OBVIOUS
  <2> QED
    BY <2>2, <2>3
<1> HIDE DEF T
<1>3. n \in T
  BY <1>1, <1>2, SetInduction
<1> USE DEF T
<1> HIDE DEF Moves
<1>4. f \in [1 .. n -> Int] /\ e \in [1 .. n -> Int] /\ i \in 1 .. n
  BY DEF ChangedAt
<1>5. Moves(f, e, i)
  BY <1>3, <1>4
<1> QED
  BY <1>5 DEF Moves

LEMMA ModMoves ==
  ASSUME NEW a \in Nat, NEW y \in Nat \ {0}, NEW x \in 1 .. y - 1
  PROVE  (a + x) % y # a % y
<1> DEFINE c == a + x
           p == c \div y
           q == a \div y
           r == a % y
<1>1. q \in Nat /\ r \in 0 .. y - 1 /\ a = (y * q) + r
  BY DivModNat
<1>2. c \in Nat /\ p \in Nat /\ c % y \in 0 .. y - 1 /\ c = (y * p) + (c % y)
  <2>1. c \in Nat
    OBVIOUS
  <2> HIDE DEF c
  <2> QED
    BY <2>1, DivModNat
<1> SUFFICES ASSUME c % y = r PROVE FALSE
  OBVIOUS
<1>3. c = (y * p) + r /\ c = a + x
  BY <1>2
<1> HIDE DEF c, p, q, r
<1>4. y * p \in Nat /\ y * q \in Nat /\ y * (q + 1) = (y * q) + y
      /\ y * (p + 1) = (y * p) + y
  BY <1>1, <1>2
<1>5. y * p = (y * q) + x
  BY <1>1, <1>3, <1>4
<1>6. p <= q
  <2>1. y * p < y * (q + 1)
    BY <1>4, <1>5
  <2> QED
    BY <1>1, <1>2, <2>1, LessFactor
<1>7. y * p <= y * q
  <2>1. PICK k \in Nat : q = p + k
    <3>1. q - p \in Nat
      BY <1>1, <1>2, <1>6
    <3> QED
      BY <1>1, <1>2, <3>1
  <2>2. y * q = (y * p) + (y * k) /\ y * k \in Nat
    BY <1>2, <2>1
  <2> QED
    BY <1>4, <2>2
<1> QED
  BY <1>4, <1>5, <1>7

LEMMA SmallMod ==
  ASSUME NEW b \in Nat \ {0}, NEW a \in 0 .. b - 1
  PROVE  a \div b = 0 /\ a % b = a
<1>1. a = (b * 0) + a /\ a \in Int /\ 0 \in Int
  OBVIOUS
<1> QED
  BY <1>1, DivUnique

LEMMA PowerMonotone ==
  ASSUME NEW a \in Nat, NEW b \in Nat, a <= b
  PROVE  2 ^ a <= 2 ^ b
<1> DEFINE c == b - a
           x == 2 ^ a
           y == 2 ^ c
<1>1. c \in Nat /\ b = a + c
  OBVIOUS
<1> HIDE DEF c
<1>2. 2 ^ b = x * y /\ x \in Nat \ {0} /\ y \in Nat \ {0}
  BY <1>1, PowerSum, Power
<1> HIDE DEF x, y
<1>3. x <= x * y
  <2>1. y - 1 \in Nat /\ x * y = x + (x * (y - 1)) /\ x * (y - 1) \in Nat
    BY <1>2
  <2> QED
    BY <1>2, <2>1
<1> QED
  BY <1>2, <1>3 DEF x

=============================================================================
