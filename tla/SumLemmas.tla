----------------------------- MODULE SumLemmas -----------------------------
(***************************************************************************)
(* Lemmas about loops, about SumFunctionOnSet, the sum of a function over  *)
(* a finite set (what it is for no elements, for one more, for another     *)
(* function, for a larger set), about the least and the greatest of some   *)
(* numbers and about ranks.  The proofs are inductions on the number of    *)
(* steps and of elements.                                                  *)
(***************************************************************************)
EXTENDS Integers, FiniteSets, FiniteSetsExt, Functions, FiniteSetTheorems, NaturalsInduction,
        WellFoundedInduction, TLAPS

\* Induction over the naturals, for a set: a set without a least element is empty.
LEMMA Induction ==
    ASSUME NEW S, 0 \in S, \A n \in Nat : n \in S => n + 1 \in S
    PROVE  \A n \in Nat : n \in S
<1> DEFINE R == OpToRel(<, Nat)
           T == Nat \ S
<1>1. SUFFICES ASSUME T # {} PROVE FALSE
  OBVIOUS
<1>2. \A x, y \in Nat : x < y => <<x, y>> \in R
  BY DEF OpToRel
<1> HIDE DEF R
<1>3. PICK n \in T : \A m \in T : <<m, n>> \notin R
  BY <1>1, NatLessThanWellFounded, WFMin DEF R
<1>4. \A m \in T : ~(m < n)
  BY <1>2, <1>3
<1>5. n # 0 /\ n - 1 \in Nat /\ n - 1 < n
  BY <1>3
<1>6. n - 1 \in S
  BY <1>4, <1>5
<1>7. (n - 1) + 1 \in S
  BY <1>5, <1>6
<1>8. QED
  BY <1>3, <1>7

\* f has what a loop from n to m makes of base.
Loops(f, n, m, base, step) ==
    f = [k \in n..m |-> IF k = n THEN base ELSE step[<<k, f[k - 1]>>]]

\* There is one, by steps that stay within P.
LEMMA LoopExists ==
    ASSUME NEW P, NEW n \in Nat, NEW m \in Nat, n <= m, NEW base \in P, NEW step,
           \A k \in (n + 1)..m : \A p \in P : step[<<k, p>>] \in P
    PROVE  \E f \in [n..m -> P] : Loops(f, n, m, base, step)
<1> DEFINE Loop(f, d) == Loops(f, n, n + d, base, step)
           N == {d \in Nat : n + d <= m => \E f \in [n..(n + d) -> P] : Loop(f, d)}
<1>1. 0 \in N
  <2> DEFINE f == [k \in n..(n + 0) |-> base]
  <2>1. \A k \in n..(n + 0) : k = n
    OBVIOUS
  <2>2. f \in [n..(n + 0) -> P] /\ Loop(f, 0)
    BY <2>1 DEF Loops
  <2>3. QED
    BY <2>2
<1>2. ASSUME NEW d \in Nat, d \in N PROVE d + 1 \in N
  <2> SUFFICES ASSUME n + (d + 1) <= m
               PROVE  \E f \in [n..(n + (d + 1)) -> P] : Loop(f, d + 1)
    OBVIOUS
  <2>1. PICK g \in [n..(n + d) -> P] : Loop(g, d)
    BY <1>2
  <2> DEFINE k1 == n + (d + 1)
             f  == [k \in n..k1 |-> IF k = k1 THEN step[<<k1, g[n + d]>>] ELSE g[k]]
  <2>2. k1 \in (n + 1)..m /\ n + d \in n..(n + d) /\ k1 - 1 = n + d
    OBVIOUS
  <2>3. step[<<k1, g[n + d]>>] \in P
    BY <2>2
  <2>4. \A k \in n..k1 : k # k1 => k \in n..(n + d)
    OBVIOUS
  <2>5. f \in [n..k1 -> P]
    BY <2>3, <2>4
  <2>6. ASSUME NEW k \in n..k1
        PROVE  f[k] = IF k = n THEN base ELSE step[<<k, f[k - 1]>>]
    <3>1. CASE k = k1
      <4>1. f[k - 1] = g[n + d] /\ k # n
        BY <2>2, <3>1
      <4>2. QED
        BY <3>1, <4>1
    <3>2. CASE k # k1
      <4>1. k \in n..(n + d) /\ f[k] = g[k]
        BY <2>4, <3>2
      <4>2. g[k] = IF k = n THEN base ELSE step[<<k, g[k - 1]>>]
        BY <2>1, <4>1 DEF Loops
      <4>3. k # n => k - 1 \in n..k1 /\ k - 1 # k1
        BY <4>1
      <4>4. k # n => f[k - 1] = g[k - 1]
        BY <4>3
      <4>5. QED
        BY <4>1, <4>2, <4>4
    <3>3. QED
      BY <3>1, <3>2
  <2>7. Loop(f, d + 1)
    BY <2>6 DEF Loops
  <2>8. QED
    BY <2>5, <2>7
<1> HIDE DEF N
<1>3. \A d \in Nat : d \in N
  BY <1>1, <1>2, Induction
<1>4. m - n \in Nat /\ n + (m - n) = m
  OBVIOUS
<1>5. m - n \in N
  BY <1>3, <1>4
<1>6. QED
  BY <1>4, <1>5 DEF N

---------------------------------------------------------------------------
(* Sums.                                                                   *)

\* The element a fold takes first.
FirstOf(s) == CHOOSE x \in s : TRUE

\* What is summed for the set s, u giving the sums of smaller sets.
SumStep(f, u, s) == IF s = {} THEN 0 ELSE f[FirstOf(s)] + u[s \ {FirstOf(s)}]

\* u gives the sum of f over every set of D.
Sums(f, u, D) == u = [s \in D |-> SumStep(f, u, s)]

\* The subsets of S with at most n elements.
SubsetsUpto(S, n) == {s \in SUBSET S : Cardinality(s) <= n}

\* A set of at most n + 1 elements has at most n without the first.
LEMMA SmallerSet ==
    ASSUME NEW S, IsFiniteSet(S), NEW s \in SUBSET S, s # {},
           NEW n \in Nat, Cardinality(s) <= n + 1
    PROVE  /\ IsFiniteSet(s)
           /\ FirstOf(s) \in s
           /\ s \ {FirstOf(s)} \in SUBSET S
           /\ Cardinality(s \ {FirstOf(s)}) <= n
<1>1. IsFiniteSet(s) /\ Cardinality(s) \in Nat
  BY FS_Subset, FS_CardinalityType
<1>2. FirstOf(s) \in s
  BY DEF FirstOf
<1>3. Cardinality(s \ {FirstOf(s)}) = Cardinality(s) - 1
  BY <1>1, <1>2, FS_RemoveElement
<1>4. Cardinality(s \ {FirstOf(s)}) <= n
  BY <1>1, <1>3
<1>5. QED
  BY <1>1, <1>2, <1>4

LEMMA SumIsPartial ==
    ASSUME NEW f, NEW S
    PROVE  SumFunctionOnSet(f, S)
              = (CHOOSE u : Sums(f, u, SUBSET S))[S]
  BY DEF SumFunctionOnSet, FoldFunctionOnSet, MapThenFoldSet, Sums, SumStep, FirstOf

LEMMA SumsExist ==
    ASSUME NEW f, NEW S, IsFiniteSet(S)
    PROVE  \E u : Sums(f, u, SUBSET S)
<1> DEFINE N == {n \in Nat : \E u : Sums(f, u, SubsetsUpto(S, n))}
<1>1. 0 \in N
  <2>1. \A s \in SubsetsUpto(S, 0) : s = {}
    BY FS_Subset, FS_EmptySet, FS_CardinalityType DEF SubsetsUpto
  <2>2. Sums(f, [s \in SubsetsUpto(S, 0) |-> 0], SubsetsUpto(S, 0))
    BY <2>1 DEF Sums, SumStep
  <2>3. QED
    BY <2>2
<1>2. ASSUME NEW n \in Nat, n \in N PROVE n + 1 \in N
  <2>1. PICK u : Sums(f, u, SubsetsUpto(S, n))
    BY <1>2
  <2> DEFINE v == [s \in SubsetsUpto(S, n + 1) |-> SumStep(f, u, s)]
  <2>2. \A s \in SubsetsUpto(S, n) : u[s] = SumStep(f, u, s)
    BY <2>1 DEF Sums
  <2>3. ASSUME NEW s \in SubsetsUpto(S, n + 1) PROVE SumStep(f, v, s) = SumStep(f, u, s)
    <3>1. CASE s = {}
      BY <3>1 DEF SumStep
    <3>2. CASE s # {}
      <4> DEFINE r == s \ {FirstOf(s)}
      <4>1. r \in SubsetsUpto(S, n) /\ r \in SubsetsUpto(S, n + 1)
        <5>1. s \in SUBSET S /\ Cardinality(s) <= n + 1
          BY DEF SubsetsUpto
        <5>2. r \in SUBSET S /\ Cardinality(r) <= n
          BY <3>2, <5>1, SmallerSet
        <5>3. Cardinality(r) \in Nat
          BY <5>2, FS_Subset, FS_CardinalityType
        <5>4. QED
          BY <5>2, <5>3 DEF SubsetsUpto
      <4>2. v[r] = u[r]
        BY <2>2, <4>1
      <4>3. QED
        BY <3>2, <4>2 DEF SumStep
    <3>3. QED
      BY <3>1, <3>2
  <2>4. Sums(f, v, SubsetsUpto(S, n + 1))
    BY <2>3 DEF Sums
  <2>5. QED
    BY <2>4
<1> HIDE DEF N
<1>3. \A n \in Nat : n \in N
  BY <1>1, <1>2, Induction
<1>4. Cardinality(S) \in Nat /\ SubsetsUpto(S, Cardinality(S)) = SUBSET S
  BY FS_CardinalityType, FS_Subset DEF SubsetsUpto
<1>5. \E u : Sums(f, u, SubsetsUpto(S, Cardinality(S)))
  BY <1>3, <1>4 DEF N
<1>6. QED
  BY <1>4, <1>5

\* Whatever set the sums are taken within, a set has one sum.
LEMMA SumIsUnique ==
    ASSUME NEW f, NEW S, IsFiniteSet(S), NEW u, Sums(f, u, SUBSET S), NEW T \in SUBSET S
    PROVE  u[T] = SumFunctionOnSet(f, T)
<1> DEFINE w == CHOOSE x : Sums(f, x, SUBSET T)
<1>1. IsFiniteSet(T) /\ Cardinality(T) \in Nat
  BY FS_Subset, FS_CardinalityType
<1>2. Sums(f, w, SUBSET T)
  BY <1>1, SumsExist
<1>3. SumFunctionOnSet(f, T) = w[T]
  BY SumIsPartial
<1> HIDE DEF w
<1>4. /\ \A s \in SUBSET S : u[s] = SumStep(f, u, s)
      /\ \A s \in SUBSET T : w[s] = SumStep(f, w, s)
  BY <1>2 DEF Sums
<1> DEFINE N == {n \in Nat : \A s \in SUBSET T : Cardinality(s) <= n => u[s] = w[s]}
<1>5. 0 \in N
  <2>1. \A s \in SUBSET T : Cardinality(s) <= 0 => s = {}
    BY <1>1, FS_Subset, FS_EmptySet, FS_CardinalityType
  <2>2. u[{}] = 0 /\ w[{}] = 0
    BY <1>4 DEF SumStep
  <2>3. QED
    BY <2>1, <2>2
<1>6. ASSUME NEW n \in Nat, n \in N PROVE n + 1 \in N
  <2> SUFFICES ASSUME NEW s \in SUBSET T, Cardinality(s) <= n + 1 PROVE u[s] = w[s]
    OBVIOUS
  <2>1. CASE s = {}
    BY <1>4, <2>1 DEF SumStep
  <2>2. CASE s # {}
    <3> DEFINE r == s \ {FirstOf(s)}
    <3>1. r \in SUBSET T /\ Cardinality(r) <= n
      BY <1>1, <2>2, SmallerSet
    <3>2. u[r] = w[r]
      BY <1>6, <3>1
    <3>3. QED
      BY <1>4, <2>2, <3>2 DEF SumStep
  <2>3. QED
    BY <2>1, <2>2
<1> HIDE DEF N
<1>7. Cardinality(T) \in N
  BY <1>1, <1>5, <1>6, Induction
<1>8. u[T] = w[T]
  BY <1>1, <1>7 DEF N
<1>9. QED
  BY <1>3, <1>8

---------------------------------------------------------------------------
(* The sum of no elements, and of one more.                                *)

LEMMA SumOfNone == ASSUME NEW f PROVE SumFunctionOnSet(f, {}) = 0
<1>1. PICK u : Sums(f, u, SUBSET {})
  BY SumsExist, FS_EmptySet
<1>2. u[{}] = 0
  BY <1>1 DEF Sums, SumStep
<1>3. IsFiniteSet({}) /\ {} \in SUBSET {}
  BY FS_EmptySet
<1>4. u[{}] = SumFunctionOnSet(f, {})
  BY <1>1, <1>3, SumIsUnique
<1>5. QED
  BY <1>2, <1>4

LEMMA SumOfFirst ==
    ASSUME NEW f, NEW S, IsFiniteSet(S), S # {}
    PROVE  SumFunctionOnSet(f, S) = f[FirstOf(S)] + SumFunctionOnSet(f, S \ {FirstOf(S)})
<1>1. PICK u : Sums(f, u, SUBSET S)
  BY SumsExist
<1>2. u[S] = f[FirstOf(S)] + u[S \ {FirstOf(S)}]
  BY <1>1 DEF Sums, SumStep
<1>3. ASSUME NEW T \in SUBSET S PROVE u[T] = SumFunctionOnSet(f, T)
  BY <1>1, SumIsUnique
<1>4. S \in SUBSET S /\ S \ {FirstOf(S)} \in SUBSET S
  OBVIOUS
<1>5. QED
  BY <1>2, <1>3, <1>4

\* Integers have an integer sum, and natural numbers a natural one.
LEMMA SumIsInt ==
    ASSUME NEW f, NEW S, IsFiniteSet(S), \A x \in S : f[x] \in Int
    PROVE  SumFunctionOnSet(f, S) \in Int
<1> DEFINE N == {n \in Nat : \A s \in SUBSET S :
                    Cardinality(s) <= n => SumFunctionOnSet(f, s) \in Int}
<1>1. 0 \in N
  <2>1. \A s \in SUBSET S : Cardinality(s) <= 0 => s = {}
    BY FS_Subset, FS_EmptySet, FS_CardinalityType
  <2>2. QED
    BY <2>1, SumOfNone
<1>2. ASSUME NEW n \in Nat, n \in N PROVE n + 1 \in N
  <2> SUFFICES ASSUME NEW s \in SUBSET S, Cardinality(s) <= n + 1, s # {}
               PROVE  SumFunctionOnSet(f, s) \in Int
    BY SumOfNone
  <2>1. /\ IsFiniteSet(s) /\ FirstOf(s) \in S /\ s \ {FirstOf(s)} \in SUBSET S
        /\ Cardinality(s \ {FirstOf(s)}) <= n
    BY SmallerSet
  <2>2. SumFunctionOnSet(f, s \ {FirstOf(s)}) \in Int
    BY <1>2, <2>1
  <2>3. QED
    BY <2>1, <2>2, SumOfFirst
<1> HIDE DEF N
<1>3. Cardinality(S) \in N
  BY <1>1, <1>2, Induction, FS_CardinalityType
<1>4. QED
  BY <1>3, FS_CardinalityType DEF N

\* Any element can be taken out first.
LEMMA SumOfOneMore ==
    ASSUME NEW f, NEW S, IsFiniteSet(S), \A x \in S : f[x] \in Int, NEW e \in S
    PROVE  SumFunctionOnSet(f, S) = f[e] + SumFunctionOnSet(f, S \ {e})
<1> DEFINE N == {n \in Nat : \A s \in SUBSET S : Cardinality(s) <= n =>
                    \A x \in s : SumFunctionOnSet(f, s)
                                    = f[x] + SumFunctionOnSet(f, s \ {x})}
<1>1. 0 \in N
  <2>1. \A s \in SUBSET S : Cardinality(s) <= 0 => s = {}
    BY FS_Subset, FS_EmptySet, FS_CardinalityType
  <2>2. QED
    BY <2>1
<1>2. ASSUME NEW n \in Nat, n \in N PROVE n + 1 \in N
  <2> SUFFICES ASSUME NEW s \in SUBSET S, Cardinality(s) <= n + 1, NEW x \in s
               PROVE  SumFunctionOnSet(f, s) = f[x] + SumFunctionOnSet(f, s \ {x})
    OBVIOUS
  <2> DEFINE o == FirstOf(s)
             r == s \ {o, x}
  <2>1. /\ IsFiniteSet(s) /\ Cardinality(s) \in Nat /\ o \in s
        /\ Cardinality(s \ {o}) <= n /\ IsFiniteSet(s \ {o})
        /\ SumFunctionOnSet(f, s) = f[o] + SumFunctionOnSet(f, s \ {o})
    <3>1. IsFiniteSet(s) /\ o \in s /\ Cardinality(s \ {o}) <= n
      BY SmallerSet
    <3>2. Cardinality(s) \in Nat /\ IsFiniteSet(s \ {o})
      BY <3>1, FS_CardinalityType, FS_RemoveElement
    <3>3. QED
      BY <3>1, <3>2, SumOfFirst
  <2>2. CASE x = o
    BY <2>1, <2>2
  <2>3. CASE x # o
    <3>1. Cardinality(s \ {x}) <= n
      BY <2>1, FS_RemoveElement
    <3>2. /\ r = (s \ {o}) \ {x} /\ r = (s \ {x}) \ {o}
          /\ x \in s \ {o} /\ o \in s \ {x}
          /\ s \ {o} \in SUBSET S /\ s \ {x} \in SUBSET S
      BY <2>1, <2>3
    <3>3. /\ SumFunctionOnSet(f, s \ {o}) = f[x] + SumFunctionOnSet(f, r)
          /\ SumFunctionOnSet(f, s \ {x}) = f[o] + SumFunctionOnSet(f, r)
      BY <1>2, <2>1, <3>1, <3>2
    <3>4. SumFunctionOnSet(f, r) \in Int
      <4>1. r \in SUBSET S
        OBVIOUS
      <4>2. QED
        BY <4>1, FS_Subset, SumIsInt
    <3>5. f[x] \in Int /\ f[o] \in Int
      BY <2>1
    <3> HIDE DEF r, o
    <3>6. QED
      BY <2>1, <3>3, <3>4, <3>5
  <2>4. QED
    BY <2>2, <2>3
<1> HIDE DEF N
<1>3. Cardinality(S) \in N
  BY <1>1, <1>2, Induction, FS_CardinalityType
<1>4. QED
  BY <1>3, FS_CardinalityType DEF N

---------------------------------------------------------------------------
(* The sums of two functions.                                              *)

LEMMA SumOfSame ==
    ASSUME NEW f, NEW g, NEW S, IsFiniteSet(S), \A x \in S : f[x] = g[x]
    PROVE  SumFunctionOnSet(f, S) = SumFunctionOnSet(g, S)
<1> DEFINE N == {n \in Nat : \A s \in SUBSET S : Cardinality(s) <= n =>
                    SumFunctionOnSet(f, s) = SumFunctionOnSet(g, s)}
<1>1. 0 \in N
  <2>1. \A s \in SUBSET S : Cardinality(s) <= 0 => s = {}
    BY FS_Subset, FS_EmptySet, FS_CardinalityType
  <2>2. QED
    BY <2>1, SumOfNone
<1>2. ASSUME NEW n \in Nat, n \in N PROVE n + 1 \in N
  <2> SUFFICES ASSUME NEW s \in SUBSET S, Cardinality(s) <= n + 1, s # {}
               PROVE  SumFunctionOnSet(f, s) = SumFunctionOnSet(g, s)
    BY SumOfNone
  <2>1. /\ IsFiniteSet(s) /\ FirstOf(s) \in S /\ s \ {FirstOf(s)} \in SUBSET S
        /\ Cardinality(s \ {FirstOf(s)}) <= n
    BY SmallerSet
  <2>2. SumFunctionOnSet(f, s \ {FirstOf(s)}) = SumFunctionOnSet(g, s \ {FirstOf(s)})
    BY <1>2, <2>1
  <2>3. QED
    BY <2>1, <2>2, SumOfFirst
<1> HIDE DEF N
<1>3. Cardinality(S) \in N
  BY <1>1, <1>2, Induction, FS_CardinalityType
<1>4. QED
  BY <1>3, FS_CardinalityType DEF N

\* Changing one value changes the sum by as much.
LEMMA SumOfChanged ==
    ASSUME NEW f, NEW g, NEW S, IsFiniteSet(S), NEW e \in S,
           \A x \in S : f[x] \in Int /\ g[x] \in Int,
           \A x \in S \ {e} : g[x] = f[x]
    PROVE  SumFunctionOnSet(g, S) = SumFunctionOnSet(f, S) + (g[e] - f[e])
<1>1. IsFiniteSet(S \ {e})
  BY FS_RemoveElement
<1>2. SumFunctionOnSet(g, S \ {e}) = SumFunctionOnSet(f, S \ {e})
  BY <1>1, SumOfSame
<1>3. SumFunctionOnSet(f, S \ {e}) \in Int
  BY <1>1, SumIsInt
<1>4. /\ SumFunctionOnSet(f, S) = f[e] + SumFunctionOnSet(f, S \ {e})
      /\ SumFunctionOnSet(g, S) = g[e] + SumFunctionOnSet(g, S \ {e})
  BY SumOfOneMore
<1>5. QED
  BY <1>2, <1>3, <1>4

LEMMA SumOfZeros ==
    ASSUME NEW f, NEW S, IsFiniteSet(S), \A x \in S : f[x] = 0
    PROVE  SumFunctionOnSet(f, S) = 0
<1> DEFINE N == {n \in Nat : \A s \in SUBSET S : Cardinality(s) <= n =>
                    SumFunctionOnSet(f, s) = 0}
<1>1. 0 \in N
  <2>1. \A s \in SUBSET S : Cardinality(s) <= 0 => s = {}
    BY FS_Subset, FS_EmptySet, FS_CardinalityType
  <2>2. QED
    BY <2>1, SumOfNone
<1>2. ASSUME NEW n \in Nat, n \in N PROVE n + 1 \in N
  <2> SUFFICES ASSUME NEW s \in SUBSET S, Cardinality(s) <= n + 1, s # {}
               PROVE  SumFunctionOnSet(f, s) = 0
    BY SumOfNone
  <2>1. /\ IsFiniteSet(s) /\ FirstOf(s) \in S /\ s \ {FirstOf(s)} \in SUBSET S
        /\ Cardinality(s \ {FirstOf(s)}) <= n
    BY SmallerSet
  <2>2. SumFunctionOnSet(f, s \ {FirstOf(s)}) = 0
    BY <1>2, <2>1
  <2>3. QED
    BY <2>1, <2>2, SumOfFirst
<1> HIDE DEF N
<1>3. Cardinality(S) \in N
  BY <1>1, <1>2, Induction, FS_CardinalityType
<1>4. QED
  BY <1>3, FS_CardinalityType DEF N

\* More elements and larger values have a larger sum.
LEMMA SumGrows ==
    ASSUME NEW f, NEW g, NEW T, IsFiniteSet(T), NEW S \in SUBSET T,
           \A x \in T : g[x] \in Nat,
           \A x \in S : f[x] \in Nat /\ f[x] <= g[x]
    PROVE  /\ SumFunctionOnSet(f, S) \in Nat
           /\ SumFunctionOnSet(f, S) <= SumFunctionOnSet(g, T)
<1> DEFINE N == {n \in Nat : \A t \in SUBSET T : Cardinality(t) <= n =>
                    /\ SumFunctionOnSet(g, t) \in Nat
                    /\ SumFunctionOnSet(f, S \cap t) \in Nat
                    /\ SumFunctionOnSet(f, S \cap t) <= SumFunctionOnSet(g, t)}
<1>1. 0 \in N
  <2>1. \A t \in SUBSET T : Cardinality(t) <= 0 => t = {} /\ S \cap t = {}
    BY FS_Subset, FS_EmptySet, FS_CardinalityType
  <2>2. QED
    BY <2>1, SumOfNone
<1>2. ASSUME NEW n \in Nat, n \in N PROVE n + 1 \in N
  <2> SUFFICES ASSUME NEW t \in SUBSET T, Cardinality(t) <= n + 1, t # {}
               PROVE  /\ SumFunctionOnSet(g, t) \in Nat
                      /\ SumFunctionOnSet(f, S \cap t) \in Nat
                      /\ SumFunctionOnSet(f, S \cap t) <= SumFunctionOnSet(g, t)
    BY SumOfNone
  <2> DEFINE x == FirstOf(t)
             r == t \ {x}
  <2>1. /\ IsFiniteSet(t) /\ x \in t /\ r \in SUBSET T /\ Cardinality(r) <= n
    BY SmallerSet
  <2>2. /\ SumFunctionOnSet(g, r) \in Nat /\ SumFunctionOnSet(f, S \cap r) \in Nat
        /\ SumFunctionOnSet(f, S \cap r) <= SumFunctionOnSet(g, r)
    BY <1>2, <2>1
  <2>3. SumFunctionOnSet(g, t) = g[x] + SumFunctionOnSet(g, r) /\ g[x] \in Nat
    BY <2>1, SumOfFirst
  <2>4. CASE x \in S
    <3>1. IsFiniteSet(S \cap t) /\ (S \cap t) \ {x} = S \cap r /\ x \in S \cap t
      BY <2>1, <2>4, FS_Subset
    <3>2. \A y \in S \cap t : f[y] \in Int
      OBVIOUS
    <3>3. SumFunctionOnSet(f, S \cap t) = f[x] + SumFunctionOnSet(f, S \cap r)
      BY <3>1, <3>2, SumOfOneMore
    <3> HIDE DEF x, r
    <3>4. f[x] \in Nat /\ f[x] <= g[x]
      BY <2>4
    <3>5. QED
      BY <2>2, <2>3, <3>3, <3>4
  <2>5. CASE x \notin S
    <3>1. S \cap t = S \cap r
      BY <2>5
    <3> HIDE DEF x, r
    <3>2. QED
      BY <2>2, <2>3, <3>1
  <2>6. QED
    BY <2>4, <2>5
<1> HIDE DEF N
<1>3. Cardinality(T) \in N
  BY <1>1, <1>2, Induction, FS_CardinalityType
<1>4. S \cap T = S
  OBVIOUS
<1>5. QED
  BY <1>3, <1>4, FS_CardinalityType DEF N

\* Elements that are counted one for one have the same sum.
LEMMA SumOfImage ==
    ASSUME NEW f, NEW g, NEW h, NEW S, IsFiniteSet(S),
           \A x \in S : f[x] \in Int /\ f[x] = g[h[x]],
           \A x, y \in S : h[x] = h[y] => x = y
    PROVE  SumFunctionOnSet(f, S) = SumFunctionOnSet(g, {h[x] : x \in S})
<1> DEFINE Image(s) == {h[x] : x \in s}
           N == {n \in Nat : \A s \in SUBSET S : Cardinality(s) <= n =>
                    IsFiniteSet(Image(s)) /\ SumFunctionOnSet(f, s) = SumFunctionOnSet(g, Image(s))}
<1>1. 0 \in N
  <2>1. \A s \in SUBSET S : Cardinality(s) <= 0 => s = {}
    BY FS_Subset, FS_EmptySet, FS_CardinalityType
  <2>2. Image({}) = {}
    OBVIOUS
  <2>3. IsFiniteSet({}) /\ SumFunctionOnSet(f, {}) = SumFunctionOnSet(g, {})
    BY SumOfNone, FS_EmptySet
  <2> HIDE DEF Image
  <2>4. QED
    BY <2>1, <2>2, <2>3
<1>2. ASSUME NEW n \in Nat, n \in N PROVE n + 1 \in N
  <2> SUFFICES ASSUME NEW s \in SUBSET S, Cardinality(s) <= n + 1, s # {}
               PROVE  IsFiniteSet(Image(s)) /\ SumFunctionOnSet(f, s) = SumFunctionOnSet(g, Image(s))
    <3>1. Image({}) = {}
      OBVIOUS
    <3>2. IsFiniteSet({}) /\ SumFunctionOnSet(f, {}) = SumFunctionOnSet(g, {})
      BY SumOfNone, FS_EmptySet
    <3> HIDE DEF Image
    <3>3. QED
      BY <3>1, <3>2
  <2> DEFINE o == FirstOf(s)
             r == s \ {o}
  <2>1. /\ IsFiniteSet(s) /\ o \in s /\ r \in SUBSET S /\ Cardinality(r) <= n
    BY SmallerSet
  <2>2. IsFiniteSet(Image(r)) /\ SumFunctionOnSet(f, r) = SumFunctionOnSet(g, Image(r))
    BY <1>2, <2>1
  <2>3. SumFunctionOnSet(f, s) = f[o] + SumFunctionOnSet(f, r)
    BY <2>1, SumOfFirst
  <2>4. /\ Image(s) = Image(r) \cup {h[o]} /\ h[o] \notin Image(r)
        /\ Image(s) \ {h[o]} = Image(r)
    BY <2>1
  <2>5. /\ f[o] = g[h[o]] /\ h[o] \in Image(s)
        /\ \A z \in Image(s) : g[z] \in Int
    BY <2>1
  <2> HIDE DEF Image, o, r
  <2>6. IsFiniteSet(Image(s))
    BY <2>2, <2>4, FS_AddElement
  <2>7. SumFunctionOnSet(g, Image(s)) = g[h[o]] + SumFunctionOnSet(g, Image(r))
    BY <2>4, <2>5, <2>6, SumOfOneMore
  <2>8. QED
    BY <2>2, <2>3, <2>5, <2>6, <2>7
<1> HIDE DEF N
<1>3. Cardinality(S) \in N
  BY <1>1, <1>2, Induction, FS_CardinalityType
<1>4. QED
  BY <1>3, FS_CardinalityType DEF N

\* Equal values have the sum of so many of them.
LEMMA SumOfEqual ==
    ASSUME NEW f, NEW S, IsFiniteSet(S), NEW v \in Int, \A x \in S : f[x] = v
    PROVE  SumFunctionOnSet(f, S) = v * Cardinality(S)
<1> DEFINE N == {n \in Nat : \A s \in SUBSET S : Cardinality(s) = n =>
                    SumFunctionOnSet(f, s) = v * n}
<1>1. 0 \in N
  <2>1. \A s \in SUBSET S : Cardinality(s) = 0 => s = {}
    BY FS_Subset, FS_EmptySet, FS_CardinalityType
  <2>2. QED
    BY <2>1, SumOfNone
<1>2. ASSUME NEW n \in Nat, n \in N PROVE n + 1 \in N
  <2> SUFFICES ASSUME NEW s \in SUBSET S, Cardinality(s) = n + 1
               PROVE  SumFunctionOnSet(f, s) = v * (n + 1)
    OBVIOUS
  <2> DEFINE o == FirstOf(s)
             r == s \ {o}
  <2>1. IsFiniteSet(s) /\ s # {}
    BY FS_Subset, FS_EmptySet
  <2>2. o \in s /\ o \in S
    BY <2>1 DEF FirstOf
  <2>3. r \in SUBSET S /\ Cardinality(r) = n
    <3>1. Cardinality(r) = Cardinality(s) - 1
      BY <2>1, <2>2, FS_RemoveElement
    <3>2. QED
      BY <3>1
  <2>4. SumFunctionOnSet(f, s) = f[o] + SumFunctionOnSet(f, r)
    BY <2>1, SumOfFirst
  <2>5. SumFunctionOnSet(f, r) = v * n /\ f[o] = v
    BY <1>2, <2>2, <2>3
  <2> HIDE DEF o, r
  <2>6. v + v * n = v * (n + 1)
    OBVIOUS
  <2>7. QED
    BY <2>4, <2>5, <2>6
<1> HIDE DEF N
<1>3. Cardinality(S) \in N
  BY <1>1, <1>2, Induction, FS_CardinalityType
<1>4. QED
  BY <1>3 DEF N

\* What is at least, or at most, a multiple of its weight has a sum that is.
LEMMA SumOfWeighed ==
    ASSUME NEW f, NEW g, NEW S, IsFiniteSet(S), NEW c \in Int,
           \A x \in S : f[x] \in Int /\ g[x] \in Int
    PROVE  /\ (\A x \in S : g[x] >= c * f[x]) =>
                 SumFunctionOnSet(g, S) >= c * SumFunctionOnSet(f, S)
           /\ (\A x \in S : g[x] <= c * f[x]) =>
                 SumFunctionOnSet(g, S) <= c * SumFunctionOnSet(f, S)
<1> DEFINE Least(s) == (\A x \in s : g[x] >= c * f[x]) =>
                          SumFunctionOnSet(g, s) >= c * SumFunctionOnSet(f, s)
           Most(s)  == (\A x \in s : g[x] <= c * f[x]) =>
                          SumFunctionOnSet(g, s) <= c * SumFunctionOnSet(f, s)
           N == {n \in Nat : \A s \in SUBSET S : Cardinality(s) <= n => Least(s) /\ Most(s)}
<1>1. 0 \in N
  <2>1. \A s \in SUBSET S : Cardinality(s) <= 0 => s = {}
    BY FS_Subset, FS_EmptySet, FS_CardinalityType
  <2>2. SumFunctionOnSet(g, {}) = 0 /\ c * SumFunctionOnSet(f, {}) = 0
    BY SumOfNone
  <2>3. Least({}) /\ Most({})
    BY <2>2
  <2>4. QED
    BY <2>1, <2>3
<1>2. ASSUME NEW n \in Nat, n \in N PROVE n + 1 \in N
  <2> SUFFICES ASSUME NEW s \in SUBSET S, Cardinality(s) <= n + 1
               PROVE  Least(s) /\ Most(s)
    OBVIOUS
  <2>1. CASE s = {}
    <3>1. SumFunctionOnSet(g, {}) = 0 /\ c * SumFunctionOnSet(f, {}) = 0
      BY SumOfNone
    <3>2. QED
      BY <2>1, <3>1
  <2>2. CASE s # {}
    <3> DEFINE o == FirstOf(s)
               r == s \ {o}
               F == SumFunctionOnSet(f, r)
               G == SumFunctionOnSet(g, r)
    <3>1. o \in s /\ o \in S /\ r \in SUBSET S /\ Cardinality(r) <= n /\ IsFiniteSet(r)
      BY <2>2, SmallerSet, FS_Subset
    <3>2. Least(r) /\ Most(r)
      BY <1>2, <3>1
    <3>3. F \in Int /\ G \in Int
      BY <3>1, SumIsInt
    <3>4. SumFunctionOnSet(f, s) = f[o] + F /\ SumFunctionOnSet(g, s) = g[o] + G
      BY <2>2, SumOfFirst, FS_Subset
    <3>5. f[o] \in Int /\ g[o] \in Int
      BY <3>1
    <3>6. r \subseteq s
      OBVIOUS
    <3> HIDE DEF o, r, F, G
    <3>7. c * (f[o] + F) = c * f[o] + c * F /\ c * f[o] \in Int /\ c * F \in Int
      BY <3>3, <3>5
    <3>8. ASSUME \A x \in s : g[x] >= c * f[x]
          PROVE  SumFunctionOnSet(g, s) >= c * SumFunctionOnSet(f, s)
      <4>1. G >= c * F /\ g[o] >= c * f[o]
        BY <3>1, <3>2, <3>6, <3>8 DEF F, G
      <4>2. QED
        BY <3>3, <3>4, <3>5, <3>7, <4>1
    <3>9. ASSUME \A x \in s : g[x] <= c * f[x]
          PROVE  SumFunctionOnSet(g, s) <= c * SumFunctionOnSet(f, s)
      <4>1. G <= c * F /\ g[o] <= c * f[o]
        BY <3>1, <3>2, <3>6, <3>9 DEF F, G
      <4>2. QED
        BY <3>3, <3>4, <3>5, <3>7, <4>1
    <3>10. QED
      BY <3>8, <3>9
  <2>3. QED
    BY <2>1, <2>2
<1> HIDE DEF N
<1>3. Cardinality(S) \in N
  BY <1>1, <1>2, Induction, FS_CardinalityType
<1>4. QED
  BY <1>3, FS_CardinalityType DEF N

---------------------------------------------------------------------------
(* The least and the greatest of some numbers.                             *)

LEMMA MinIsLeast ==
    ASSUME NEW S \in SUBSET Nat, S # {}
    PROVE  Min(S) \in S /\ \A y \in S : Min(S) <= y
<1> DEFINE R == OpToRel(<, Nat)
<1>1. \A x, y \in Nat : x < y => <<x, y>> \in R
  BY DEF OpToRel
<1> HIDE DEF R
<1>2. PICK n \in S : \A m \in S : <<m, n>> \notin R
  BY NatLessThanWellFounded, WFMin DEF R
<1>3. \A m \in S : ~(m < n)
  BY <1>1, <1>2
<1>4. \A m \in S : n <= m
  BY <1>3
<1>5. QED
  BY <1>4 DEF Min

LEMMA MaxIsGreatest ==
    ASSUME NEW n \in Nat, NEW S \in SUBSET (0..n), S # {}
    PROVE  Max(S) \in S /\ \A y \in S : Max(S) >= y
<1> DEFINE D == {n - x : x \in S}
<1>1. D \in SUBSET Nat /\ D # {}
  <2>1. \A x \in S : n - x \in Nat
    OBVIOUS
  <2>2. QED
    BY <2>1
<1>2. Min(D) \in D /\ \A y \in D : Min(D) <= y
  BY <1>1, MinIsLeast
<1>3. PICK x \in S : Min(D) = n - x
  BY <1>2
<1>4. \A y \in S : n - x <= n - y
  BY <1>2, <1>3
<1>5. \A y \in S : x >= y
  BY <1>4
<1>6. QED
  BY <1>5 DEF Max

\* Finitely many integers have a least and a greatest.
LEMMA BoundsOfFinite ==
    ASSUME NEW S \in SUBSET Int, IsFiniteSet(S), S # {}
    PROVE  /\ Min(S) \in S /\ \A y \in S : Min(S) <= y
           /\ Max(S) \in S /\ \A y \in S : Max(S) >= y
<1> DEFINE Bounded(s) == \E a, b \in s : \A y \in s : a <= y /\ y <= b
           N == {n \in Nat : \A s \in SUBSET S : Cardinality(s) <= n /\ s # {} => Bounded(s)}
<1>1. 0 \in N
  <2>1. \A s \in SUBSET S : IsFiniteSet(s) /\ Cardinality(s) \in Nat
    BY FS_Subset, FS_CardinalityType
  <2>2. \A s \in SUBSET S : Cardinality(s) <= 0 => s = {}
    BY <2>1, FS_EmptySet
  <2>3. QED
    BY <2>2
<1>2. ASSUME NEW n \in Nat, n \in N PROVE n + 1 \in N
  <2> SUFFICES ASSUME NEW s \in SUBSET S, Cardinality(s) <= n + 1, s # {}
               PROVE  Bounded(s)
    OBVIOUS
  <2> DEFINE o == FirstOf(s)
             r == s \ {o}
  <2>1. o \in s /\ r \in SUBSET S /\ Cardinality(r) <= n
    BY SmallerSet
  <2>5. o \in Int /\ s = r \cup {o} /\ r \subseteq Int
    BY <2>1
  <2> HIDE DEF o, r
  <2>2. CASE r = {}
    BY <2>1, <2>2, <2>5
  <2>3. CASE r # {}
    <3>1. PICK a, b \in r : \A y \in r : a <= y /\ y <= b
      BY <1>2, <2>1, <2>3
    <3> DEFINE least == IF a <= o THEN a ELSE o
               most  == IF o <= b THEN b ELSE o
    <3>2. a \in Int /\ b \in Int /\ r \subseteq Int
      BY <2>5
    <3>3. least \in s /\ most \in s
      BY <2>5
    <3>4. \A y \in s : least <= y /\ y <= most
      BY <2>5, <3>1, <3>2
    <3>5. QED
      BY <3>3, <3>4
  <2>4. QED
    BY <2>2, <2>3
<1> HIDE DEF N
<1>3. Cardinality(S) \in N
  BY <1>1, <1>2, Induction, FS_CardinalityType
<1>4. PICK a, b \in S : \A y \in S : a <= y /\ y <= b
  BY <1>3, FS_CardinalityType DEF N
<1>5. QED
  BY <1>4 DEF Min, Max

LEMMA MinOfTwo ==
    ASSUME NEW a \in Int, NEW b \in Int
    PROVE  Min({a, b}) = IF a <= b THEN a ELSE b
<1>1. \A x \in {a, b} : (\A y \in {a, b} : x <= y) => x = IF a <= b THEN a ELSE b
  OBVIOUS
<1>2. \E x \in {a, b} : \A y \in {a, b} : x <= y
  OBVIOUS
<1>3. QED
  BY <1>1, <1>2 DEF Min

LEMMA MaxOfTwo ==
    ASSUME NEW a \in Int, NEW b \in Int
    PROVE  Max({a, b}) = IF a >= b THEN a ELSE b
<1>1. \A x \in {a, b} : (\A y \in {a, b} : x >= y) => x = IF a >= b THEN a ELSE b
  OBVIOUS
<1>2. \E x \in {a, b} : \A y \in {a, b} : x >= y
  OBVIOUS
<1>3. QED
  BY <1>1, <1>2 DEF Max

\* Of finitely many elements one has the greatest key.
LEMMA GreatestKey ==
    ASSUME NEW S, IsFiniteSet(S), S # {}, NEW key, \A x \in S : key[x] \in Nat
    PROVE  \E x \in S : \A y \in S : key[y] <= key[x]
<1> DEFINE N == {n \in Nat : \A s \in SUBSET S : s # {} /\ Cardinality(s) <= n =>
                    \E x \in s : \A y \in s : key[y] <= key[x]}
<1>1. 0 \in N
  <2>1. \A s \in SUBSET S : IsFiniteSet(s) /\ Cardinality(s) \in Nat
    BY FS_Subset, FS_CardinalityType
  <2>2. \A s \in SUBSET S : Cardinality(s) <= 0 => s = {}
    BY <2>1, FS_EmptySet
  <2>3. QED
    BY <2>2
<1>2. ASSUME NEW n \in Nat, n \in N PROVE n + 1 \in N
  <2> SUFFICES ASSUME NEW s \in SUBSET S, Cardinality(s) <= n + 1, s # {}
               PROVE  \E x \in s : \A y \in s : key[y] <= key[x]
    OBVIOUS
  <2> DEFINE o == FirstOf(s)
             r == s \ {o}
  <2>1. o \in s /\ r \in SUBSET S /\ Cardinality(r) <= n
    BY SmallerSet
  <2>2. \A y \in s : (y = o \/ y \in r) /\ key[y] \in Nat
    OBVIOUS
  <2>3. CASE r = {}
    <3> HIDE DEF o, r
    <3>1. QED
      BY <2>1, <2>2, <2>3
  <2>4. CASE r # {}
    <3>1. PICK x \in r : \A y \in r : key[y] <= key[x]
      BY <1>2, <2>1, <2>4
    <3>2. x \in s
      OBVIOUS
    <3> HIDE DEF o, r
    <3>3. CASE key[o] <= key[x]
      BY <2>2, <3>1, <3>2, <3>3
    <3>4. CASE key[x] <= key[o]
      <4>1. \A y \in s : key[y] <= key[o]
        BY <2>1, <2>2, <3>1, <3>2, <3>4
      <4>2. QED
        BY <2>1, <4>1
    <3>5. QED
      BY <2>1, <2>2, <3>2, <3>3, <3>4
  <2>5. QED
    BY <2>3, <2>4
<1> HIDE DEF N
<1>3. Cardinality(S) \in N
  BY <1>1, <1>2, Induction, FS_CardinalityType
<1>4. QED
  BY <1>3, FS_CardinalityType DEF N

---------------------------------------------------------------------------
(* Ranks.                                                                  *)

\* The elements of S are ranked by R, and place counts the better ones of each.
Ranking(S, R, better, place) ==
    /\ IsFiniteSet(S)
    /\ \A x \in S : <<x, x>> \notin R
    /\ \A x, y \in S : x # y => <<x, y>> \in R \/ <<y, x>> \in R
    /\ \A x, y, z \in S : <<x, y>> \in R /\ <<y, z>> \in R => <<x, z>> \in R
    /\ \A x \in S : better[x] \in SUBSET S
    /\ \A x, y \in S : y \in better[x] <=> <<y, x>> \in R
    /\ place \in [S -> Nat] /\ \A x \in S : place[x] = Cardinality(better[x]) + 1

AllTaken(S, place) == \A k \in 1..Cardinality(S) : \E x \in S : place[x] = k

LEMMA PlacesAreTaken ==
    ASSUME NEW S, NEW R, NEW better, NEW place, Ranking(S, R, better, place)
    PROVE  /\ \A x \in S : place[x] \in 1..Cardinality(S)
           /\ \A y \in S : \A x \in better[y] : place[x] < place[y]
           /\ AllTaken(S, place)
           /\ \A x, y \in S : place[x] = place[y] => x = y
<1> USE DEF Ranking
<1>1. \A x \in S : IsFiniteSet(better[x]) /\ Cardinality(better[x]) \in Nat
  BY FS_Subset, FS_CardinalityType
<1>2. Cardinality(S) \in Nat
  BY FS_CardinalityType
<1>3. ASSUME NEW x \in S, NEW y \in S, <<x, y>> \in R PROVE place[x] < place[y]
  <2>1. better[x] \in SUBSET better[y] /\ x \in better[y] /\ x \notin better[x]
    BY <1>3
  <2>2. Cardinality(better[x]) <= Cardinality(better[y]) /\ Cardinality(better[x]) # Cardinality(better[y])
    BY <1>1, <2>1, FS_Subset
  <2>3. Cardinality(better[x]) \in Nat /\ Cardinality(better[y]) \in Nat
    BY <1>1
  <2>4. place[x] = Cardinality(better[x]) + 1 /\ place[y] = Cardinality(better[y]) + 1
    OBVIOUS
  <2>5. QED
    BY <2>2, <2>3, <2>4
<1>4. ASSUME NEW x \in S PROVE place[x] \in 1..Cardinality(S)
  <2>1. better[x] \in SUBSET S /\ x \notin better[x]
    OBVIOUS
  <2>2. Cardinality(better[x]) <= Cardinality(S) /\ Cardinality(better[x]) # Cardinality(S)
    BY <2>1, FS_Subset
  <2>3. Cardinality(better[x]) \in Nat /\ place[x] = Cardinality(better[x]) + 1
    BY <1>1
  <2>4. QED
    BY <1>2, <2>2, <2>3
<1>5. ASSUME NEW x \in S, NEW y \in S, place[x] = place[y] PROVE x = y
  <2>1. place[x] \in Nat /\ place[y] \in Nat
    OBVIOUS
  <2>2. ~(place[x] < place[y]) /\ ~(place[y] < place[x])
    BY <1>5, <2>1
  <2>3. <<x, y>> \notin R /\ <<y, x>> \notin R
    BY <1>3, <2>2
  <2>4. QED
    BY <2>3
<1>6. place \in Injection(S, 1..Cardinality(S))
  <2>1. place \in [S -> 1..Cardinality(S)]
    BY <1>4
  <2>2. QED
    BY <1>5, <2>1 DEF Injection, IsInjective
<1>7. IsFiniteSet(1..Cardinality(S)) /\ Cardinality(1..Cardinality(S)) = Cardinality(S)
  BY <1>2, FS_Interval
<1>8. place \in Surjection(S, 1..Cardinality(S))
  BY <1>6, <1>7, FS_Injection
<1>9. AllTaken(S, place)
  BY <1>8 DEF Surjection, AllTaken
<1>10. QED
  BY <1>3, <1>4, <1>5, <1>9

============================================================================
