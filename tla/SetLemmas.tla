----------------------------- MODULE SetLemmas -----------------------------
(***************************************************************************)
(* Facts about sets of numbers, finite sets and sums that the proofs about *)
(* the components share.  Induction is stated on sets: a set of naturals   *)
(* or of subsets without a minimal element is empty.                       *)
(***************************************************************************)
EXTENDS Integers, FiniteSetTheorems, WellFoundedInduction, TLAPS

\* The order of the naturals as a set of pairs.
Before == {ss \in Nat \X Nat : ss[1] < ss[2]}

\* It has no infinite descending sequence.
LEMMA BeforeWellFounded == IsWellFoundedOn(Before, Nat)
  BY NatLessThanWellFounded DEF OpToRel, Before

\* A set of naturals has a least element.
LEMMA LeastNatural ==
    ASSUME NEW T \in SUBSET Nat, T # {}
    PROVE  \E m \in T : \A n \in T : m =< n
<1>1. PICK m \in T : \A n \in T : ~(<<n, m>> \in Before)
  BY BeforeWellFounded, WFMin
<1>2. ASSUME NEW n \in T PROVE m =< n
  <2>1. <<n, m>> \in Nat \X Nat /\ <<n, m>>[1] = n /\ <<n, m>>[2] = m
    OBVIOUS
  <2>2. ~(n < m)
    BY <1>1, <2>1 DEF Before
  <2>. QED  BY <2>2
<1>. QED  BY <1>2

\* A bounded set of integers has a greatest element.
LEMMA GreatestInteger ==
    ASSUME NEW T \in SUBSET Int, T # {}, NEW b \in Int, \A n \in T : n =< b
    PROVE  \E m \in T : \A n \in T : n =< m
<1>. DEFINE D == {b - n : n \in T}
<1>1. D \in SUBSET Nat /\ D # {}
  <2>1. \A n \in T : b - n \in Nat
    OBVIOUS
  <2>2. D \subseteq Nat
    BY <2>1
  <2>3. PICK n \in T : TRUE
    OBVIOUS
  <2>4. b - n \in D
    OBVIOUS
  <2>. QED  BY <2>2, <2>4
<1>. HIDE DEF D
<1>2. PICK d \in D : \A e \in D : d =< e
  BY <1>1, LeastNatural
<1>3. PICK m \in T : d = b - m
  BY <1>2 DEF D
<1>4. ASSUME NEW n \in T PROVE n =< m
  <2>1. b - n \in D
    BY DEF D
  <2>2. d =< b - n
    BY <1>2, <2>1
  <2>. QED  BY <1>3, <2>2
<1>. QED  BY <1>4

-----------------------------------------------------------------------------
\* Induction over the subsets of a finite set: a property of subsets that holds of
\* a subset whenever it holds of the smaller ones holds of all of them.
LEMMA SubsetInduction ==
    ASSUME NEW S, IsFiniteSet(S), NEW Good,
           \A s \in SUBSET S : (\A u \in SUBSET s : u # s => u \in Good) => s \in Good
    PROVE  \A s \in SUBSET S : s \in Good
<1>. DEFINE Bad == {s \in SUBSET S : s \notin Good}
<1>1. CASE Bad # {}
  <2>1. IsWellFoundedOn(StrictSubsetOrdering(S), SUBSET S)
    BY FS_StrictSubsetOrderingWellFounded, FS_FiniteSubsetsOfFinite
  <2>2. Bad \subseteq SUBSET S
    OBVIOUS
  <2>3. PICK s \in Bad : \A u \in Bad : ~(<<u, s>> \in StrictSubsetOrdering(S))
    <3>. HIDE DEF Bad
    <3>. QED  BY <1>1, <2>1, <2>2, WFMin
  <2>4. ASSUME NEW u \in SUBSET s, u # s PROVE u \in Good
    <3>1. <<u, s>> \in (SUBSET S) \X (SUBSET S)
      BY <2>2
    <3>2. <<u, s>>[1] = u /\ <<u, s>>[2] = s
      OBVIOUS
    <3>3. <<u, s>> \in StrictSubsetOrdering(S)
      BY <2>4, <3>1, <3>2 DEF StrictSubsetOrdering
    <3>. QED  BY <2>2, <2>3, <3>1, <3>3
  <2>. QED  BY <2>2, <2>3, <2>4
<1>. QED  BY <1>1

-----------------------------------------------------------------------------
(***************************************************************************)
(* The sum of the values of a function over a finite set, as the folds of  *)
(* the library compute it: a chosen element and the sum over the rest.     *)
(***************************************************************************)
Pick(s) == CHOOSE x \in s : TRUE

SumStep(g, f, s) == IF s = {} THEN 0 ELSE f[Pick(s)] + g[s \ {Pick(s)}]

IsSum(g, f, S) == g = [s \in SUBSET S |-> SumStep(g, f, s)]

SumOver(f, S) == (CHOOSE g : IsSum(g, f, S))[S]

\* A set that is not empty has the element that is picked from it.
LEMMA PickFacts ==
    ASSUME NEW s, s # {}
    PROVE  Pick(s) \in s /\ s \ {Pick(s)} \in SUBSET s /\ s \ {Pick(s)} # s
  BY DEF Pick

\* Two ways to add up, for sets that may differ and functions that agree, give the
\* same sum of a common subset.
LEMMA SumsAgree ==
    ASSUME NEW S, IsFiniteSet(S), NEW T, NEW U, S \subseteq T, S \subseteq U,
           NEW f, NEW e, \A x \in S : f[x] = e[x],
           NEW g, IsSum(g, f, T), NEW h, IsSum(h, e, U)
    PROVE  g[S] = h[S]
<1>. DEFINE Good == {s \in SUBSET S : g[s] = h[s]}
<1>1. ASSUME NEW s \in SUBSET S, \A u \in SUBSET s : u # s => u \in Good
      PROVE  s \in Good
  <2>1. g[s] = SumStep(g, f, s) /\ h[s] = SumStep(h, e, s)
    <3>1. s \in SUBSET T /\ s \in SUBSET U
      OBVIOUS
    <3>. QED  BY <3>1 DEF IsSum
  <2>2. CASE s = {}
    BY <2>1, <2>2 DEF SumStep
  <2>3. CASE s # {}
    <3>1. Pick(s) \in S /\ s \ {Pick(s)} \in Good
      BY <1>1, <2>3, PickFacts
    <3>. QED  BY <2>1, <2>3, <3>1 DEF SumStep
  <2>. QED  BY <2>2, <2>3
<1>2. \A s \in SUBSET S : s \in Good
  <2>. HIDE DEF Good
  <2>. QED  BY <1>1, SubsetInduction
<1>. QED  BY <1>2

\* There is a way to add up over a finite set.
LEMMA SumExists ==
    ASSUME NEW S, IsFiniteSet(S), NEW f
    PROVE  \E g : IsSum(g, f, S)
<1>. DEFINE Good == {s \in SUBSET S : \E g : IsSum(g, f, s)}
            Sums(s) == CHOOSE g : IsSum(g, f, s)
<1>1. ASSUME NEW s \in SUBSET S, \A u \in SUBSET s : u # s => u \in Good
      PROVE  s \in Good
  <2>. DEFINE below == [u \in SUBSET s |-> Sums(u)[u]]
              g == [u \in SUBSET s |-> SumStep(below, f, u)]
  <2>1. ASSUME NEW u \in SUBSET s, u # s PROVE IsSum(Sums(u), f, u)
    BY <1>1, <2>1
  <2>2. ASSUME NEW u \in SUBSET s, u # s PROVE below[u] = g[u]
    <3>1. Sums(u)[u] = SumStep(Sums(u), f, u)
      <4>1. IsSum(Sums(u), f, u)
        BY <2>1, <2>2
      <4>. HIDE DEF Sums
      <4>. QED  BY <4>1 DEF IsSum
    <3>2. ASSUME u # {} PROVE Sums(u)[u \ {Pick(u)}] = below[u \ {Pick(u)}]
      <4>1. u \ {Pick(u)} \in SUBSET s /\ u \ {Pick(u)} # s /\ u \ {Pick(u)} \subseteq u
        BY <3>2, PickFacts
      <4>2. IsFiniteSet(u \ {Pick(u)})
        BY <4>1, FS_Subset
      <4>3. IsSum(Sums(u), f, u) /\ IsSum(Sums(u \ {Pick(u)}), f, u \ {Pick(u)})
        BY <2>1, <2>2, <4>1
      <4>4. Sums(u)[u \ {Pick(u)}] = Sums(u \ {Pick(u)})[u \ {Pick(u)}]
        <5>. HIDE DEF Sums
        <5>. QED  BY <4>1, <4>2, <4>3, SumsAgree
      <4>. QED  BY <4>1, <4>4
    <3>3. SumStep(Sums(u), f, u) = SumStep(below, f, u)
      <4>. HIDE DEF below, Sums
      <4>. QED  BY <3>2 DEF SumStep
    <3>. QED  BY <3>1, <3>3
  <2>3. ASSUME NEW u \in SUBSET s PROVE SumStep(below, f, u) = SumStep(g, f, u)
    <3>1. CASE u = {}
      BY <3>1 DEF SumStep
    <3>2. CASE u # {}
      <4>1. u \ {Pick(u)} \in SUBSET s /\ u \ {Pick(u)} # s
        BY <3>2, PickFacts
      <4>2. below[u \ {Pick(u)}] = g[u \ {Pick(u)}]
        BY <2>2, <4>1
      <4>. HIDE DEF below, g
      <4>. QED  BY <3>2, <4>2 DEF SumStep
    <3>. QED  BY <3>1, <3>2
  <2>4. IsSum(g, f, s)
    BY <2>3 DEF IsSum
  <2>. QED  BY <2>4
<1>2. \A s \in SUBSET S : s \in Good
  <2>. HIDE DEF Good
  <2>. QED  BY <1>1, SubsetInduction
<1>. QED  BY <1>2

\* The sum over a finite set is the same however it was obtained.
LEMMA SumOverIs ==
    ASSUME NEW S, IsFiniteSet(S), NEW T, S \subseteq T, NEW f, NEW g, IsSum(g, f, T)
    PROVE  SumOver(f, S) = g[S]
<1>. DEFINE h == CHOOSE h : IsSum(h, f, S)
<1>1. IsSum(h, f, S)
  BY SumExists
<1>2. h[S] = g[S]
  <2>. HIDE DEF h
  <2>. QED  BY <1>1, SumsAgree
<1>. QED  BY <1>2 DEF SumOver

\* Functions that agree on a set have the same sum over it.
LEMMA SumOverSame ==
    ASSUME NEW S, IsFiniteSet(S), NEW f, NEW e, \A x \in S : f[x] = e[x]
    PROVE  SumOver(f, S) = SumOver(e, S)
<1>1. PICK g : IsSum(g, f, S)
  BY SumExists
<1>2. PICK h : IsSum(h, e, S)
  BY SumExists
<1>3. g[S] = h[S]
  BY <1>1, <1>2, SumsAgree
<1>. QED  BY <1>1, <1>2, <1>3, SumOverIs

\* The equations of the sum.
LEMMA SumOverStep ==
    ASSUME NEW S, IsFiniteSet(S), NEW f
    PROVE  /\ S = {} => SumOver(f, S) = 0
           /\ S # {} => SumOver(f, S) = f[Pick(S)] + SumOver(f, S \ {Pick(S)})
<1>1. PICK g : IsSum(g, f, S)
  BY SumExists
<1>2. g[S] = SumStep(g, f, S)
  BY <1>1 DEF IsSum
<1>3. SumOver(f, S) = g[S]
  BY <1>1, SumOverIs
<1>4. CASE S = {}
  BY <1>2, <1>3, <1>4 DEF SumStep
<1>5. CASE S # {}
  <2>1. S \ {Pick(S)} \subseteq S
    OBVIOUS
  <2>2. IsFiniteSet(S \ {Pick(S)})
    BY <2>1, FS_Subset
  <2>3. SumOver(f, S \ {Pick(S)}) = g[S \ {Pick(S)}]
    BY <1>1, <2>1, <2>2, SumOverIs
  <2>. QED  BY <1>2, <1>3, <1>5, <2>3 DEF SumStep
<1>. QED  BY <1>4, <1>5

\* The sum of integers is an integer.
LEMMA SumOverInt ==
    ASSUME NEW S, IsFiniteSet(S), NEW f, \A x \in S : f[x] \in Int
    PROVE  SumOver(f, S) \in Int
<1>. DEFINE Good == {s \in SUBSET S : SumOver(f, s) \in Int}
<1>1. ASSUME NEW s \in SUBSET S, \A u \in SUBSET s : u # s => u \in Good
      PROVE  s \in Good
  <2>1. IsFiniteSet(s)
    BY FS_Subset
  <2>2. CASE s = {}
    BY <2>1, <2>2, SumOverStep
  <2>3. CASE s # {}
    <3>1. Pick(s) \in S /\ s \ {Pick(s)} \in Good
      BY <1>1, <2>3, PickFacts
    <3>2. SumOver(f, s) = f[Pick(s)] + SumOver(f, s \ {Pick(s)})
      BY <2>1, <2>3, SumOverStep
    <3>. QED  BY <3>1, <3>2
  <2>. QED  BY <2>2, <2>3
<1>2. \A s \in SUBSET S : s \in Good
  <2>. HIDE DEF Good
  <2>. QED  BY <1>1, SubsetInduction
<1>. QED  BY <1>2

\* Any element may be taken out first.
LEMMA SumOverTake ==
    ASSUME NEW S, IsFiniteSet(S), NEW f, \A x \in S : f[x] \in Int, NEW a \in S
    PROVE  SumOver(f, S) = f[a] + SumOver(f, S \ {a})
<1>. DEFINE Taken(s) == \A x \in s : SumOver(f, s) = f[x] + SumOver(f, s \ {x})
            Good == {s \in SUBSET S : Taken(s)}
<1>1. ASSUME NEW s \in SUBSET S, \A u \in SUBSET s : u # s => u \in Good
      PROVE  s \in Good
  <2>. SUFFICES ASSUME NEW x \in s PROVE SumOver(f, s) = f[x] + SumOver(f, s \ {x})
    OBVIOUS
  <2>. DEFINE p == Pick(s)
  <2>1. IsFiniteSet(s) /\ s # {} /\ p \in s
    BY FS_Subset, PickFacts
  <2>2. SumOver(f, s) = f[p] + SumOver(f, s \ {p})
    BY <2>1, SumOverStep
  <2>. HIDE DEF p
  <2>3. CASE x = p
    BY <2>2, <2>3
  <2>4. CASE x # p
    <3>. DEFINE r == (s \ {x}) \ {p}
    <3>1. s \ {p} \in Good /\ s \ {x} \in Good
      BY <1>1, <2>1
    <3>2. (s \ {p}) \ {x} = r
      OBVIOUS
    <3>3. SumOver(f, s \ {p}) = f[x] + SumOver(f, r)
      BY <2>4, <3>1, <3>2
    <3>4. SumOver(f, s \ {x}) = f[p] + SumOver(f, r)
      BY <2>1, <2>4, <3>1
    <3>5. r \subseteq S
      OBVIOUS
    <3>. HIDE DEF r, Good
    <3>6. SumOver(f, r) \in Int
      <4>1. IsFiniteSet(r)
        BY <3>5, FS_Subset
      <4>2. \A y \in r : f[y] \in Int
        BY <3>5
      <4>. QED  BY <4>1, <4>2, SumOverInt
    <3>7. f[p] \in Int /\ f[x] \in Int
      BY <2>1
    <3>8. \A j, k, l \in Int : j + (k + l) = k + (j + l)
      OBVIOUS
    <3>. QED  BY <2>2, <3>3, <3>4, <3>6, <3>7, <3>8
  <2>. QED  BY <2>3, <2>4
<1>2. \A s \in SUBSET S : s \in Good
  <2>. HIDE DEF Good
  <2>. QED  BY <1>1, SubsetInduction
<1>. QED  BY <1>2

\* A change of one value changes the sum as much.
LEMMA SumOverMove ==
    ASSUME NEW S, IsFiniteSet(S), NEW a \in S,
           NEW f, \A x \in S : f[x] \in Int,
           NEW e, \A x \in S : e[x] \in Int,
           \A x \in S : x # a => e[x] = f[x]
    PROVE  SumOver(e, S) = SumOver(f, S) + (e[a] - f[a])
<1>1. SumOver(f, S) = f[a] + SumOver(f, S \ {a})
  BY SumOverTake
<1>2. SumOver(e, S) = e[a] + SumOver(e, S \ {a})
  BY SumOverTake
<1>. DEFINE r == S \ {a}
<1>3. IsFiniteSet(r)
  BY FS_Subset
<1>4. (\A x \in r : e[x] = f[x]) /\ (\A x \in r : f[x] \in Int)
  OBVIOUS
<1>. HIDE DEF r
<1>5. SumOver(e, r) = SumOver(f, r)
  BY <1>3, <1>4, SumOverSame
<1>6. SumOver(f, r) \in Int
  BY <1>3, <1>4, SumOverInt
<1>. QED  BY <1>1, <1>2, <1>5, <1>6 DEF r

\* The sum of zeros.
LEMMA SumOverZero ==
    ASSUME NEW S, IsFiniteSet(S), NEW f, \A x \in S : f[x] = 0
    PROVE  SumOver(f, S) = 0
<1>. DEFINE Good == {s \in SUBSET S : SumOver(f, s) = 0}
<1>1. ASSUME NEW s \in SUBSET S, \A u \in SUBSET s : u # s => u \in Good
      PROVE  s \in Good
  <2>1. IsFiniteSet(s)
    BY FS_Subset
  <2>2. CASE s = {}
    BY <2>1, <2>2, SumOverStep
  <2>3. CASE s # {}
    <3>1. Pick(s) \in S /\ s \ {Pick(s)} \in Good
      BY <1>1, <2>3, PickFacts
    <3>2. SumOver(f, s) = f[Pick(s)] + SumOver(f, s \ {Pick(s)})
      BY <2>1, <2>3, SumOverStep
    <3>. QED  BY <3>1, <3>2
  <2>. QED  BY <2>2, <2>3
<1>2. \A s \in SUBSET S : s \in Good
  <2>. HIDE DEF Good
  <2>. QED  BY <1>1, SubsetInduction
<1>. QED  BY <1>2
=============================================================================
