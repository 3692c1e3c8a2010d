----------------------------- MODULE FoldProofs -----------------------------
(***************************************************************************)
(* Induction without operators as parameters: over the naturals, over the  *)
(* subsets of a finite set, and along a fold.                              *)
(*                                                                         *)
(* The folds of the community modules are MapThenFoldSet: a recursive      *)
(* function on the subsets of a finite set, that takes away one element,   *)
(* the pick, at a time.  FoldIsDefined says that there is such a function  *)
(* (so the one they CHOOSE is one), SubsetInduction what it computes.      *)
(***************************************************************************)
EXTENDS Integers, FiniteSets, TLAPS, FiniteSetTheorems, NaturalsInduction,
        WellFoundedInduction, SequencesExt

(* A set of natural numbers has a least one.                               *)
LEMMA LeastNatural ==
    ASSUME NEW T, T \subseteq Nat, T # {}
    PROVE  \E n \in T : \A m \in T : n <= m
<1> DEFINE Less == {s \in Nat \X Nat : s[1] < s[2]}
<1>1. IsWellFoundedOn(Less, Nat)
  BY NatLessThanWellFounded DEF OpToRel
<1> HIDE DEF Less
<1>2. PICK n \in T : \A m \in T : ~(<<m, n>> \in Less)
  BY <1>1, WFMin
<1>3. \A m \in T : ~(m < n)
  BY <1>2 DEF Less
<1>4. QED
  BY <1>3

(* A bounded set of natural numbers has a greatest one.                    *)
LEMMA GreatestNatural ==
    ASSUME NEW n \in Nat, NEW T, T \subseteq 0..n, T # {}
    PROVE  \E x \in T : \A y \in T : x >= y
<1> DEFINE U == {n - x : x \in T}
<1>1. U \subseteq Nat /\ U # {}
  <2>1. \A x \in T : n - x \in Nat
    OBVIOUS
  <2> QED BY <2>1
<1>2. PICK u \in U : \A v \in U : u <= v
  BY <1>1, LeastNatural
<1>3. PICK x \in T : u = n - x
  OBVIOUS
<1>4. \A y \in T : n - x <= n - y
  BY <1>2, <1>3
<1> QED BY <1>4

(* Induction over the natural numbers, with a set for the property.        *)
LEMMA NaturalInduction ==
    ASSUME NEW T, T \subseteq Nat, 0 \in T, \A n \in T : n + 1 \in T
    PROVE  T = Nat
<1> SUFFICES ASSUME Nat \ T # {} PROVE FALSE
  OBVIOUS
<1>1. PICK n \in Nat \ T : \A m \in Nat \ T : n <= m
  BY LeastNatural
<1>2. n - 1 \in Nat /\ n - 1 \in T
  BY <1>1
<1>3. (n - 1) + 1 \in T
  BY <1>2
<1> QED BY <1>1, <1>2, <1>3

(* A function that is given at 0, and at n + 1 by its value at n: there is *)
(* one.                                                                    *)
Recurs(f, base, step, n) ==
    f[0] = base /\ \A i \in 0 .. n - 1 : f[i + 1] = step[f[i]]

LEMMA RecursionIsDefined ==
    ASSUME NEW X, NEW base \in X, NEW step \in [X -> X]
    PROVE  \E f \in [Nat -> X] : f[0] = base /\ \A n \in Nat : f[n + 1] = step[f[n]]
<1> DEFINE T == {n \in Nat : \E g \in [0..n -> X] : Recurs(g, base, step, n)}
<1>1. 0 \in T
  <2>1. [i \in 0..0 |-> base] \in [0..0 -> X] /\ Recurs([i \in 0..0 |-> base], base, step, 0)
    BY DEF Recurs
  <2> QED BY <2>1
<1>2. ASSUME NEW n \in T PROVE n + 1 \in T
  <2>1. PICK g \in [0..n -> X] : Recurs(g, base, step, n)
    OBVIOUS
  <2> DEFINE h == [i \in 0 .. n + 1 |-> IF i = n + 1 THEN step[g[n]] ELSE g[i]]
  <2>2. h \in [0 .. n + 1 -> X]
    BY <2>1
  <2>3. Recurs(h, base, step, n + 1)
    BY <2>1 DEF Recurs
  <2> HIDE DEF h
  <2> QED BY <2>2, <2>3
<1>3. T = Nat
  BY <1>1, <1>2, NaturalInduction
<1> DEFINE part == [n \in Nat |-> CHOOSE g \in [0..n -> X] : Recurs(g, base, step, n)]
<1>4. \A n \in Nat : part[n] \in [0..n -> X] /\ Recurs(part[n], base, step, n)
  BY <1>3
<1> HIDE DEF T, part
<1>5. \A n \in Nat : part[n + 1][n] = part[n][n]
  <2> SUFFICES ASSUME NEW n \in Nat PROVE part[n + 1][n] = part[n][n]
    OBVIOUS
  <2> DEFINE U == {i \in Nat : i <= n => part[n + 1][i] = part[n][i]}
  <2>1. 0 \in U
    BY <1>4 DEF Recurs
  <2>2. ASSUME NEW i \in U PROVE i + 1 \in U
    <3> SUFFICES ASSUME i + 1 <= n PROVE part[n + 1][i + 1] = part[n][i + 1]
      OBVIOUS
    <3>1. i \in 0 .. n - 1 /\ i \in 0 .. (n + 1) - 1 /\ part[n + 1][i] = part[n][i]
      OBVIOUS
    <3> QED BY <3>1, <1>4 DEF Recurs
  <2>3. U = Nat
    <3> HIDE DEF U
    <3>1. U \subseteq Nat
      BY DEF U
    <3> QED BY <2>1, <2>2, <3>1, NaturalInduction
  <2> QED BY <2>3
<1> DEFINE f == [n \in Nat |-> part[n][n]]
<1>6. f \in [Nat -> X] /\ f[0] = base
  BY <1>4 DEF Recurs
<1>7. \A n \in Nat : f[n + 1] = step[f[n]]
  <2> SUFFICES ASSUME NEW n \in Nat PROVE f[n + 1] = step[f[n]]
    OBVIOUS
  <2>1. n \in 0 .. (n + 1) - 1 /\ n + 1 \in Nat
    OBVIOUS
  <2>2. part[n + 1][n + 1] = step[part[n + 1][n]]
    BY <1>4, <2>1 DEF Recurs
  <2> QED BY <1>5, <2>2
<1> HIDE DEF f
<1> QED BY <1>6, <1>7

-----------------------------------------------------------------------------
(* What takes an element of every set of S that is not empty.              *)
Picks(pick, D) == /\ pick \in [(SUBSET D) \ {{}} -> D]
                  /\ \A S \in (SUBSET D) \ {{}} : pick[S] \in S

(* A set without one of its elements has one element less.                 *)
LEMMA SmallerSubset ==
    ASSUME NEW D, IsFiniteSet(D), NEW S \in SUBSET D, NEW x \in S
    PROVE  /\ S \ {x} \in SUBSET D
           /\ Cardinality(S) \in Nat /\ Cardinality(S \ {x}) = Cardinality(S) - 1
           /\ Cardinality(S) > 0
<1>1. IsFiniteSet(S)
  BY FS_Subset
<1>2. Cardinality(S) \in Nat /\ Cardinality(S) # 0
  BY <1>1, FS_CardinalityType, FS_EmptySet
<1>3. Cardinality(S \ {x}) = Cardinality(S) - 1
  BY <1>1, FS_RemoveElement
<1> QED BY <1>2, <1>3

(* What holds of the empty set, and of a set if it holds of the set        *)
(* without its pick, holds of every subset.                                *)
LEMMA SubsetInduction ==
    ASSUME NEW D, IsFiniteSet(D), NEW pick, Picks(pick, D),
           NEW T, {} \in T,
           \A S \in (SUBSET D) \ {{}} : S \ {pick[S]} \in T => S \in T
    PROVE  SUBSET D \subseteq T
<1> SUFFICES ASSUME NEW R \in SUBSET D, R \notin T PROVE FALSE
  OBVIOUS
<1> DEFINE Sizes == {Cardinality(S) : S \in (SUBSET D) \ T}
<1>1. Sizes \subseteq Nat /\ Sizes # {}
  BY FS_Subset, FS_CardinalityType
<1>2. PICK k \in Sizes : \A j \in Sizes : k <= j
  BY <1>1, LeastNatural
<1>3. PICK S \in (SUBSET D) \ T : k = Cardinality(S)
  BY <1>2
<1>4. S # {} /\ pick[S] \in S
  <2>1. S # {}
    BY <1>3
  <2>2. S \in (SUBSET D) \ {{}}
    BY <1>3, <2>1
  <2> QED BY <2>1, <2>2 DEF Picks
<1>5. /\ S \ {pick[S]} \in SUBSET D
      /\ Cardinality(S \ {pick[S]}) = Cardinality(S) - 1 /\ Cardinality(S) \in Nat
  BY <1>4, SmallerSubset
<1>6. S \ {pick[S]} \in T
  <2> SUFFICES ASSUME S \ {pick[S]} \notin T PROVE FALSE
    OBVIOUS
  <2>1. Cardinality(S \ {pick[S]}) \in Sizes
    BY <1>5
  <2>2. k <= Cardinality(S \ {pick[S]})
    BY <1>2, <2>1
  <2> HIDE DEF Sizes
  <2> QED BY <1>3, <1>5, <2>2
<1>7. S \in (SUBSET D) \ {{}}
  BY <1>3, <1>4
<1> QED BY <1>3, <1>6, <1>7

(* The equation of a fold, and the same on sets of at most n elements.     *)
IsFold(g, D, base, step, pick) ==
    \A S \in SUBSET D :
        g[S] = IF S = {} THEN base ELSE step[pick[S]][g[S \ {pick[S]}]]
UpTo(D, n) == {S \in SUBSET D : Cardinality(S) <= n}
FoldsUpTo(g, D, base, step, pick, n) ==
    \A S \in UpTo(D, n) :
        g[S] = IF S = {} THEN base ELSE step[pick[S]][g[S \ {pick[S]}]]

(* There is a function on the subsets of D that satisfies the equation of  *)
(* the fold.                                                               *)
LEMMA FoldIsDefined ==
    ASSUME NEW D, IsFiniteSet(D), NEW pick, Picks(pick, D),
           NEW X, NEW base \in X, NEW step \in [D -> [X -> X]]
    PROVE  \E g \in [SUBSET D -> X] : IsFold(g, D, base, step, pick)
<1> DEFINE T == {n \in Nat : \E g \in [UpTo(D, n) -> X] :
                                FoldsUpTo(g, D, base, step, pick, n)}
<1>0. \A S \in SUBSET D : IsFiniteSet(S) /\ Cardinality(S) \in Nat
  BY FS_Subset, FS_CardinalityType
<1>1. 0 \in T
  <2>1. UpTo(D, 0) = {{}}
    BY <1>0, FS_EmptySet DEF UpTo
  <2> DEFINE g == [S \in UpTo(D, 0) |-> base]
  <2>2. g \in [UpTo(D, 0) -> X] /\ FoldsUpTo(g, D, base, step, pick, 0)
    BY <2>1 DEF FoldsUpTo
  <2> HIDE DEF g
  <2> QED BY <2>2
<1>2. ASSUME NEW n \in T PROVE n + 1 \in T
  <2>1. PICK g \in [UpTo(D, n) -> X] : FoldsUpTo(g, D, base, step, pick, n)
    OBVIOUS
  <2>2. \A S \in UpTo(D, n + 1) : S # {} =>
           pick[S] \in D /\ S \ {pick[S]} \in UpTo(D, n)
    <3> SUFFICES ASSUME NEW S \in UpTo(D, n + 1), S # {}
                 PROVE  pick[S] \in D /\ S \ {pick[S]} \in UpTo(D, n)
      OBVIOUS
    <3>1. pick[S] \in S /\ S \in SUBSET D /\ Cardinality(S) <= n + 1
      BY DEF Picks, UpTo
    <3>2. S \ {pick[S]} \in SUBSET D /\ Cardinality(S \ {pick[S]}) = Cardinality(S) - 1
          /\ Cardinality(S) \in Nat
      BY <3>1, SmallerSubset
    <3> QED BY <3>1, <3>2 DEF UpTo
  <2> DEFINE h == [S \in UpTo(D, n + 1) |->
                     IF S = {} THEN base ELSE step[pick[S]][g[S \ {pick[S]}]]]
  <2>3. h \in [UpTo(D, n + 1) -> X]
    BY <2>2
  <2>4. UpTo(D, n) \subseteq UpTo(D, n + 1)
    BY <1>0 DEF UpTo
  <2>5. \A S \in UpTo(D, n) : h[S] = g[S]
    BY <2>1, <2>4 DEF FoldsUpTo
  <2>6. FoldsUpTo(h, D, base, step, pick, n + 1)
    <3> SUFFICES ASSUME NEW S \in UpTo(D, n + 1)
                 PROVE  h[S] = IF S = {} THEN base
                               ELSE step[pick[S]][h[S \ {pick[S]}]]
      BY DEF FoldsUpTo
    <3> QED BY <2>2, <2>5
  <2> HIDE DEF h
  <2> QED BY <2>3, <2>6
<1> HIDE DEF T
<1>3. T = Nat
  <2>1. T \subseteq Nat
    BY DEF T
  <2> QED BY <1>1, <1>2, <2>1, NaturalInduction
<1>4. PICK g \in [UpTo(D, Cardinality(D)) -> X] :
         FoldsUpTo(g, D, base, step, pick, Cardinality(D))
  BY <1>0, <1>3 DEF T
<1>5. UpTo(D, Cardinality(D)) = SUBSET D
  BY FS_Subset DEF UpTo
<1> QED BY <1>4, <1>5 DEF FoldsUpTo, IsFold
-----------------------------------------------------------------------------
(* The greatest of some natural numbers that are bounded.                 *)
LEMMA MaxOfNaturals ==
    ASSUME NEW n \in Nat, NEW S, S \subseteq 0..n, S # {}
    PROVE  Max(S) \in S /\ \A y \in S : Max(S) >= y
<1>1. \E x \in S : \A y \in S : x >= y
  BY GreatestNatural
<1> QED BY <1>1 DEF Max

(* The indices up to i are those up to i - 1, and i.                      *)
LEMMA LastIndex ==
    ASSUME NEW n \in Nat, NEW i \in 1..n
    PROVE  /\ 1..i \subseteq 1..n /\ 1 .. i - 1 \subseteq 1..n /\ i \in 1..i
           /\ Max(1..i) = i /\ (1..i) \ {i} = 1 .. i - 1
<1>1. i \in Nat /\ 1 <= i /\ i <= n
  OBVIOUS
<1>2. 1..i \subseteq 0..n /\ i \in 1..i
  BY <1>1
<1>3. Max(1..i) \in 1..i /\ Max(1..i) >= i
  BY <1>2, MaxOfNaturals
<1>4. Max(1..i) = i
  BY <1>1, <1>3
<1> QED BY <1>1, <1>2, <1>4

(* The greatest index of a set is what FoldLeft takes away from it.        *)
LEMMA MaxPicks ==
    ASSUME NEW n \in Nat
    PROVE  /\ IsFiniteSet(1..n)
           /\ \A S \in (SUBSET (1..n)) \ {{}} : Max(S) \in S
           /\ Picks([S \in (SUBSET (1..n)) \ {{}} |-> Max(S)], 1..n)
<1>1. \A S \in (SUBSET (1..n)) \ {{}} : Max(S) \in S
  <2> SUFFICES ASSUME NEW S \in (SUBSET (1..n)) \ {{}} PROVE Max(S) \in S
    OBVIOUS
  <2>1. S \subseteq 0..n /\ S # {}
    OBVIOUS
  <2> QED BY <2>1, MaxOfNaturals
<1>2. IsFiniteSet(1..n)
  BY FS_Interval
<1> QED BY <1>1, <1>2 DEF Picks

(* What follows from an equation along 0..n.                               *)
LEMMA RangeInduction ==
    ASSUME NEW n \in Nat, NEW T, T \subseteq 0..n, 0 \in T,
           \A i \in 1..n : i - 1 \in T => i \in T
    PROVE  T = 0..n
<1> DEFINE U == {i \in Nat : i <= n => i \in T}
<1>1. 0 \in U
  OBVIOUS
<1>2. ASSUME NEW i \in U PROVE i + 1 \in U
  <2> SUFFICES ASSUME i + 1 <= n PROVE i + 1 \in T
    OBVIOUS
  <2>1. i + 1 \in 1..n /\ (i + 1) - 1 = i /\ i \in T
    OBVIOUS
  <2> QED BY <2>1
<1>3. U = Nat
  <2> HIDE DEF U
  <2>1. U \subseteq Nat
    BY DEF U
  <2> QED BY <1>1, <1>2, <2>1, NaturalInduction
<1>4. \A i \in 0..n : i \in T
  BY <1>3
<1> HIDE DEF U
<1> QED BY <1>4

(* What a fold from left to right computes, if there is a function for     *)
(* each of its turns.                                                      *)
IsFoldLoop(g, n, X, base, step) ==
    /\ g[{}] = base
    /\ \A S \in (SUBSET (1..n)) \ {{}} :
          /\ Max(S) \in 1..n /\ S \ {Max(S)} \in SUBSET (1..n)
          /\ g[S \ {Max(S)}] \in X
          /\ g[S] = step[Max(S)][g[S \ {Max(S)}]]

LEMMA LoopIsDefined ==
    ASSUME NEW n \in Nat, NEW X, NEW base \in X, NEW step \in [1..n -> [X -> X]]
    PROVE  \E g \in [SUBSET (1..n) -> X] : IsFoldLoop(g, n, X, base, step)
<1> DEFINE D == 1..n
           pick == [S \in (SUBSET D) \ {{}} |-> Max(S)]
<1>1. IsFiniteSet(D) /\ Picks(pick, D) /\ \A S \in (SUBSET D) \ {{}} : Max(S) \in S
  BY MaxPicks
<1>2. step \in [D -> [X -> X]]
  OBVIOUS
<1>3. \A S \in (SUBSET D) \ {{}} : pick[S] = Max(S)
  OBVIOUS
<1> HIDE DEF D, pick
<1>4. PICK g \in [SUBSET D -> X] : IsFold(g, D, base, step, pick)
  BY <1>1, <1>2, FoldIsDefined
<1>5. g[{}] = base
  BY <1>4 DEF IsFold
<1>6. ASSUME NEW S \in (SUBSET D) \ {{}}
      PROVE  /\ Max(S) \in D /\ S \ {Max(S)} \in SUBSET D
             /\ g[S \ {Max(S)}] \in X
             /\ g[S] = step[Max(S)][g[S \ {Max(S)}]]
  <2>1. Max(S) \in D /\ S \ {Max(S)} \in SUBSET D
    BY <1>1
  <2>2. g[S] = step[pick[S]][g[S \ {pick[S]}]]
    BY <1>4 DEF IsFold
  <2> QED BY <1>3, <1>4, <2>1, <2>2
<1> QED BY <1>4, <1>5, <1>6 DEF D, IsFoldLoop

(* Such a loop goes through the indices in order.                          *)
Turns(loop, n, X, base, step) ==
    /\ loop[{}] = base
    /\ \A S \in (SUBSET (1..n)) \ {{}} : loop[S \ {Max(S)}] \in X =>
          loop[S] = step[Max(S)][loop[S \ {Max(S)}]]
Runs(f, n, base, step, result) ==
    /\ f[0] = base /\ f[n] = result
    /\ \A i \in 1..n : f[i] = step[i][f[i - 1]]

LEMMA LoopRuns ==
    ASSUME NEW n \in Nat, NEW X, NEW base \in X, NEW step \in [1..n -> [X -> X]],
           NEW loop, Turns(loop, n, X, base, step)
    PROVE  \E f \in [0..n -> X] : Runs(f, n, base, step, loop[1..n])
<1>1. 1..0 = {}
  OBVIOUS
<1>2. ASSUME NEW i \in 1..n, loop[1 .. i - 1] \in X
      PROVE  loop[1..i] = step[i][loop[1 .. i - 1]] /\ loop[1..i] \in X
  <2>1. /\ 1..i \in (SUBSET (1..n)) \ {{}} /\ Max(1..i) = i /\ (1..i) \ {i} = 1 .. i - 1
    BY LastIndex
  <2>2. loop[1..i] = step[i][loop[1 .. i - 1]]
    BY <1>2, <2>1 DEF Turns
  <2> QED BY <1>2, <2>2
<1> DEFINE T == {i \in 0..n : loop[1..i] \in X}
<1>3. T = 0..n
  <2>1. 0 \in T
    BY <1>1 DEF Turns
  <2>2. \A i \in 1..n : i - 1 \in T => i \in T
    BY <1>2
  <2> HIDE DEF T
  <2>3. T \subseteq 0..n
    BY DEF T
  <2> QED BY <2>1, <2>2, <2>3, RangeInduction
<1> DEFINE f == [i \in 0..n |-> loop[1..i]]
<1>4. f \in [0..n -> X] /\ f[0] = base /\ f[n] = loop[1..n]
  BY <1>1, <1>3 DEF Turns
<1>5. \A i \in 1..n : f[i] = step[i][f[i - 1]]
  <2> SUFFICES ASSUME NEW i \in 1..n PROVE f[i] = step[i][f[i - 1]]
    OBVIOUS
  <2>1. i \in 0..n /\ i - 1 \in 0..n
    OBVIOUS
  <2> QED BY <1>2, <1>3, <2>1
<1> HIDE DEF f
<1> QED BY <1>4, <1>5 DEF Runs
=============================================================================
