---------------------------- MODULE RouterProofs ----------------------------
(***************************************************************************)
(* Theorems about Router, for every number of neighbors, their relations,  *)
(* what they announce, and the order in which packets are handled.         *)
(***************************************************************************)
EXTENDS Router, AggregationProofs

-----------------------------------------------------------------------------
(* The table.                                                              *)

(* What comes after the index removed moves up by one.                     *)
LEMMA RemovedIndex ==
    ASSUME NEW E, NEW s \in Seq(E), NEW i \in 1..Len(s)
    PROVE  /\ RemoveAt(s, i) \in Seq(E)
           /\ Len(RemoveAt(s, i)) = Len(s) - 1
           /\ \A j \in 1 .. Len(s) - 1 :
                 RemoveAt(s, i)[j] = IF j < i THEN s[j] ELSE s[j + 1]
<1> DEFINE front == SubSeq(s, 1, i - 1)
           back  == SubSeq(s, i + 1, Len(s))
<1>1. Len(s) \in Nat /\ i \in Nat /\ i >= 1 /\ i <= Len(s)
  BY LenProperties
<1>2. \A j \in 1..Len(s) : s[j] \in E
  BY ElementOfSeq
<1>3. /\ front \in Seq(E) /\ Len(front) = i - 1
      /\ \A j \in 1 .. i - 1 : front[j] = s[j]
  BY <1>1, <1>2, SubSeqProperties
<1>4. /\ back \in Seq(E) /\ Len(back) = Len(s) - i
      /\ \A j \in 1 .. Len(s) - i : back[j] = s[i + j]
  BY <1>1, <1>2, SubSeqProperties
<1>5. RemoveAt(s, i) = front \o back
  BY DEF RemoveAt
<1> HIDE DEF front, back
<1>6. /\ front \o back \in Seq(E)
      /\ Len(front \o back) = Len(front) + Len(back)
      /\ \A j \in 1 .. Len(front) + Len(back) :
            (front \o back)[j] = IF j <= Len(front) THEN front[j] ELSE back[j - Len(front)]
  BY <1>3, <1>4, ConcatProperties
<1>7. ASSUME NEW j \in 1 .. Len(s) - 1
      PROVE  RemoveAt(s, i)[j] = IF j < i THEN s[j] ELSE s[j + 1]
  <2> j \in 1 .. Len(front) + Len(back)
    BY <1>1, <1>3, <1>4
  <2>1. CASE j < i
    <3>1. j <= Len(front) /\ j \in 1 .. i - 1
      BY <1>1, <1>3, <2>1
    <3> QED BY <1>3, <1>5, <1>6, <2>1, <3>1
  <2>2. CASE ~(j < i)
    <3>1. j - (i - 1) \in 1 .. Len(s) - i /\ i + (j - (i - 1)) = j + 1
      BY <1>1, <2>2
    <3>2. RemoveAt(s, i)[j] = back[j - (i - 1)]
      BY <1>1, <1>3, <1>5, <1>6, <2>2
    <3> QED BY <1>4, <2>2, <3>1, <3>2
  <2> QED BY <2>1, <2>2
<1> QED BY <1>1, <1>3, <1>4, <1>5, <1>6, <1>7

(* Two entries of a neighbor for one prefix are one.                       *)
OneOf(table, n, p) ==
    \A d, e \in ToSet(table) :
        /\ d.from = n /\ Prefix(d.msg) = p
        /\ e.from = n /\ Prefix(e.msg) = p
        => d = e

(* A withdrawal takes no entry but one of this neighbor for this prefix;   *)
(* and none is left, if there was no more than one.                        *)
LEMMA WithdrawnEntries ==
    ASSUME NEW E, NEW table \in Seq(E), EachOnce(table), NEW n, NEW p
    PROVE  /\ Withdrawn(table, n, p) \in Seq(E)
           /\ EachOnce(Withdrawn(table, n, p))
           /\ ToSet(Withdrawn(table, n, p)) \subseteq ToSet(table)
           /\ \A e \in ToSet(table) :
                 ~(Prefix(e.msg) = p /\ e.from = n) => e \in ToSet(Withdrawn(table, n, p))
           /\ OneOf(table, n, p) =>
                 \A e \in ToSet(Withdrawn(table, n, p)) : ~(Prefix(e.msg) = p /\ e.from = n)
<1> DEFINE Test(e) == Prefix(e.msg) = p /\ e.from = n
           I == {i \in 1..Len(table) : Test(table[i])}
           t == Withdrawn(table, n, p)
<1>1. /\ DOMAIN table = 1..Len(table) /\ Len(table) \in Nat
      /\ \A i \in DOMAIN table : table[i] \in E
      /\ ToSet(table) = {table[i] : i \in DOMAIN table}
  BY RangeOfTable
<1>2. t = IF \E i \in 1..Len(table) : Test(table[i]) THEN RemoveAt(table, Min(I)) ELSE table
  BY DEF Withdrawn, RemoveFirstMatch, SelectInSeq
<1> HIDE DEF t
<1>3. CASE ~\E i \in 1..Len(table) : Test(table[i])
  <2>1. t = table
    BY <1>2, <1>3
  <2>2. \A e \in ToSet(table) : ~Test(e)
    BY <1>1, <1>3
  <2> QED BY <2>1, <2>2 DEF t
<1>4. CASE \E i \in 1..Len(table) : Test(table[i])
  <2> DEFINE k == Min(I)
  <2>1. I \subseteq Nat /\ I # {}
    BY <1>1, <1>4
  <2>2. k \in I
    <3>1. \E x \in I : \A y \in I : x <= y
      <4> HIDE DEF I
      <4> QED BY <2>1, LeastNatural
    <3> QED BY <3>1 DEF Min
  <2>3. k \in 1..Len(table) /\ Test(table[k]) /\ t = RemoveAt(table, k)
    BY <1>2, <1>4, <2>2
  <2> HIDE DEF k, Test, I
  <2>4. /\ t \in Seq(E) /\ Len(t) = Len(table) - 1
        /\ \A j \in 1 .. Len(table) - 1 : t[j] = IF j < k THEN table[j] ELSE table[j + 1]
    BY <2>3, RemovedIndex
  <2> DEFINE Old(j) == IF j < k THEN j ELSE j + 1
  <2>5. \A j \in 1 .. Len(table) - 1 : Old(j) \in 1..Len(table) /\ Old(j) # k /\ t[j] = table[Old(j)]
    BY <1>1, <2>3, <2>4
  <2>6. \A i \in 1..Len(table) : i # k => \E j \in 1 .. Len(table) - 1 : Old(j) = i
    <3> SUFFICES ASSUME NEW i \in 1..Len(table), i # k
                 PROVE  \E j \in 1 .. Len(table) - 1 : Old(j) = i
      OBVIOUS
    <3>1. CASE i < k
      BY <1>1, <2>3, <3>1
    <3>2. CASE i > k
      <4>1. i - 1 \in 1 .. Len(table) - 1 /\ Old(i - 1) = i
        BY <1>1, <2>3, <3>2
      <4> QED BY <4>1
    <3> QED BY <1>1, <2>3, <3>1, <3>2
  <2>7. \A i, j \in 1 .. Len(table) - 1 : Old(i) = Old(j) => i = j
    BY <1>1, <2>3
  <2> HIDE DEF Old
  <2>8. DOMAIN t = 1 .. Len(table) - 1 /\ ToSet(t) = {t[j] : j \in 1 .. Len(table) - 1}
    BY <1>1, <2>4, RangeOfTable
  <2>9. EachOnce(t)
    BY <1>1, <2>5, <2>7, <2>8 DEF EachOnce
  <2>10. ToSet(t) \subseteq ToSet(table)
    BY <1>1, <2>5, <2>8
  <2>11. \A e \in ToSet(table) : e # table[k] => e \in ToSet(t)
    BY <1>1, <2>5, <2>6, <2>8
  <2>12. table[k] \notin ToSet(t)
    BY <1>1, <2>3, <2>5, <2>8 DEF EachOnce
  <2>13. table[k] \in ToSet(table)
    BY <1>1, <2>3
  <2>14. OneOf(table, n, p) => \A e \in ToSet(t) : ~Test(e)
    BY <2>3, <2>10, <2>12, <2>13 DEF OneOf, Test
  <2> QED BY <2>3, <2>4, <2>9, <2>10, <2>11, <2>14 DEF t, Test
<1> QED BY <1>3, <1>4

(* The same of the withdrawal of a set of prefixes.                        *)
WithdrawnSet(table, n, P) == FoldSet(LAMBDA p, t : Withdrawn(t, n, p), table, P)

Left(E, table, n, P, t) ==
    /\ t \in Seq(E)
    /\ EachOnce(t)
    /\ ToSet(t) \subseteq ToSet(table)
    /\ \A e \in ToSet(table) : ~(Prefix(e.msg) \in P /\ e.from = n) => e \in ToSet(t)
    /\ (\A p \in P : OneOf(table, n, p)) =>
          \A e \in ToSet(t) : ~(Prefix(e.msg) \in P /\ e.from = n)

(* What the loop of HandleWithdraw leaves, in whatever order it goes       *)
(* through the prefixes.                                                   *)
LEMMA WithdrawnSetLeaves ==
    ASSUME NEW E, NEW table \in Seq(E), EachOnce(table), NEW n, NEW P, IsFiniteSet(P)
    PROVE  Left(E, table, n, P, WithdrawnSet(table, n, P))
<1> DEFINE X == {t \in Seq(E) : EachOnce(t)}
           One(S) == CHOOSE p \in S : TRUE
           pick == [S \in (SUBSET P) \ {{}} |-> One(S)]
           step == [p \in P |-> [t \in X |-> Withdrawn(t, n, p)]]
           IsLoop(g) == g = [S \in SUBSET P |->
                               IF S = {} THEN table ELSE Withdrawn(g[S \ {One(S)}], n, One(S))]
           loop == CHOOSE g : IsLoop(g)
<1>1. WithdrawnSet(table, n, P) = loop[P]
  BY DEF WithdrawnSet, FoldSet, MapThenFoldSet
<1>2. \A S \in (SUBSET P) \ {{}} : One(S) \in S
  OBVIOUS
<1>3. Picks(pick, P)
  BY <1>2 DEF Picks
<1>4. step \in [P -> [X -> X]] /\ table \in X
  BY WithdrawnEntries
<1>5. IsLoop(loop)
  <2>1. PICK g \in [SUBSET P -> X] : IsFold(g, P, table, step, pick)
    <3> HIDE DEF X, pick, step
    <3> QED BY <1>3, <1>4, FoldIsDefined
  <2>2. \A S \in (SUBSET P) \ {{}} :
           step[pick[S]][g[S \ {pick[S]}]] = Withdrawn(g[S \ {One(S)}], n, One(S))
    <3> SUFFICES ASSUME NEW S \in (SUBSET P) \ {{}}
                 PROVE  step[pick[S]][g[S \ {pick[S]}]] = Withdrawn(g[S \ {One(S)}], n, One(S))
      OBVIOUS
    <3>1. pick[S] = One(S) /\ One(S) \in P /\ g[S \ {One(S)}] \in X
      BY <1>2
    <3> HIDE DEF One, X, pick
    <3> QED BY <3>1
  <2>3. IsLoop(g)
    <3> HIDE DEF step, pick, One, X
    <3> QED BY <2>1, <2>2 DEF IsFold
  <2> HIDE DEF IsLoop
  <2> QED BY <2>3
<1> DEFINE T == {S \in SUBSET P : Left(E, table, n, S, loop[S])}
<1> HIDE DEF loop
<1>6. {} \in T
  BY <1>5 DEF Left
<1>7. ASSUME NEW S \in (SUBSET P) \ {{}}, S \ {One(S)} \in T PROVE S \in T
  <2> DEFINE p == One(S)
             before == loop[S \ {p}]
  <2>1. p \in S
    BY <1>2
  <2>2. loop[S] = Withdrawn(before, n, p) /\ Left(E, table, n, S \ {p}, before)
    BY <1>5, <1>7
  <2> HIDE DEF p, before
  <2>3. before \in Seq(E) /\ EachOnce(before)
    BY <2>2 DEF Left
  <2> DEFINE t == Withdrawn(before, n, p)
  <2>4. /\ t \in Seq(E) /\ EachOnce(t) /\ ToSet(t) \subseteq ToSet(before)
        /\ \A e \in ToSet(before) : ~(Prefix(e.msg) = p /\ e.from = n) => e \in ToSet(t)
        /\ OneOf(before, n, p) => \A e \in ToSet(t) : ~(Prefix(e.msg) = p /\ e.from = n)
    BY <2>3, WithdrawnEntries
  <2> HIDE DEF t
  <2>5. ToSet(t) \subseteq ToSet(table)
    BY <2>2, <2>4 DEF Left
  <2>6. \A e \in ToSet(table) : ~(Prefix(e.msg) \in S /\ e.from = n) => e \in ToSet(t)
    BY <2>1, <2>2, <2>4 DEF Left
  <2>7. ASSUME \A q \in S : OneOf(table, n, q), NEW e \in ToSet(t)
        PROVE  ~(Prefix(e.msg) \in S /\ e.from = n)
    <3>1. OneOf(before, n, p)
      BY <2>1, <2>2, <2>7 DEF OneOf, Left
    <3> QED BY <2>1, <2>2, <2>4, <2>7, <3>1 DEF Left
  <2>8. Left(E, table, n, S, t)
    BY <2>4, <2>5, <2>6, <2>7 DEF Left
  <2> QED BY <2>2, <2>8 DEF t
<1>8. P \in T
  <2>1. \A S \in (SUBSET P) \ {{}} : S \ {pick[S]} \in T => S \in T
    <3> HIDE DEF T, One
    <3> QED BY <1>7
  <2> HIDE DEF T, pick
  <2>2. SUBSET P \subseteq T
    BY <1>3, <1>6, <2>1, SubsetInduction
  <2> QED BY <2>2
<1> QED BY <1>1, <1>8

-----------------------------------------------------------------------------
(* The first four rules as one comparison.                                 *)
OwnRank(e) == IF e.msg.selfOrigin THEN 0 ELSE 1

Better(x, e) ==
    \/ x.msg.length > e.msg.length
    \/ /\ x.msg.length = e.msg.length
       /\ \/ x.msg.localpref > e.msg.localpref
          \/ /\ x.msg.localpref = e.msg.localpref
             /\ \/ OwnRank(x) < OwnRank(e)
                \/ /\ OwnRank(x) = OwnRank(e)
                   /\ Len(x.msg.ASPath) < Len(e.msg.ASPath)

Alike(x, e) == /\ x.msg.length = e.msg.length
               /\ x.msg.localpref = e.msg.localpref
               /\ OwnRank(x) = OwnRank(e)
               /\ Len(x.msg.ASPath) = Len(e.msg.ASPath)

(* What routes are compared by are numbers.                                *)
LEMMA EntryRanks ==
    ASSUME NEW e \in Entry
    PROVE  /\ e.msg.length \in Int /\ e.msg.localpref \in Int
           /\ OwnRank(e) \in {0, 1} /\ Len(e.msg.ASPath) \in Int
           /\ e.msg.selfOrigin \in BOOLEAN
           /\ e.from \in Int
<1>1. e.msg \in UpdateMsg /\ e.from \in Int
  BY DEF Entry
<1>2. e.msg.ASPath \in Seq(Nat) /\ e.msg.length \in 0..Width /\ e.msg.localpref \in Nat
      /\ e.msg.selfOrigin \in BOOLEAN
  BY <1>1 DEF UpdateMsg
<1>3. Len(e.msg.ASPath) \in Nat
  BY <1>2, LenProperties
<1> QED BY <1>1, <1>2, <1>3, WidthAssumption DEF OwnRank

(* The comparison is a total preorder.                                     *)
LEMMA BetterIsOrder ==
    ASSUME NEW x \in Entry, NEW y \in Entry, NEW z \in Entry
    PROVE  /\ ~Better(x, x) /\ Alike(x, x)
           /\ Better(x, y) \/ Better(y, x) \/ Alike(x, y)
           /\ Better(x, y) => ~Better(y, x) /\ ~Alike(x, y) /\ ~Alike(y, x)
           /\ ~Better(x, y) /\ ~Better(y, z) => ~Better(x, z)
           /\ Alike(x, y) => Alike(y, x) /\ (Alike(y, z) => Alike(x, z))
           /\ Alike(x, y) => (Better(x, z) <=> Better(y, z))
<1>1. /\ x.msg.length \in Int /\ x.msg.localpref \in Int
      /\ OwnRank(x) \in Int /\ Len(x.msg.ASPath) \in Int
  BY EntryRanks
<1>2. /\ y.msg.length \in Int /\ y.msg.localpref \in Int
      /\ OwnRank(y) \in Int /\ Len(y.msg.ASPath) \in Int
  BY EntryRanks
<1>3. /\ z.msg.length \in Int /\ z.msg.localpref \in Int
      /\ OwnRank(z) \in Int /\ Len(z.msg.ASPath) \in Int
  BY EntryRanks
<1>4. ~Better(x, x) /\ Alike(x, x)
  BY <1>1 DEF Better, Alike
<1>5. Better(x, y) \/ Better(y, x) \/ Alike(x, y)
  BY <1>1, <1>2 DEF Better, Alike
<1>6. Better(x, y) => ~Better(y, x) /\ ~Alike(x, y) /\ ~Alike(y, x)
  BY <1>1, <1>2 DEF Better, Alike
<1>7. ~Better(x, y) /\ ~Better(y, z) => ~Better(x, z)
  <2> SUFFICES ASSUME Better(x, z), ~Better(x, y) PROVE Better(y, z)
    OBVIOUS
  <2>1. y.msg.length >= x.msg.length /\ x.msg.length >= z.msg.length
    BY <1>1, <1>2, <1>3 DEF Better
  <2>2. CASE y.msg.length > z.msg.length
    BY <2>2 DEF Better
  <2>3. CASE y.msg.length = z.msg.length
    <3>1. x.msg.length = y.msg.length /\ x.msg.length = z.msg.length
      BY <1>1, <1>2, <1>3, <2>1, <2>3
    <3>2. y.msg.localpref >= x.msg.localpref /\ x.msg.localpref >= z.msg.localpref
      BY <1>1, <1>2, <1>3, <3>1 DEF Better
    <3>3. CASE y.msg.localpref > z.msg.localpref
      BY <2>3, <3>3 DEF Better
    <3>4. CASE y.msg.localpref = z.msg.localpref
      <4>1. x.msg.localpref = y.msg.localpref /\ x.msg.localpref = z.msg.localpref
        BY <1>1, <1>2, <1>3, <3>2, <3>4
      <4> QED BY <1>1, <1>2, <1>3, <2>3, <3>1, <3>4, <4>1 DEF Better
    <3> QED BY <1>2, <1>3, <3>2, <3>3, <3>4, <1>1
  <2> QED BY <1>1, <1>2, <1>3, <2>1, <2>2, <2>3
<1>8. Alike(x, y) => Alike(y, x) /\ (Alike(y, z) => Alike(x, z))
  BY DEF Alike
<1>9. Alike(x, y) => (Better(x, z) <=> Better(y, z))
  BY DEF Alike, Better
<1> QED BY <1>4, <1>5, <1>6, <1>7, <1>8, <1>9

(* The route found gives way to the next one.                              *)
GivesWay(e, c) == \/ c.msg.length > e.msg.length
                  \/ c.msg.length = e.msg.length /\ ~Keeps(e, c)

(* _determine_best_route: what is found gives way to nothing worse and is  *)
(* kept against nothing better; of two alike with one origin that of the   *)
(* lower neighbor stays.                                                   *)
LEMMA GivesWayToBetter ==
    ASSUME NEW e \in Entry, NEW c \in Entry
    PROVE  /\ GivesWay(e, c) => ~Better(e, c)
           /\ ~GivesWay(e, c) => ~Better(c, e)
           /\ Alike(c, e) /\ c.msg.origin = e.msg.origin =>
                 (GivesWay(e, c) <=> ~(e.from < c.from))
<1>1. /\ (e.msg.selfOrigin /\ ~c.msg.selfOrigin) <=> OwnRank(e) < OwnRank(c)
      /\ (e.msg.selfOrigin = c.msg.selfOrigin) <=> OwnRank(e) = OwnRank(c)
  BY EntryRanks DEF OwnRank
<1>2. GivesWay(e, c) <=>
        \/ c.msg.length > e.msg.length
        \/ /\ c.msg.length = e.msg.length
           /\ ~ \/ e.msg.localpref > c.msg.localpref
                \/ /\ e.msg.localpref = c.msg.localpref
                   /\ \/ OwnRank(e) < OwnRank(c)
                      \/ /\ OwnRank(e) = OwnRank(c)
                         /\ \/ Len(e.msg.ASPath) < Len(c.msg.ASPath)
                            \/ /\ Len(e.msg.ASPath) = Len(c.msg.ASPath)
                               /\ \/ OriginLess(e.msg.origin, c.msg.origin)
                                  \/ e.msg.origin = c.msg.origin /\ e.from < c.from
  BY <1>1 DEF GivesWay, Keeps
<1>3. e.msg.origin = c.msg.origin => ~OriginLess(e.msg.origin, c.msg.origin)
  BY DEF OriginLess
<1> QED BY <1>2, <1>3, EntryRanks DEF Better, Alike

(* What BestRouteTaken says in terms of Rules.                             *)
Best(e, routes) ==
    /\ e \in routes
    /\ \A x \in routes : ~Better(x, e)
    /\ LET ties == {x \in routes : Alike(x, e)}
       IN  (\A x \in ties : x.msg.origin = e.msg.origin)
              => \A x \in ties : e.from <= x.from

(* One more route to choose from.                                          *)
LEMMA BestOfOneMore ==
    ASSUME NEW routes \in SUBSET Entry, NEW c \in Entry, NEW e, Best(e, routes)
    PROVE  Best(IF GivesWay(e, c) THEN c ELSE e, routes \cup {c})
<1>1. e \in Entry /\ e \in routes /\ \A x \in routes : x \in Entry /\ ~Better(x, e)
  BY DEF Best
<1>2. CASE GivesWay(e, c)
  <2>1. ~Better(e, c)
    BY <1>1, <1>2, GivesWayToBetter
  <2>2. \A x \in routes \cup {c} : ~Better(x, c)
    BY <1>1, <2>1, BetterIsOrder
  <2>3. ASSUME \A x \in routes \cup {c} : Alike(x, c) => x.msg.origin = c.msg.origin,
               NEW x \in routes \cup {c}, Alike(x, c)
        PROVE  c.from <= x.from
    <3>1. CASE x = c
      BY <3>1, EntryRanks
    <3>2. CASE x \in routes
      <4>1. Alike(c, e) /\ Alike(e, c)
        BY <1>1, <2>1, <2>3, <3>2, BetterIsOrder
      <4>2. \A y \in routes : Alike(y, e) => Alike(y, c)
        BY <1>1, <4>1, BetterIsOrder
      <4>3. e.msg.origin = c.msg.origin
        BY <1>1, <2>3, <4>1
      <4>4. \A y \in routes : Alike(y, e) => y.msg.origin = e.msg.origin
        BY <2>3, <4>2, <4>3
      <4>5. Alike(x, e)
        BY <1>1, <2>3, <3>2, <4>1, BetterIsOrder
      <4>6. e.from <= x.from
        BY <3>2, <4>4, <4>5 DEF Best
      <4>7. ~(e.from < c.from)
        BY <1>1, <1>2, <4>1, <4>3, GivesWayToBetter
      <4>8. e.from \in Int /\ c.from \in Int /\ x.from \in Int
        BY <1>1, <3>2, EntryRanks
      <4> QED BY <4>6, <4>7, <4>8
    <3> QED BY <3>1, <3>2
  <2> QED BY <1>2, <2>2, <2>3 DEF Best
<1>3. CASE ~GivesWay(e, c)
  <2>1. ~Better(c, e)
    BY <1>1, <1>3, GivesWayToBetter
  <2>2. ASSUME \A x \in routes \cup {c} : Alike(x, e) => x.msg.origin = e.msg.origin,
               NEW x \in routes \cup {c}, Alike(x, e)
        PROVE  e.from <= x.from
    <3>1. CASE x \in routes
      BY <2>2, <3>1 DEF Best
    <3>2. CASE x = c
      <4>1. e.from < c.from
        BY <1>1, <1>3, <2>2, <3>2, GivesWayToBetter
      <4> QED BY <1>1, <3>2, <4>1, EntryRanks
    <3> QED BY <3>1, <3>2
  <2> QED BY <1>1, <1>3, <2>1, <2>2 DEF Best
<1> QED BY <1>2, <1>3

-----------------------------------------------------------------------------
(* The loop of DataPacketHandler.process finds a best route, or that there *)
(* is none, whatever the order of the table.                               *)
RoutesAt(table, a, S) == {table[i] : i \in {j \in S : matched_subnet(a, table[j].msg)}}

Found(best, routes) == \/ routes = {} /\ best = <<>>
                       \/ \E e \in routes : best = <<e>> /\ Best(e, routes)

(* A table of any length is gone through in order of its places.           *)
LEMMA LoopFindsBest ==
    ASSUME NEW table \in Seq(Entry), NEW a
    PROVE  Found(BestRoute(table, a), Candidates(table, a))
<1> DEFINE D == 1..Len(table)
           X == {<<>>} \cup {<<e>> : e \in Entry}
           pick == [S \in (SUBSET D) \ {{}} |-> Max(S)]
           Turn(i, best) ==
              IF matched_subnet(a, table[i].msg)
                 /\ \/ best = <<>>
                    \/ table[i].msg.length > best[1].msg.length
                    \/ table[i].msg.length = best[1].msg.length /\ ~Keeps(best[1], table[i])
              THEN <<table[i]>> ELSE best
           step == [i \in D |-> [best \in X |-> Turn(i, best)]]
           IsLoop(g) == g = [S \in SUBSET D |->
                               IF S = {} THEN <<>> ELSE Turn(Max(S), g[S \ {Max(S)}])]
           loop == CHOOSE g : IsLoop(g)
<1>1. DOMAIN table = D /\ Len(table) \in Nat /\ \A i \in D : table[i] \in Entry
  BY RangeOfTable
<1>2. BestRoute(table, a) = loop[D]
  BY <1>1 DEF BestRoute, FoldLeft, MapThenFoldSet
<1>3. IsFiniteSet(D) /\ Picks(pick, D) /\ \A S \in (SUBSET D) \ {{}} : Max(S) \in S
  BY <1>1, MaxPicks
<1>4. step \in [D -> [X -> X]] /\ <<>> \in X
  BY <1>1
<1>5. IsLoop(loop)
  <2>1. PICK g \in [SUBSET D -> X] :
           IsFold(g, D, <<>>, step, pick)
    <3> HIDE DEF D, X, pick, step
    <3> QED BY <1>3, <1>4, FoldIsDefined
  <2>2. \A S \in (SUBSET D) \ {{}} :
           step[pick[S]][g[S \ {pick[S]}]] = Turn(Max(S), g[S \ {Max(S)}])
    <3> SUFFICES ASSUME NEW S \in (SUBSET D) \ {{}}
                 PROVE  step[pick[S]][g[S \ {pick[S]}]] = Turn(Max(S), g[S \ {Max(S)}])
      OBVIOUS
    <3>1. pick[S] = Max(S) /\ Max(S) \in D /\ g[S \ {Max(S)}] \in X
      BY <1>3
    <3> HIDE DEF Turn
    <3> QED BY <3>1
  <2>3. IsLoop(g)
    <3> HIDE DEF Turn, step, pick
    <3> QED BY <2>1, <2>2 DEF IsFold
  <2> HIDE DEF IsLoop
  <2> QED BY <2>3
<1> DEFINE T == {S \in SUBSET D : Found(loop[S], RoutesAt(table, a, S))}
<1> HIDE DEF loop
<1>6. {} \in T
  BY <1>5 DEF RoutesAt, Found
<1>7. ASSUME NEW S \in (SUBSET D) \ {{}}, S \ {Max(S)} \in T PROVE S \in T
  <2> DEFINE i == Max(S)
             old == RoutesAt(table, a, S \ {i})
  <2>1. i \in S /\ i \in D /\ table[i] \in Entry
    BY <1>1, <1>3
  <2>2. loop[S] = Turn(i, loop[S \ {i}]) /\ Found(loop[S \ {i}], old)
    <3> HIDE DEF Turn
    <3> QED BY <1>5, <1>7
  <2>3. RoutesAt(table, a, S) = old \cup {table[j] : j \in {k \in {i} : matched_subnet(a, table[k].msg)}}
    BY <2>1 DEF RoutesAt
  <2>4. old \in SUBSET Entry
    BY <1>1 DEF RoutesAt
  <2> HIDE DEF i, old
  <2>5. CASE ~matched_subnet(a, table[i].msg)
    BY <2>2, <2>3, <2>5
  <2>6. CASE matched_subnet(a, table[i].msg) /\ old = {}
    <3>1. loop[S] = <<table[i]>> /\ RoutesAt(table, a, S) = {table[i]}
      BY <2>2, <2>3, <2>6 DEF Found
    <3>2. Best(table[i], {table[i]})
      BY <2>1, BetterIsOrder, EntryRanks DEF Best
    <3> QED BY <3>1, <3>2 DEF Found
  <2>7. CASE matched_subnet(a, table[i].msg) /\ old # {}
    <3>1. PICK e \in old : loop[S \ {i}] = <<e>> /\ Best(e, old)
      BY <2>2, <2>7 DEF Found
    <3>2. <<e>> # <<>> /\ <<e>>[1] = e
      OBVIOUS
    <3>3. loop[S] = <<IF GivesWay(e, table[i]) THEN table[i] ELSE e>>
      BY <2>2, <2>7, <3>1, <3>2 DEF GivesWay
    <3>4. RoutesAt(table, a, S) = old \cup {table[i]}
      BY <2>3, <2>7
    <3>5. Best(IF GivesWay(e, table[i]) THEN table[i] ELSE e, old \cup {table[i]})
      BY <2>1, <2>4, <3>1, BestOfOneMore
    <3> QED BY <3>3, <3>4, <3>5 DEF Found, Best
  <2> QED BY <2>5, <2>6, <2>7
<1>8. D \in T
  <2>1. \A S \in (SUBSET D) \ {{}} : S \ {pick[S]} \in T => S \in T
    <3> HIDE DEF T
    <3> QED BY <1>7
  <2> HIDE DEF T, D, pick
  <2> QED BY <1>3, <1>6, <2>1, SubsetInduction
<1>9. RoutesAt(table, a, D) = Candidates(table, a)
  BY <1>1 DEF RoutesAt, Candidates, ToSet
<1> QED BY <1>2, <1>8, <1>9

-----------------------------------------------------------------------------
(* The types, and what each part of the state may hold.                    *)

Entries(n) == {e.msg : e \in {x \in ToSet(forwarding_table) : x.from = n}}

RouterEntry == {e \in Entry : e.from \in Neighbors /\ e.msg \in Announcements[e.from]}

FinitePrefixes == {P \in SUBSET PrefixSet : IsFiniteSet(P)}

PacketsOf(n) ==
    {[type |-> UPDATE, body |-> m] : m \in Announcements[n]}
      \cup {[type |-> WITHDRAW, body |-> P] : P \in FinitePrefixes}
      \cup {[type |-> DATA, body |-> a] : a \in Endpoints}
      \cup {[type |-> DUMP, body |-> {}]}

GoodTable == forwarding_table \in Seq(RouterEntry) /\ EachOnce(forwarding_table)
GoodInbox == /\ DOMAIN inbox = Neighbors
             /\ inbox = [n \in Neighbors |-> inbox[n]]
             /\ \A n \in Neighbors : inbox[n] \in Seq(PacketsOf(n))
GoodNets  == /\ nets = [n \in Neighbors |-> nets[n]]
             /\ \A n \in Neighbors : nets[n] \subseteq Announcements[n] /\ IsFiniteSet(nets[n])
GoodTold  == /\ told \in [Neighbors -> SUBSET PrefixSet]
             /\ revoked_addresses \in [Neighbors -> SUBSET PrefixSet]
GoodSent  == \A packet \in sent : packet.to \in Neighbors

RInv == GoodTable /\ GoodInbox /\ GoodNets /\ GoodTold /\ GoodSent

(* What a neighbor announces is an update message, and makes an entry.     *)
LEMMA AnnouncementTypes ==
    ASSUME NEW n \in Neighbors, NEW m \in Announcements[n]
    PROVE  /\ m \in UpdateMsg /\ Prefix(m) \in PrefixSet /\ n \in Nat
           /\ [msg |-> m, from |-> n] \in RouterEntry
<1>1. m \in UpdateMsg /\ n \in Nat
  BY AnnouncementAssumption, NeighborAssumption
<1> QED BY <1>1 DEF UpdateMsg, Prefix, PrefixSet, RouterEntry, Entry

(* The type of a packet says what its body is.                             *)
LEMMA PacketKinds ==
    ASSUME NEW n \in Neighbors, NEW pkt \in PacketsOf(n)
    PROVE  /\ pkt.type \in {UPDATE, WITHDRAW, DATA, DUMP}
           /\ pkt.type = UPDATE => pkt.body \in Announcements[n]
           /\ pkt.type = WITHDRAW => pkt.body \in FinitePrefixes
BY DEF PacketsOf, UPDATE, WITHDRAW, DATA, DUMP

(* A packet is put behind those of its neighbor.                           *)
LEMMA PostedInbox ==
    ASSUME GoodInbox, NEW n \in Neighbors, NEW type, NEW body, Post(n, type, body)
    PROVE  /\ inbox' = [k \in Neighbors |-> inbox'[k]]
           /\ \A k \in Neighbors \ {n} : inbox'[k] = inbox[k]
           /\ DOMAIN inbox'[n] = 1 .. Len(inbox[n]) + 1
           /\ DOMAIN inbox[n] = 1 .. Len(inbox[n]) /\ Len(inbox[n]) \in Nat
           /\ \A i \in DOMAIN inbox[n] : inbox'[n][i] = inbox[n][i]
           /\ inbox'[n][Len(inbox[n]) + 1] = [type |-> type, body |-> body]
           /\ [type |-> type, body |-> body] \in PacketsOf(n) => GoodInbox'
<1> DEFINE pkt == [type |-> type, body |-> body]
<1>1. inbox' = [inbox EXCEPT ![n] = Append(inbox[n], pkt)]
  BY DEF Post
<1> HIDE DEF pkt
<1>2. /\ inbox'[n] = Append(inbox[n], pkt)
      /\ \A k \in Neighbors \ {n} : inbox'[k] = inbox[k]
      /\ inbox' = [k \in Neighbors |-> inbox'[k]] /\ DOMAIN inbox' = Neighbors
  BY <1>1 DEF GoodInbox
<1>3. inbox[n] \in Seq(PacketsOf(n) \cup {pkt})
  BY SeqMonotonic DEF GoodInbox
<1>4. /\ Append(inbox[n], pkt) \in Seq(PacketsOf(n) \cup {pkt})
      /\ Len(Append(inbox[n], pkt)) = Len(inbox[n]) + 1
      /\ \A i \in 1..Len(inbox[n]) : Append(inbox[n], pkt)[i] = inbox[n][i]
      /\ Append(inbox[n], pkt)[Len(inbox[n]) + 1] = pkt
  BY <1>3, AppendProperties
<1>5. /\ Len(inbox[n]) \in Nat /\ DOMAIN inbox[n] = 1..Len(inbox[n])
      /\ DOMAIN inbox'[n] = 1 .. Len(inbox[n]) + 1
  BY <1>2, <1>3, <1>4, LenProperties
<1>6. ASSUME pkt \in PacketsOf(n) PROVE GoodInbox'
  <2>1. PacketsOf(n) \cup {pkt} = PacketsOf(n)
    BY <1>6
  <2>2. inbox'[n] \in Seq(PacketsOf(n))
    BY <1>2, <1>4, <2>1
  <2> QED BY <1>2, <2>2 DEF GoodInbox, PacketsOf
<1> QED BY <1>2, <1>4, <1>5, <1>6 DEF pkt

(* A packet is taken from the front.                                       *)
LEMMA TakenInbox ==
    ASSUME GoodInbox, NEW n \in Neighbors, NEW type, Takes(n, type)
    PROVE  /\ inbox[n][1] \in PacketsOf(n) /\ inbox[n][1] = Head(inbox[n])
           /\ inbox[n][1].type = type
           /\ 1 \in DOMAIN inbox[n]
           /\ Len(inbox[n]) \in Nat /\ DOMAIN inbox[n] = 1..Len(inbox[n])
           /\ \A k \in Neighbors \ {n} : inbox'[k] = inbox[k]
           /\ DOMAIN inbox'[n] = 1 .. Len(inbox[n]) - 1
           /\ \A i \in DOMAIN inbox'[n] : i + 1 \in DOMAIN inbox[n] /\ inbox'[n][i] = inbox[n][i + 1]
           /\ \A i \in DOMAIN inbox[n] : i # 1 =>
                 i - 1 \in DOMAIN inbox'[n] /\ inbox'[n][i - 1] = inbox[n][i]
           /\ UNCHANGED nets
           /\ GoodInbox'
<1>1. inbox[n] \in Seq(PacketsOf(n)) /\ inbox[n] # <<>>
  BY DEF GoodInbox, Takes
<1>2. inbox' = [inbox EXCEPT ![n] = Tail(inbox[n])]
  BY DEF Takes
<1>3. /\ inbox'[n] = Tail(inbox[n])
      /\ \A k \in Neighbors \ {n} : inbox'[k] = inbox[k]
      /\ inbox' = [k \in Neighbors |-> inbox'[k]] /\ DOMAIN inbox' = Neighbors
  BY <1>2 DEF GoodInbox
<1>4. Len(inbox[n]) \in Nat /\ DOMAIN inbox[n] = 1..Len(inbox[n]) /\ Len(inbox[n]) >= 1
  BY <1>1, LenProperties, EmptySeq
<1>5. /\ Tail(inbox[n]) \in Seq(PacketsOf(n)) /\ Len(Tail(inbox[n])) = Len(inbox[n]) - 1
      /\ \A i \in 1 .. Len(inbox[n]) - 1 : Tail(inbox[n])[i] = inbox[n][i + 1]
      /\ Head(inbox[n]) = inbox[n][1]
  BY <1>1, <1>4, HeadTailProperties
<1>6. DOMAIN inbox'[n] = 1 .. Len(inbox[n]) - 1
  BY <1>3, <1>4, <1>5, LenProperties
<1>7. inbox[n][1] \in PacketsOf(n)
  BY <1>1, <1>4, ElementOfSeq
<1>8. ASSUME NEW i \in DOMAIN inbox[n], i # 1
      PROVE  i - 1 \in DOMAIN inbox'[n] /\ inbox'[n][i - 1] = inbox[n][i]
  <2>1. i - 1 \in 1 .. Len(inbox[n]) - 1 /\ (i - 1) + 1 = i
    BY <1>4, <1>8
  <2> QED BY <1>3, <1>5, <1>6, <2>1
<1>9. GoodInbox'
  BY <1>3, <1>5 DEF GoodInbox, PacketsOf
<1>10. inbox[n][1].type = type /\ UNCHANGED nets
  BY <1>5 DEF Takes
<1>11. \A i \in DOMAIN inbox'[n] : i + 1 \in DOMAIN inbox[n] /\ inbox'[n][i] = inbox[n][i + 1]
  BY <1>3, <1>4, <1>5, <1>6
<1> QED BY <1>3, <1>4, <1>5, <1>6, <1>7, <1>8, <1>9, <1>10, <1>11

-----------------------------------------------------------------------------
(* Every action keeps the types.                                           *)

LEMMA KeepsPost ==
    ASSUME RInv, NEW n \in Neighbors, NEW type, NEW body, Post(n, type, body),
           [type |-> type, body |-> body] \in PacketsOf(n)
    PROVE  GoodTable' /\ GoodInbox' /\ GoodTold' /\ GoodSent'
<1>1. GoodInbox'
  BY PostedInbox DEF RInv
<1>2. sent' = {} /\ UNCHANGED <<forwarding_table, revoked_addresses, told>>
  BY DEF Post
<1> QED BY <1>1, <1>2 DEF RInv, GoodTable, GoodTold, GoodSent

(* An update is sent.                                                      *)
LEMMA KeepsAnnounce ==
    ASSUME RInv, NEW n \in Neighbors, NEW m \in Announcements[n], Announce(n, m)
    PROVE  RInv'
<1>1. [type |-> UPDATE, body |-> m] \in PacketsOf(n)
  BY DEF PacketsOf
<1>2. Post(n, UPDATE, m)
  BY DEF Announce
<1> DEFINE known == {x \in nets[n] : Prefix(x) = Prefix(m)}
           new == (nets[n] \ known) \cup {m}
<1>3. nets' = [nets EXCEPT ![n] = new]
  BY DEF Announce
<1>4. IsFiniteSet(nets[n] \ known)
  BY FS_Subset DEF RInv, GoodNets
<1>5. IsFiniteSet(new) /\ new \subseteq Announcements[n]
  BY <1>4, FS_AddElement DEF RInv, GoodNets
<1> HIDE DEF new
<1>6. GoodNets'
  BY <1>3, <1>5 DEF RInv, GoodNets
<1> QED BY <1>1, <1>2, <1>6, KeepsPost DEF RInv

(* A withdrawal names finitely many networks.                              *)
LEMMA PrefixesFinite ==
    ASSUME RInv, NEW n \in Neighbors, NEW P \in SUBSET {Prefix(m) : m \in nets[n]}
    PROVE  P \in FinitePrefixes
<1>1. IsFiniteSet(nets[n]) /\ nets[n] \subseteq Announcements[n]
  BY DEF RInv, GoodNets
<1> DEFINE f == [m \in nets[n] |-> Prefix(m)]
<1>2. f \in Surjection(nets[n], {Prefix(m) : m \in nets[n]})
  BY DEF Surjection
<1>3. IsFiniteSet({Prefix(m) : m \in nets[n]})
  BY <1>1, <1>2, FS_Surjection
<1>4. IsFiniteSet(P)
  BY <1>3, FS_Subset
<1>5. P \subseteq PrefixSet
  BY <1>1, AnnouncementTypes
<1> QED BY <1>4, <1>5 DEF FinitePrefixes

(* A withdrawal is sent.                                                   *)
LEMMA KeepsWithdraw ==
    ASSUME RInv, NEW n \in Neighbors, NEW P \in SUBSET {Prefix(m) : m \in nets[n]},
           Withdraw(n, P)
    PROVE  RInv'
<1>1. [type |-> WITHDRAW, body |-> P] \in PacketsOf(n)
  BY PrefixesFinite DEF PacketsOf
<1>2. Post(n, WITHDRAW, P)
  BY DEF Withdraw
<1> DEFINE new == {x \in nets[n] : Prefix(x) \notin P}
<1>3. nets' = [nets EXCEPT ![n] = new]
  BY DEF Withdraw
<1>4. IsFiniteSet(new) /\ new \subseteq Announcements[n]
  BY FS_Subset DEF RInv, GoodNets
<1> HIDE DEF new
<1>5. GoodNets'
  BY <1>3, <1>4 DEF RInv, GoodNets
<1> QED BY <1>1, <1>2, <1>5, KeepsPost DEF RInv

(* Data or a request for a dump is sent.                                   *)
LEMMA KeepsSend ==
    ASSUME RInv, NEW n \in Neighbors,
           (\E a \in Endpoints : SendData(n, a)) \/ SendDump(n)
    PROVE  RInv'
<1>1. \A a \in Endpoints : [type |-> DATA, body |-> a] \in PacketsOf(n)
  BY DEF PacketsOf
<1>2. [type |-> DUMP, body |-> {}] \in PacketsOf(n)
  BY DEF PacketsOf
<1>3. UNCHANGED nets
  BY DEF SendData, SendDump
<1>4. GoodNets'
  BY <1>3 DEF RInv, GoodNets
<1>5. CASE \E a \in Endpoints : SendData(n, a)
  BY <1>1, <1>4, <1>5, KeepsPost DEF RInv, SendData
<1>6. CASE SendDump(n)
  BY <1>2, <1>4, <1>6, KeepsPost DEF RInv, SendDump
<1> QED BY <1>5, <1>6

(* A packet that is taken has a body of its type.                          *)
LEMMA KeepsTake ==
    ASSUME RInv, NEW n \in Neighbors, NEW type, Takes(n, type)
    PROVE  /\ GoodInbox' /\ GoodNets'
           /\ type = UPDATE => Head(inbox[n]).body \in Announcements[n]
           /\ type = WITHDRAW => Head(inbox[n]).body \in FinitePrefixes
<1>1. /\ GoodInbox' /\ UNCHANGED nets
      /\ inbox[n][1] \in PacketsOf(n) /\ inbox[n][1] = Head(inbox[n])
      /\ inbox[n][1].type = type
  BY TakenInbox DEF RInv
<1>2. GoodNets'
  BY <1>1 DEF RInv, GoodNets
<1> QED BY <1>1, <1>2, PacketKinds

(* An update is handled.                                                   *)
LEMMA KeepsHandleUpdate ==
    ASSUME RInv, NEW n \in Neighbors, HandleUpdate(n)
    PROVE  RInv'
<1> DEFINE m == Head(inbox[n]).body
           ping == [network |-> m.network, length |-> m.length,
                    ASPath |-> <<ASN>> \o m.ASPath]
<1>1. Takes(n, UPDATE)
  BY DEF HandleUpdate
<1>2. GoodInbox' /\ GoodNets' /\ m \in Announcements[n]
  BY <1>1, KeepsTake
<1>3. /\ forwarding_table' = Stored(forwarding_table, m, n)
      /\ sent' = {Packet(k, UPDATE, ping) : k \in Informed(n)}
      /\ told' = [k \in Neighbors |->
              IF k \in Informed(n) THEN told[k] \cup {Prefix(m)} ELSE told[k]]
      /\ UNCHANGED revoked_addresses
  BY DEF HandleUpdate
<1> HIDE DEF m, ping
<1>4. [msg |-> m, from |-> n] \in RouterEntry /\ Prefix(m) \in PrefixSet
  BY <1>2, AnnouncementTypes
<1>5. GoodTable'
  BY <1>3, <1>4, StoredEntries DEF RInv, GoodTable
<1>6. GoodTold'
  BY <1>3, <1>4 DEF RInv, GoodTold
<1>7. GoodSent'
  BY <1>3 DEF GoodSent, Informed, Packet
<1> QED BY <1>2, <1>5, <1>6, <1>7 DEF RInv

(* What a withdrawal leaves of the table.                                  *)
LEMMA WithdrawnTable ==
    ASSUME RInv, NEW n \in Neighbors, HandleWithdraw(n)
    PROVE  LET P == Head(inbox[n]).body
           IN  /\ P \in FinitePrefixes
               /\ Left(RouterEntry, forwarding_table, n, P, forwarding_table')
<1> DEFINE P == Head(inbox[n]).body
<1>1. P \in FinitePrefixes
  BY KeepsTake DEF HandleWithdraw
<1>2. forwarding_table' = WithdrawnSet(forwarding_table, n, P)
  BY DEF HandleWithdraw, WithdrawnSet
<1> HIDE DEF P
<1>3. IsFiniteSet(P)
  BY <1>1 DEF FinitePrefixes
<1>4. Left(RouterEntry, forwarding_table, n, P, WithdrawnSet(forwarding_table, n, P))
  BY <1>3, WithdrawnSetLeaves DEF RInv, GoodTable
<1>5. Left(RouterEntry, forwarding_table, n, P, forwarding_table')
  BY <1>2, <1>4
<1> QED BY <1>1, <1>5 DEF P

(* A withdrawal is handled.                                                *)
LEMMA KeepsHandleWithdraw ==
    ASSUME RInv, NEW n \in Neighbors, HandleWithdraw(n)
    PROVE  RInv'
<1> DEFINE P == Head(inbox[n]).body
<1>1. /\ Takes(n, WITHDRAW)
      /\ revoked_addresses' = [revoked_addresses EXCEPT ![n] = @ \cup P]
      /\ sent' = {Packet(k, WITHDRAW, P) : k \in Informed(n)}
      /\ told' = [k \in Neighbors |->
              IF k \in Informed(n) THEN told[k] \ P ELSE told[k]]
  BY DEF HandleWithdraw
<1>2. GoodInbox' /\ GoodNets'
  BY <1>1, KeepsTake
<1>3. P \in FinitePrefixes /\ Left(RouterEntry, forwarding_table, n, P, forwarding_table')
  BY WithdrawnTable
<1> HIDE DEF P
<1>4. GoodTable'
  BY <1>3 DEF GoodTable, Left
<1>5. GoodTold'
  BY <1>1, <1>3 DEF RInv, GoodTold, FinitePrefixes
<1>6. GoodSent'
  BY <1>1 DEF GoodSent, Informed, Packet
<1> QED BY <1>2, <1>4, <1>5, <1>6 DEF RInv

(* What the router finds for an address is an entry that matches, or       *)
(* nothing when none does.                                                 *)
LEMMA RouteFound ==
    ASSUME GoodTable, NEW a
    PROVE  /\ Found(BestRoute(forwarding_table, a), Candidates(forwarding_table, a))
           /\ Candidates(forwarding_table, a) \subseteq RouterEntry
           /\ \A e : BestRoute(forwarding_table, a) = <<e>> =>
                 /\ e \in Candidates(forwarding_table, a)
                 /\ Best(e, Candidates(forwarding_table, a))
           /\ BestRoute(forwarding_table, a) = <<>> <=> Candidates(forwarding_table, a) = {}
           /\ BestRoute(forwarding_table, a) # <<>> =>
                 BestRoute(forwarding_table, a) = <<BestRoute(forwarding_table, a)[1]>>
<1> DEFINE best == BestRoute(forwarding_table, a)
           routes == Candidates(forwarding_table, a)
<1>1. forwarding_table \in Seq(Entry)
  BY SeqMonotonic DEF GoodTable, RouterEntry
<1>2. Found(best, routes)
  BY <1>1, LoopFindsBest
<1>3. routes \subseteq RouterEntry
  BY RangeOfTable DEF GoodTable, Candidates
<1> HIDE DEF best, routes
<1>4. \A d, e : <<d>> = <<e>> => d = e
  OBVIOUS
<1>5. \A e : <<e>> # <<>> /\ <<e>>[1] = e
  OBVIOUS
<1> QED BY <1>2, <1>3, <1>4, <1>5 DEF Found, best, routes

(* The answer to data: nothing, the data for the next neighbor, or a       *)
(* refusal for the one who sent it.                                        *)
LEMMA AnswerKinds ==
    ASSUME GoodTable, NEW n \in Neighbors, NEW a
    PROVE  LET next == BestRoute(forwarding_table, a)[1].from
           IN  /\ Answer(n, a) = {} <=> Candidates(forwarding_table, a) = {}
               /\ Answer(n, a) # {} => next \in Neighbors
               /\ \A packet \in Answer(n, a) :
                     \/ packet.to = n /\ packet.type = ROUTELESS
                     \/ packet.to = next /\ packet.type = DATA /\ packet.body = a
               /\ Answer(n, a) # {} /\ (Relation[n] = CUSTOMER \/ Relation[next] = CUSTOMER)
                     => Answer(n, a) = {Packet(next, DATA, a)}
               /\ Answer(n, a) # {} /\ ~(Relation[n] = CUSTOMER \/ Relation[next] = CUSTOMER)
                     => Answer(n, a) = {Packet(n, ROUTELESS, a)}
<1> DEFINE best == BestRoute(forwarding_table, a)
<1>1. best = <<>> => Answer(n, a) = {}
  BY DEF Answer
<1>2. best = <<>> <=> Candidates(forwarding_table, a) = {}
  BY RouteFound
<1>3. ASSUME best # <<>>
      PROVE  /\ best[1].from \in Neighbors
             /\ Relation[n] = CUSTOMER \/ Relation[best[1].from] = CUSTOMER
                  => Answer(n, a) = {Packet(best[1].from, DATA, a)}
             /\ ~(Relation[n] = CUSTOMER \/ Relation[best[1].from] = CUSTOMER)
                  => Answer(n, a) = {Packet(n, ROUTELESS, a)}
  <2>1. best[1] \in RouterEntry
    BY <1>3, RouteFound
  <2>2. best[1].from \in Neighbors
    BY <2>1 DEF RouterEntry
  <2> QED BY <1>3, <2>2 DEF Answer
<1>4. best # <<>> => Answer(n, a) # {}
  BY <1>3
<1>5. DATA # ROUTELESS
  BY DEF DATA, ROUTELESS
<1> DEFINE next == best[1].from
<1>6. \A packet \in {Packet(n, ROUTELESS, a), Packet(next, DATA, a)} :
         \/ packet.to = n /\ packet.type = ROUTELESS
         \/ packet.to = next /\ packet.type = DATA /\ packet.body = a
  BY DEF Packet
<1> HIDE DEF best
<1>7. Answer(n, a) \subseteq {Packet(n, ROUTELESS, a), Packet(next, DATA, a)}
  BY <1>1, <1>3
<1> HIDE DEF next
<1>8. /\ Answer(n, a) = {} <=> Candidates(forwarding_table, a) = {}
      /\ Answer(n, a) # {} => next \in Neighbors
      /\ \A packet \in Answer(n, a) :
            \/ packet.to = n /\ packet.type = ROUTELESS
            \/ packet.to = next /\ packet.type = DATA /\ packet.body = a
      /\ Answer(n, a) # {} /\ (Relation[n] = CUSTOMER \/ Relation[next] = CUSTOMER)
            => Answer(n, a) = {Packet(next, DATA, a)}
      /\ Answer(n, a) # {} /\ ~(Relation[n] = CUSTOMER \/ Relation[next] = CUSTOMER)
            => Answer(n, a) = {Packet(n, ROUTELESS, a)}
  BY <1>1, <1>2, <1>3, <1>4, <1>6, <1>7 DEF next
<1> QED BY <1>8 DEF next, best

(* Data or a request for a dump is handled.                                *)
LEMMA KeepsHandleOther ==
    ASSUME RInv, NEW n \in Neighbors, HandleData(n) \/ HandleDump(n)
    PROVE  RInv'
<1>1. /\ Takes(n, DATA) \/ Takes(n, DUMP)
      /\ UNCHANGED <<forwarding_table, revoked_addresses, told>>
  BY DEF HandleData, HandleDump
<1>2. GoodInbox' /\ GoodNets'
  BY <1>1, KeepsTake
<1>3. GoodTable' /\ GoodTold'
  BY <1>1 DEF RInv, GoodTable, GoodTold
<1>4. GoodSent'
  <2>1. CASE HandleData(n)
    <3>1. sent' = Answer(n, Head(inbox[n]).body)
      BY <2>1 DEF HandleData
    <3> QED BY <3>1, AnswerKinds DEF RInv, GoodSent
  <2>2. CASE HandleDump(n)
    BY <2>2 DEF HandleDump, GoodSent, Packet
  <2> QED BY <2>1, <2>2
<1> QED BY <1>2, <1>3, <1>4 DEF RInv

(* The invariant holds at first.                                           *)
LEMMA RInvInit == Init => RInv
<1> SUFFICES ASSUME Init PROVE RInv
  OBVIOUS
<1>1. forwarding_table \in Seq(RouterEntry) /\ DOMAIN forwarding_table = {}
  BY EmptySeq DEF Init
<1>2. GoodTable
  BY <1>1 DEF GoodTable, EachOnce
<1>3. GoodInbox
  <2>1. \A n \in Neighbors : <<>> \in Seq(PacketsOf(n))
    BY EmptySeq
  <2> QED BY <2>1 DEF Init, GoodInbox
<1>4. GoodNets
  BY FS_EmptySet DEF Init, GoodNets
<1>5. GoodTold /\ GoodSent
  BY DEF Init, GoodTold, GoodSent
<1> QED BY <1>2, <1>3, <1>4, <1>5 DEF RInv

(* Every step keeps it.                                                    *)
LEMMA RInvNext == RInv /\ [Next]_vars => RInv'
<1> SUFFICES ASSUME RInv, [Next]_vars PROVE RInv'
  OBVIOUS
<1>1. CASE UNCHANGED vars
  BY <1>1 DEF vars, RInv, GoodTable, GoodInbox, GoodNets, GoodTold, GoodSent
<1>2. ASSUME NEW n \in Neighbors, NEW m \in Announcements[n], Announce(n, m) PROVE RInv'
  BY <1>2, KeepsAnnounce
<1>3. ASSUME NEW n \in Neighbors, NEW P \in SUBSET {Prefix(m) : m \in nets[n]}, Withdraw(n, P)
      PROVE  RInv'
  BY <1>3, KeepsWithdraw
<1>4. ASSUME NEW n \in Neighbors, (\E a \in Endpoints : SendData(n, a)) \/ SendDump(n)
      PROVE  RInv'
  BY <1>4, KeepsSend
<1>5. ASSUME NEW n \in Neighbors, HandleUpdate(n) PROVE RInv'
  BY <1>5, KeepsHandleUpdate
<1>6. ASSUME NEW n \in Neighbors, HandleWithdraw(n) PROVE RInv'
  BY <1>6, KeepsHandleWithdraw
<1>7. ASSUME NEW n \in Neighbors, HandleData(n) \/ HandleDump(n) PROVE RInv'
  BY <1>7, KeepsHandleOther
<1> QED BY <1>1, <1>2, <1>3, <1>4, <1>5, <1>6, <1>7 DEF Next

(* The state of the router and its neighbors is always of these types.     *)
THEOREM RouterInvariance == Spec => []RInv
BY RInvInit, RInvNext, PTL DEF Spec

(* The type invariant that the runs check is part of it.                   *)
LEMMA RInvTypes == RInv => RouterTypeOK
<1> SUFFICES ASSUME RInv PROVE RouterTypeOK
  OBVIOUS
<1>1. RouterEntry \subseteq [msg : UpdateMsg, from : Neighbors]
  BY DEF RouterEntry, Entry
<1>2. forwarding_table \in Seq([msg : UpdateMsg, from : Neighbors])
  BY <1>1, SeqMonotonic DEF RInv, GoodTable
<1>3. ASSUME NEW n \in Neighbors, NEW i \in DOMAIN inbox[n]
      PROVE  inbox[n][i].type \in {UPDATE, WITHDRAW, DATA, DUMP}
  <2>1. inbox[n][i] \in PacketsOf(n)
    BY RangeOfTable DEF RInv, GoodInbox
  <2> QED BY <2>1, PacketKinds
<1> QED BY <1>2, <1>3 DEF RouterTypeOK, RInv, GoodTable, GoodInbox, GoodNets, GoodTold,
                          GoodSent, EachOnce

(* The variables have their types, and no message is twice in the table.   *)
THEOREM RouterTypeCorrect == Spec => []RouterTypeOK
BY RouterInvariance, RInvTypes, PTL

-----------------------------------------------------------------------------
(* The route taken.                                                        *)

LEMMA FirstRules ==
    ASSUME NEW e \in Entry
    PROVE  /\ Rules(e) \in Seq(Int) /\ Len(Rules(e)) = 4 /\ DOMAIN Rules(e) = 1..4
           /\ Rules(e)[1] = -e.msg.length /\ Rules(e)[2] = -e.msg.localpref
           /\ Rules(e)[3] = OwnRank(e) /\ Rules(e)[4] = Len(e.msg.ASPath)
<1>1. /\ e.msg.length \in Int /\ e.msg.localpref \in Int
      /\ OwnRank(e) \in Int /\ Len(e.msg.ASPath) \in Int /\ e.from \in Int
  BY EntryRanks
<1>2. OriginRank[e.msg.origin] \in Int
  <2>1. e.msg.origin \in {IGP, EGP, UNK}
    BY DEF Entry, UpdateMsg
  <2> QED BY <2>1 DEF OriginRank, IGP, EGP, UNK
<1> DEFINE o == OriginRank[e.msg.origin]
           l == Len(e.msg.ASPath)
           r == <<-e.msg.length, -e.msg.localpref, OwnRank(e), l, o, e.from>>
<1>3. Rank(e) = r
  BY DEF Rank, OwnRank
<1> HIDE DEF o, l
<1>4. /\ r \in Seq(Int) /\ Len(r) = 6
      /\ r[1] = -e.msg.length /\ r[2] = -e.msg.localpref /\ r[3] = OwnRank(e) /\ r[4] = l
  BY <1>1, <1>2 DEF o, l
<1> HIDE DEF r
<1>5. /\ SubSeq(r, 1, 4) \in Seq(Int)
      /\ Len(SubSeq(r, 1, 4)) = 4
      /\ \A i \in 1..4 : SubSeq(r, 1, 4)[i] = r[i]
  <2>1. \A i \in 1..4 : r[i] \in Int
    <3>1. \A i \in 1..4 : i = 1 \/ i = 2 \/ i = 3 \/ i = 4
      OBVIOUS
    <3>2. r[1] \in Int /\ r[2] \in Int /\ r[3] \in Int /\ r[4] \in Int
      BY <1>1, <1>4 DEF l
    <3> QED BY <3>1, <3>2
  <2>2. /\ SubSeq(r, 1, 4) \in Seq(Int)
        /\ Len(SubSeq(r, 1, 4)) = IF 1 <= 4 THEN 4 - 1 + 1 ELSE 0
        /\ \A i \in 1 .. 4 - 1 + 1 : SubSeq(r, 1, 4)[i] = r[1 + i - 1]
    BY <2>1, SubSeqProperties
  <2> QED BY <2>2
<1>6. Rules(e) = SubSeq(r, 1, 4)
  BY <1>3 DEF Rules
<1>7. DOMAIN SubSeq(r, 1, 4) = 1..4
  BY <1>5, LenProperties
<1> QED BY <1>4, <1>5, <1>6, <1>7 DEF l

(* Rules compares entries as Better and Alike do.                          *)
LEMMA RulesAreAlike ==
    ASSUME NEW x \in Entry, NEW e \in Entry
    PROVE  /\ Rules(x) = Rules(e) <=> Alike(x, e)
           /\ Before(Rules(x), Rules(e)) => Better(x, e)
<1>1. /\ x.msg.length \in Int /\ x.msg.localpref \in Int
      /\ OwnRank(x) \in Int /\ Len(x.msg.ASPath) \in Int
  BY EntryRanks
<1>2. /\ e.msg.length \in Int /\ e.msg.localpref \in Int
      /\ OwnRank(e) \in Int /\ Len(e.msg.ASPath) \in Int
  BY EntryRanks
<1>3. /\ Rules(x) \in Seq(Int) /\ Len(Rules(x)) = 4 /\ DOMAIN Rules(x) = 1..4
      /\ Rules(x)[1] = -x.msg.length /\ Rules(x)[2] = -x.msg.localpref
      /\ Rules(x)[3] = OwnRank(x) /\ Rules(x)[4] = Len(x.msg.ASPath)
  BY FirstRules
<1>4. /\ Rules(e) \in Seq(Int) /\ Len(Rules(e)) = 4 /\ DOMAIN Rules(e) = 1..4
      /\ Rules(e)[1] = -e.msg.length /\ Rules(e)[2] = -e.msg.localpref
      /\ Rules(e)[3] = OwnRank(e) /\ Rules(e)[4] = Len(e.msg.ASPath)
  BY FirstRules
<1>5. Alike(x, e) <=> \A i \in 1..4 : Rules(x)[i] = Rules(e)[i]
  <2>1. (\A i \in 1..4 : Rules(x)[i] = Rules(e)[i]) <=>
          /\ -x.msg.length = -e.msg.length /\ -x.msg.localpref = -e.msg.localpref
          /\ OwnRank(x) = OwnRank(e) /\ Len(x.msg.ASPath) = Len(e.msg.ASPath)
    BY <1>3, <1>4
  <2>2. /\ (-x.msg.length = -e.msg.length) <=> x.msg.length = e.msg.length
        /\ (-x.msg.localpref = -e.msg.localpref) <=> x.msg.localpref = e.msg.localpref
    BY <1>1, <1>2
  <2> QED BY <2>1, <2>2 DEF Alike
<1>6. (\A i \in 1..4 : Rules(x)[i] = Rules(e)[i]) <=> Rules(x) = Rules(e)
  BY <1>3, <1>4, SeqEqual
<1>7. ASSUME Before(Rules(x), Rules(e)) PROVE Better(x, e)
  <2>1. PICK i \in 1..4 : /\ Rules(x)[i] < Rules(e)[i]
                          /\ \A j \in 1 .. i - 1 : Rules(x)[j] = Rules(e)[j]
    BY <1>3, <1>7 DEF Before
  <2>2. \/ i = 1
        \/ i = 2 /\ Rules(x)[1] = Rules(e)[1]
        \/ i = 3 /\ Rules(x)[1] = Rules(e)[1] /\ Rules(x)[2] = Rules(e)[2]
        \/ i = 4 /\ Rules(x)[1] = Rules(e)[1] /\ Rules(x)[2] = Rules(e)[2]
                 /\ Rules(x)[3] = Rules(e)[3]
    BY <2>1
  <2>3. \A u, v \in Int : (-u = -v <=> u = v) /\ (-u < -v <=> u > v)
    OBVIOUS
  <2>4. /\ -x.msg.length = -e.msg.length <=> x.msg.length = e.msg.length
        /\ -x.msg.length < -e.msg.length <=> x.msg.length > e.msg.length
        /\ -x.msg.localpref = -e.msg.localpref <=> x.msg.localpref = e.msg.localpref
        /\ -x.msg.localpref < -e.msg.localpref <=> x.msg.localpref > e.msg.localpref
    BY <1>1, <1>2, <2>3
  <2>5. /\ Rules(x)[1] = Rules(e)[1] => x.msg.length = e.msg.length
        /\ Rules(x)[1] < Rules(e)[1] => x.msg.length > e.msg.length
        /\ Rules(x)[2] = Rules(e)[2] => x.msg.localpref = e.msg.localpref
        /\ Rules(x)[2] < Rules(e)[2] => x.msg.localpref > e.msg.localpref
    BY <1>3, <1>4, <2>4
  <2>6. /\ Rules(x)[3] = Rules(e)[3] => OwnRank(x) = OwnRank(e)
        /\ Rules(x)[3] < Rules(e)[3] => OwnRank(x) < OwnRank(e)
        /\ Rules(x)[4] < Rules(e)[4] => Len(x.msg.ASPath) < Len(e.msg.ASPath)
    BY <1>3, <1>4
  <2> QED BY <2>1, <2>2, <2>5, <2>6 DEF Better
<1> QED BY <1>5, <1>6, <1>7

(* What the loop finds is what the comments promise, up to the order of    *)
(* the origins.                                                            *)
LEMMA RInvBest == RInv => BestRouteTaken
<1> SUFFICES ASSUME RInv, NEW a \in Address, Candidates(forwarding_table, a) # {}
             PROVE  LET routes == Candidates(forwarding_table, a)
                        best   == BestRoute(forwarding_table, a)
                        ties   == {x \in routes : Rules(x) = Rules(best[1])}
                    IN  /\ best # <<>>
                        /\ best[1] \in routes
                        /\ \A x \in routes : ~Before(Rules(x), Rules(best[1]))
                        /\ (\A x \in ties : x.msg.origin = best[1].msg.origin)
                              => \A x \in ties : best[1].from <= x.from
  BY DEF BestRouteTaken
<1> DEFINE routes == Candidates(forwarding_table, a)
           best == BestRoute(forwarding_table, a)
           e == best[1]
           ties == {x \in routes : Rules(x) = Rules(e)}
<1>1. best # <<>> /\ e \in routes /\ Best(e, routes) /\ routes \subseteq Entry
  BY RouteFound DEF RInv, RouterEntry
<1> HIDE DEF routes, best, e
<1>2. \A x \in routes : ~Before(Rules(x), Rules(e))
  BY <1>1, RulesAreAlike DEF Best
<1>3. ties = {x \in routes : Alike(x, e)}
  BY <1>1, RulesAreAlike
<1>4. (\A x \in ties : x.msg.origin = e.msg.origin) => \A x \in ties : e.from <= x.from
  BY <1>1, <1>3 DEF Best
<1> QED BY <1>1, <1>2, <1>4 DEF routes, best, e

(* The route taken for an address is a best one by the first four rules,   *)
(* whatever the order of the updates: _determine_best_route and its loop.  *)
THEOREM RouteIsBest == Spec => []BestRouteTaken
BY RouterInvariance, RInvBest, PTL

-----------------------------------------------------------------------------
(* What the packets of a neighbor on their way will make of its entries.   *)

(* Packet i of the packets q is an update with m; is a withdrawal of p.    *)
Brings(q, i, m) == q[i].type = UPDATE /\ q[i].body = m
Revokes(q, i, p) == q[i].type = WITHDRAW /\ p \in q[i].body

(* m will be an entry when q is handled, and no other packet comes: it is  *)
(* one of the entries E, or of the updates of q, and no withdrawal follows.*)
Outcome(q, E, m) ==
    \/ /\ m \in E
       /\ \A i \in DOMAIN q : ~Revokes(q, i, Prefix(m))
    \/ \E i \in DOMAIN q :
          /\ Brings(q, i, m)
          /\ \A j \in DOMAIN q : j > i => ~Revokes(q, j, Prefix(m))

(* Two updates of one network have a withdrawal between them, in q or in   *)
(* front of it; so the entries hold one message of each network.           *)
Apart(q) ==
    \A i, j \in DOMAIN q :
        /\ i < j /\ q[i].type = UPDATE /\ q[j].type = UPDATE
        /\ q[i].body # q[j].body /\ Prefix(q[i].body) = Prefix(q[j].body)
        => \E k \in DOMAIN q : i < k /\ k < j /\ Revokes(q, k, Prefix(q[j].body))
ApartFrom(q, E) ==
    \A m \in E : \A j \in DOMAIN q :
        /\ q[j].type = UPDATE /\ q[j].body # m /\ Prefix(q[j].body) = Prefix(m)
        => \E k \in DOMAIN q : k < j /\ Revokes(q, k, Prefix(m))
OneEach(E) == \A m, x \in E : Prefix(m) = Prefix(x) => m = x

(* The packets q turn the entries E into N, what the neighbor announces.   *)
Updates(q) == {q[i].body : i \in {j \in DOMAIN q : q[j].type = UPDATE}}
LeadsTo(q, E, N) ==
    /\ N = {m \in E \cup Updates(q) : Outcome(q, E, m)}
    /\ Apart(q) /\ ApartFrom(q, E) /\ OneEach(E)

(* The same without the bound on the messages.                             *)
LEMMA LeadsToOutcome ==
    ASSUME NEW q, NEW E, NEW N
    PROVE  LeadsTo(q, E, N) <=> /\ \A m : m \in N <=> Outcome(q, E, m)
                                /\ Apart(q) /\ ApartFrom(q, E) /\ OneEach(E)
<1>1. \A m : Outcome(q, E, m) => m \in E \cup Updates(q)
  BY DEF Outcome, Brings, Updates
<1> QED BY <1>1 DEF LeadsTo

(* r is q with a packet more at its end; with the first one taken.         *)
Appended(q, r, l, pkt) ==
    /\ l \in Nat /\ DOMAIN q = 1..l /\ DOMAIN r = 1 .. l + 1
    /\ \A i \in DOMAIN q : r[i] = q[i]
    /\ r[l + 1] = pkt
Dropped(q, r, l) ==
    /\ l \in Nat /\ DOMAIN q = 1..l /\ DOMAIN r = 1 .. l - 1
    /\ 1 \in DOMAIN q
    /\ \A i \in DOMAIN r : i + 1 \in DOMAIN q /\ r[i] = q[i + 1]
    /\ \A i \in DOMAIN q : i # 1 => i - 1 \in DOMAIN r /\ r[i - 1] = q[i]

(* The packets that were there keep their places.                          *)
LEMMA AppendedPackets ==
    ASSUME NEW q, NEW r, NEW l, NEW pkt, Appended(q, r, l, pkt)
    PROVE  /\ l + 1 \in DOMAIN r /\ l + 1 \in Int
           /\ \A i \in DOMAIN q : i \in DOMAIN r /\ i < l + 1 /\ i \in Int /\ r[i] = q[i]
           /\ \A i \in DOMAIN r : i \in DOMAIN q \/ i = l + 1
           /\ \A i \in DOMAIN q : \A x : /\ Brings(r, i, x) <=> Brings(q, i, x)
                                         /\ Revokes(r, i, x) <=> Revokes(q, i, x)
<1>1. /\ l + 1 \in DOMAIN r /\ l + 1 \in Int
      /\ \A i \in DOMAIN q : i \in DOMAIN r /\ i < l + 1 /\ i \in Int /\ r[i] = q[i]
      /\ \A i \in DOMAIN r : i \in DOMAIN q \/ i = l + 1
  BY DEF Appended
<1> QED BY <1>1 DEF Brings, Revokes

(* An update is sent, of a network of which no other message is known.     *)
LEMMA SentUpdate ==
    ASSUME NEW q, NEW r, NEW l, NEW E, NEW N, NEW m,
           LeadsTo(q, E, N), Appended(q, r, l, [type |-> UPDATE, body |-> m]),
           \A x \in N : Prefix(x) = Prefix(m) => x = m
    PROVE  LeadsTo(r, E, N \cup {m})
<1>1. /\ l + 1 \in DOMAIN r /\ l + 1 \in Int
      /\ \A i \in DOMAIN q : i \in DOMAIN r /\ i < l + 1 /\ i \in Int /\ r[i] = q[i]
      /\ \A i \in DOMAIN r : i \in DOMAIN q \/ i = l + 1
      /\ \A i \in DOMAIN q : \A x : /\ Brings(r, i, x) <=> Brings(q, i, x)
                                    /\ Revokes(r, i, x) <=> Revokes(q, i, x)
  BY AppendedPackets
<1>2. /\ r[l + 1].type = UPDATE /\ r[l + 1].body = m
      /\ \A x : (Brings(r, l + 1, x) <=> x = m) /\ ~Revokes(r, l + 1, x)
  BY DEF Appended, Brings, Revokes, UPDATE, WITHDRAW
<1>3. /\ \A x : x \in N <=> Outcome(q, E, x)
      /\ Apart(q) /\ ApartFrom(q, E) /\ OneEach(E)
  BY LeadsToOutcome
<1>4. ASSUME NEW x PROVE x \in N \cup {m} <=> Outcome(r, E, x)
  <2>1. CASE x = m
    <3>1. \A j \in DOMAIN r : ~(j > l + 1)
      BY <1>1
    <3> QED BY <1>1, <1>2, <2>1, <3>1 DEF Outcome
  <2>2. CASE x # m
    <3>1. Outcome(q, E, x) => Outcome(r, E, x)
      BY <1>1, <1>2 DEF Outcome
    <3>2. Outcome(r, E, x) => Outcome(q, E, x)
      BY <1>1, <1>2, <2>2 DEF Outcome
    <3> QED BY <1>3, <2>2, <3>1, <3>2
  <2> QED BY <2>1, <2>2
<1>5. ASSUME NEW x, x # m, Prefix(x) = Prefix(m)
      PROVE  /\ x \in E => \E k \in DOMAIN q : Revokes(q, k, Prefix(m))
             /\ \A i \in DOMAIN q : Brings(q, i, x) =>
                   \E k \in DOMAIN q : i < k /\ Revokes(q, k, Prefix(m))
  <2>1. ~Outcome(q, E, x)
    BY <1>3, <1>5
  <2> QED BY <1>1, <1>5, <2>1 DEF Outcome
<1>6. ASSUME NEW i \in DOMAIN r, NEW j \in DOMAIN r, i < j,
             r[i].type = UPDATE, r[j].type = UPDATE, r[i].body # r[j].body,
             Prefix(r[i].body) = Prefix(r[j].body)
      PROVE  \E k \in DOMAIN r : i < k /\ k < j /\ Revokes(r, k, Prefix(r[j].body))
  <2>1. i \in DOMAIN q
    BY <1>1, <1>6
  <2>2. CASE j \in DOMAIN q
    <3>1. \E k \in DOMAIN q : i < k /\ k < j /\ Revokes(q, k, Prefix(q[j].body))
      BY <1>1, <1>3, <1>6, <2>1, <2>2 DEF Apart
    <3> QED BY <1>1, <2>2, <3>1
  <2>3. CASE j = l + 1
    <3>1. Brings(q, i, r[i].body)
      BY <1>1, <1>6, <2>1 DEF Brings
    <3>2. \E k \in DOMAIN q : i < k /\ Revokes(q, k, Prefix(m))
      BY <1>2, <1>5, <1>6, <2>1, <2>3, <3>1
    <3> QED BY <1>1, <1>2, <2>3, <3>2
  <2> QED BY <1>1, <2>2, <2>3
<1>7. ASSUME NEW x \in E, NEW j \in DOMAIN r,
             r[j].type = UPDATE, r[j].body # x, Prefix(r[j].body) = Prefix(x)
      PROVE  \E k \in DOMAIN r : k < j /\ Revokes(r, k, Prefix(x))
  <2>1. CASE j \in DOMAIN q
    <3>1. \E k \in DOMAIN q : k < j /\ Revokes(q, k, Prefix(x))
      BY <1>1, <1>3, <1>7, <2>1 DEF ApartFrom
    <3> QED BY <1>1, <3>1
  <2>2. CASE j = l + 1
    <3>1. \E k \in DOMAIN q : Revokes(q, k, Prefix(m))
      BY <1>2, <1>5, <1>7, <2>2
    <3> QED BY <1>1, <1>2, <1>7, <2>2, <3>1
  <2> QED BY <1>1, <2>1, <2>2
<1>8. Apart(r)
  BY <1>6 DEF Apart
<1>9. ApartFrom(r, E)
  BY <1>7 DEF ApartFrom
<1> QED BY <1>3, <1>4, <1>8, <1>9, LeadsToOutcome

(* A packet that is no update is sent: if it is a withdrawal, its networks *)
(* are known no more.                                                      *)
LEMMA SentOther ==
    ASSUME NEW q, NEW r, NEW l, NEW E, NEW N, NEW M, NEW pkt,
           LeadsTo(q, E, N), Appended(q, r, l, pkt), pkt.type # UPDATE,
           \A x : x \in M <=> x \in N /\ ~(pkt.type = WITHDRAW /\ Prefix(x) \in pkt.body)
    PROVE  LeadsTo(r, E, M)
<1>1. /\ l + 1 \in DOMAIN r /\ l + 1 \in Int
      /\ \A i \in DOMAIN q : i \in DOMAIN r /\ i < l + 1 /\ i \in Int /\ r[i] = q[i]
      /\ \A i \in DOMAIN r : i \in DOMAIN q \/ i = l + 1
      /\ \A i \in DOMAIN q : \A x : /\ Brings(r, i, x) <=> Brings(q, i, x)
                                    /\ Revokes(r, i, x) <=> Revokes(q, i, x)
  BY AppendedPackets
<1>2. /\ r[l + 1].type # UPDATE
      /\ \A x : ~Brings(r, l + 1, x)
      /\ \A p : Revokes(r, l + 1, p) <=> pkt.type = WITHDRAW /\ p \in pkt.body
  BY DEF Appended, Brings, Revokes
<1>3. /\ \A x : x \in N <=> Outcome(q, E, x)
      /\ Apart(q) /\ ApartFrom(q, E) /\ OneEach(E)
  BY LeadsToOutcome
<1>4. ASSUME NEW x PROVE Outcome(r, E, x) <=> Outcome(q, E, x) /\ ~Revokes(r, l + 1, Prefix(x))
  <2>1. Outcome(q, E, x) /\ ~Revokes(r, l + 1, Prefix(x)) => Outcome(r, E, x)
    BY <1>1, <1>2 DEF Outcome
  <2>2. Outcome(r, E, x) => Outcome(q, E, x) /\ ~Revokes(r, l + 1, Prefix(x))
    BY <1>1, <1>2 DEF Outcome
  <2> QED BY <2>1, <2>2
<1>5. \A x : x \in M <=> Outcome(r, E, x)
  BY <1>2, <1>3, <1>4
<1>6. Apart(r)
  <2> SUFFICES ASSUME NEW i \in DOMAIN r, NEW j \in DOMAIN r, i < j,
                      r[i].type = UPDATE, r[j].type = UPDATE, r[i].body # r[j].body,
                      Prefix(r[i].body) = Prefix(r[j].body)
               PROVE  \E k \in DOMAIN r : i < k /\ k < j /\ Revokes(r, k, Prefix(r[j].body))
    BY DEF Apart
  <2>1. i \in DOMAIN q /\ j \in DOMAIN q
    BY <1>1, <1>2
  <2>2. \E k \in DOMAIN q : i < k /\ k < j /\ Revokes(q, k, Prefix(q[j].body))
    BY <1>1, <1>3, <2>1 DEF Apart
  <2> QED BY <1>1, <2>1, <2>2
<1>7. ApartFrom(r, E)
  <2> SUFFICES ASSUME NEW x \in E, NEW j \in DOMAIN r,
                      r[j].type = UPDATE, r[j].body # x, Prefix(r[j].body) = Prefix(x)
               PROVE  \E k \in DOMAIN r : k < j /\ Revokes(r, k, Prefix(x))
    BY DEF ApartFrom
  <2>1. j \in DOMAIN q
    BY <1>1, <1>2
  <2>2. \E k \in DOMAIN q : k < j /\ Revokes(q, k, Prefix(x))
    BY <1>1, <1>3, <2>1 DEF ApartFrom
  <2> QED BY <1>1, <2>2
<1> QED BY <1>3, <1>5, <1>6, <1>7, LeadsToOutcome

(* Every packet but the first moves one place forward.                     *)
LEMMA DroppedPackets ==
    ASSUME NEW q, NEW r, NEW l, Dropped(q, r, l)
    PROVE  /\ 1 \in DOMAIN q
           /\ \A i \in DOMAIN q : i \in Int /\ i >= 1
           /\ \A i \in DOMAIN r : i \in Int /\ i >= 1
           /\ \A i \in DOMAIN r : i + 1 \in DOMAIN q /\ i + 1 > 1 /\ r[i] = q[i + 1]
           /\ \A i \in DOMAIN q : i > 1 => \E j \in DOMAIN r : i = j + 1
           /\ \A i \in DOMAIN r : \A x : /\ Brings(r, i, x) <=> Brings(q, i + 1, x)
                                         /\ Revokes(r, i, x) <=> Revokes(q, i + 1, x)
<1>1. ASSUME NEW i \in DOMAIN q, i > 1 PROVE \E j \in DOMAIN r : i = j + 1
  <2>1. i \in Int /\ i - 1 \in DOMAIN r
    BY <1>1 DEF Dropped
  <2>2. i = (i - 1) + 1
    BY <2>1
  <2> QED BY <2>1, <2>2
<1> QED BY <1>1 DEF Dropped, Brings, Revokes

(* The packets but the first have the same withdrawals between them.       *)
LEMMA RestApart ==
    ASSUME NEW q, NEW r, NEW l, Dropped(q, r, l), Apart(q)
    PROVE  Apart(r)
<1>1. /\ \A i \in DOMAIN q : i \in Int /\ i >= 1
      /\ \A i \in DOMAIN r : i \in Int /\ i >= 1
      /\ \A i \in DOMAIN r : i + 1 \in DOMAIN q /\ r[i] = q[i + 1]
      /\ \A i \in DOMAIN q : i > 1 => \E j \in DOMAIN r : i = j + 1
      /\ \A i \in DOMAIN r : \A x : Revokes(r, i, x) <=> Revokes(q, i + 1, x)
  BY DroppedPackets
<1> SUFFICES ASSUME NEW i \in DOMAIN r, NEW j \in DOMAIN r, i < j,
                    r[i].type = UPDATE, r[j].type = UPDATE, r[i].body # r[j].body,
                    Prefix(r[i].body) = Prefix(r[j].body)
             PROVE  \E k \in DOMAIN r : i < k /\ k < j /\ Revokes(r, k, Prefix(r[j].body))
  BY DEF Apart
<1>2. i + 1 \in DOMAIN q /\ j + 1 \in DOMAIN q /\ i + 1 < j + 1
      /\ r[i] = q[i + 1] /\ r[j] = q[j + 1]
  BY <1>1
<1>3. PICK k \in DOMAIN q : i + 1 < k /\ k < j + 1 /\ Revokes(q, k, Prefix(q[j + 1].body))
  BY <1>2 DEF Apart
<1>4. PICK h \in DOMAIN r : k = h + 1
  BY <1>1, <1>3
<1> QED BY <1>1, <1>2, <1>3, <1>4

(* An update is handled.                                                   *)
LEMMA TookUpdate ==
    ASSUME NEW q, NEW r, NEW l, NEW E, NEW N, NEW m,
           LeadsTo(q, E, N), Dropped(q, r, l), Brings(q, 1, m)
    PROVE  LeadsTo(r, E \cup {m}, N)
<1>1. /\ 1 \in DOMAIN q
      /\ \A i \in DOMAIN q : i \in Int /\ i >= 1
      /\ \A i \in DOMAIN r : i \in Int /\ i >= 1
      /\ \A i \in DOMAIN r : i + 1 \in DOMAIN q /\ i + 1 > 1 /\ r[i] = q[i + 1]
      /\ \A i \in DOMAIN q : i > 1 => \E j \in DOMAIN r : i = j + 1
      /\ \A i \in DOMAIN r : \A x : /\ Brings(r, i, x) <=> Brings(q, i + 1, x)
                                    /\ Revokes(r, i, x) <=> Revokes(q, i + 1, x)
  BY DroppedPackets
<1>2. /\ q[1].type = UPDATE /\ q[1].body = m
      /\ \A x : (Brings(q, 1, x) <=> x = m) /\ ~Revokes(q, 1, x)
  BY DEF Brings, Revokes, UPDATE, WITHDRAW
<1>3. /\ \A x : x \in N <=> Outcome(q, E, x)
      /\ Apart(q) /\ ApartFrom(q, E) /\ OneEach(E)
  BY LeadsToOutcome
<1>4. \A i \in DOMAIN q : i = 1 \/ \E j \in DOMAIN r : i = j + 1
  BY <1>1
<1>5. ASSUME NEW x PROVE Outcome(r, E \cup {m}, x) <=> Outcome(q, E, x)
  <2> DEFINE p == Prefix(x)
  <2>1. (\A i \in DOMAIN r : ~Revokes(r, i, p)) <=> \A i \in DOMAIN q : ~Revokes(q, i, p)
    BY <1>1, <1>2, <1>4
  <2>2. (\A i \in DOMAIN q : ~Revokes(q, i, p)) <=>
           \A j \in DOMAIN q : j > 1 => ~Revokes(q, j, p)
    BY <1>1, <1>2
  <2>3. ASSUME NEW i \in DOMAIN r
        PROVE  (\A j \in DOMAIN r : j > i => ~Revokes(r, j, p)) <=>
                  \A j \in DOMAIN q : j > i + 1 => ~Revokes(q, j, p)
    <3>1. ASSUME NEW j \in DOMAIN q, j > i + 1, \A h \in DOMAIN r : h > i => ~Revokes(r, h, p)
          PROVE  ~Revokes(q, j, p)
      <4>1. PICK h \in DOMAIN r : j = h + 1
        BY <1>1, <3>1
      <4> QED BY <1>1, <3>1, <4>1
    <3>2. ASSUME NEW j \in DOMAIN r, j > i, \A h \in DOMAIN q : h > i + 1 => ~Revokes(q, h, p)
          PROVE  ~Revokes(r, j, p)
      BY <1>1, <3>2
    <3> QED BY <3>1, <3>2
  <2>4. (\E i \in DOMAIN r : Brings(r, i, x) /\ \A j \in DOMAIN r : j > i => ~Revokes(r, j, p))
          <=> (\E i \in DOMAIN q : /\ i > 1 /\ Brings(q, i, x)
                                   /\ \A j \in DOMAIN q : j > i => ~Revokes(q, j, p))
    BY <1>1, <2>3
  <2>5. Outcome(q, E, x) <=>
          \/ x \in E \cup {m} /\ \A i \in DOMAIN q : ~Revokes(q, i, p)
          \/ \E i \in DOMAIN q : /\ i > 1 /\ Brings(q, i, x)
                                 /\ \A j \in DOMAIN q : j > i => ~Revokes(q, j, p)
    BY <1>1, <1>2, <2>2 DEF Outcome
  <2> QED BY <2>1, <2>4, <2>5 DEF Outcome
<1>6. ApartFrom(r, E \cup {m})
  <2> SUFFICES ASSUME NEW x \in E \cup {m}, NEW j \in DOMAIN r,
                      r[j].type = UPDATE, r[j].body # x, Prefix(r[j].body) = Prefix(x)
               PROVE  \E k \in DOMAIN r : k < j /\ Revokes(r, k, Prefix(x))
    BY DEF ApartFrom
  <2>1. j + 1 \in DOMAIN q /\ r[j] = q[j + 1] /\ j + 1 > 1
    BY <1>1
  <2>2. \E k \in DOMAIN q : k < j + 1 /\ Revokes(q, k, Prefix(x))
    <3>1. CASE x \in E
      BY <1>3, <2>1, <3>1 DEF ApartFrom
    <3>2. CASE x = m
      BY <1>1, <1>2, <1>3, <2>1, <3>2 DEF Apart
    <3> QED BY <3>1, <3>2
  <2>3. PICK k \in DOMAIN q : k < j + 1 /\ Revokes(q, k, Prefix(x))
    BY <2>2
  <2>4. PICK h \in DOMAIN r : k = h + 1
    BY <1>2, <1>4, <2>3
  <2> QED BY <1>1, <2>3, <2>4
<1>7. OneEach(E \cup {m})
  <2>1. ASSUME NEW x \in E, Prefix(x) = Prefix(m) PROVE x = m
    <3> SUFFICES ASSUME x # m PROVE FALSE
      OBVIOUS
    <3>1. \E k \in DOMAIN q : k < 1 /\ Revokes(q, k, Prefix(x))
      BY <1>1, <1>2, <1>3, <2>1 DEF ApartFrom
    <3> QED BY <1>1, <3>1
  <2> QED BY <1>3, <2>1 DEF OneEach
<1>8. Apart(r)
  BY <1>3, RestApart
<1> QED BY <1>3, <1>5, <1>6, <1>7, <1>8, LeadsToOutcome

(* Another packet is handled: if it is a withdrawal, its networks are no   *)
(* entries any more.                                                       *)
LEMMA TookOther ==
    ASSUME NEW q, NEW r, NEW l, NEW E, NEW F, NEW N,
           LeadsTo(q, E, N), Dropped(q, r, l), q[1].type # UPDATE,
           \A x : x \in F <=> x \in E /\ ~Revokes(q, 1, Prefix(x))
    PROVE  LeadsTo(r, F, N)
<1>1. /\ 1 \in DOMAIN q
      /\ \A i \in DOMAIN q : i \in Int /\ i >= 1
      /\ \A i \in DOMAIN r : i \in Int /\ i >= 1
      /\ \A i \in DOMAIN r : i + 1 \in DOMAIN q /\ i + 1 > 1 /\ r[i] = q[i + 1]
      /\ \A i \in DOMAIN q : i > 1 => \E j \in DOMAIN r : i = j + 1
      /\ \A i \in DOMAIN r : \A x : /\ Brings(r, i, x) <=> Brings(q, i + 1, x)
                                    /\ Revokes(r, i, x) <=> Revokes(q, i + 1, x)
  BY DroppedPackets
<1>2. \A x : ~Brings(q, 1, x)
  BY DEF Brings
<1>3. /\ \A x : x \in N <=> Outcome(q, E, x)
      /\ Apart(q) /\ ApartFrom(q, E) /\ OneEach(E)
  BY LeadsToOutcome
<1>4. \A i \in DOMAIN q : i = 1 \/ \E j \in DOMAIN r : i = j + 1
  BY <1>1
<1>5. ASSUME NEW x PROVE Outcome(r, F, x) <=> Outcome(q, E, x)
  <2> DEFINE p == Prefix(x)
  <2>1. (\A i \in DOMAIN q : ~Revokes(q, i, p)) <=>
           ~Revokes(q, 1, p) /\ \A i \in DOMAIN r : ~Revokes(r, i, p)
    BY <1>1, <1>4
  <2>2. ASSUME NEW i \in DOMAIN r
        PROVE  (\A j \in DOMAIN r : j > i => ~Revokes(r, j, p)) <=>
                  \A j \in DOMAIN q : j > i + 1 => ~Revokes(q, j, p)
    <3>1. ASSUME NEW j \in DOMAIN q, j > i + 1, \A h \in DOMAIN r : h > i => ~Revokes(r, h, p)
          PROVE  ~Revokes(q, j, p)
      <4>1. PICK h \in DOMAIN r : j = h + 1
        BY <1>1, <3>1
      <4> QED BY <1>1, <3>1, <4>1
    <3>2. ASSUME NEW j \in DOMAIN r, j > i, \A h \in DOMAIN q : h > i + 1 => ~Revokes(q, h, p)
          PROVE  ~Revokes(r, j, p)
      BY <1>1, <3>2
    <3> QED BY <3>1, <3>2
  <2>3. (\E i \in DOMAIN r : Brings(r, i, x) /\ \A j \in DOMAIN r : j > i => ~Revokes(r, j, p))
          <=> (\E i \in DOMAIN q : /\ Brings(q, i, x)
                                   /\ \A j \in DOMAIN q : j > i => ~Revokes(q, j, p))
    BY <1>1, <1>2, <1>4, <2>2
  <2> QED BY <2>1, <2>3 DEF Outcome
<1>6. ApartFrom(r, F)
  <2> SUFFICES ASSUME NEW x \in F, NEW j \in DOMAIN r,
                      r[j].type = UPDATE, r[j].body # x, Prefix(r[j].body) = Prefix(x)
               PROVE  \E k \in DOMAIN r : k < j /\ Revokes(r, k, Prefix(x))
    BY DEF ApartFrom
  <2>1. j + 1 \in DOMAIN q /\ r[j] = q[j + 1] /\ x \in E /\ ~Revokes(q, 1, Prefix(x))
    BY <1>1
  <2>2. PICK k \in DOMAIN q : k < j + 1 /\ Revokes(q, k, Prefix(x))
    BY <1>3, <2>1 DEF ApartFrom
  <2>3. PICK h \in DOMAIN r : k = h + 1
    BY <1>4, <2>1, <2>2
  <2> QED BY <1>1, <2>2, <2>3
<1>7. OneEach(F)
  BY <1>3 DEF OneEach
<1>8. Apart(r)
  BY <1>3, RestApart
<1> QED BY <1>3, <1>5, <1>6, <1>7, <1>8, LeadsToOutcome

-----------------------------------------------------------------------------
(* The entries of every neighbor and the packets on its way give what it   *)
(* announces.                                                              *)

(* No two neighbors announce the same message: the path of an update       *)
(* begins with the system of the neighbor that sends it.                   *)
SeparateNeighbors ==
    \A n, k \in Neighbors : n # k => Announcements[n] \cap Announcements[k] = {}

(* A network is announced anew after a withdrawal only, or with the        *)
(* attributes it had.                                                      *)
OneUpdateEach ==
    \/ ~Repeats
    \/ \A n \in Neighbors : \A m, x \in Announcements[n] : Prefix(m) = Prefix(x) => m = x

CurInv == \A n \in Neighbors : LeadsTo(inbox[n], Entries(n), nets[n])

(* The entries of n are the messages that are in the table as sent by n.   *)
LEMMA EntriesInTable ==
    ASSUME GoodTable
    PROVE  /\ \A n \in Neighbors : \A m :
                 m \in Entries(n) <=> [msg |-> m, from |-> n] \in ToSet(forwarding_table)
           /\ \A n \in Neighbors : Entries(n) \subseteq Announcements[n]
           /\ \A e \in ToSet(forwarding_table) :
                 /\ e \in RouterEntry /\ e.from \in Neighbors /\ e.msg \in Entries(e.from)
                 /\ e = [msg |-> e.msg, from |-> e.from]
<1>1. \A e \in ToSet(forwarding_table) : e \in RouterEntry
  BY RangeOfTable DEF GoodTable
<1>2. \A e \in RouterEntry : /\ e = [msg |-> e.msg, from |-> e.from]
                             /\ e.from \in Neighbors /\ e.msg \in Announcements[e.from]
  BY DEF RouterEntry, Entry
<1>3. \A n, m : [msg |-> m, from |-> n].msg = m /\ [msg |-> m, from |-> n].from = n
  OBVIOUS
<1>4. ASSUME NEW n \in Neighbors, NEW m
      PROVE  m \in Entries(n) <=> [msg |-> m, from |-> n] \in ToSet(forwarding_table)
  BY <1>1, <1>2, <1>3 DEF Entries
<1>5. ASSUME NEW n \in Neighbors PROVE Entries(n) \subseteq Announcements[n]
  BY <1>1, <1>2 DEF Entries
<1>6. \A e \in ToSet(forwarding_table) : e.msg \in Entries(e.from)
  BY DEF Entries
<1> QED BY <1>1, <1>2, <1>4, <1>5, <1>6

(* A packet sent by n changes the packets of n only.                       *)
LEMMA PostAppends ==
    ASSUME GoodInbox, NEW n \in Neighbors, NEW type, NEW body, Post(n, type, body)
    PROVE  /\ Appended(inbox[n], inbox'[n], Len(inbox[n]), [type |-> type, body |-> body])
           /\ \A k \in Neighbors \ {n} : inbox'[k] = inbox[k]
           /\ \A k : Entries(k)' = Entries(k)
<1>1. UNCHANGED forwarding_table
  BY DEF Post
<1> QED BY <1>1, PostedInbox DEF Appended, Entries

(* A packet of n that is handled changes the packets of n only.            *)
LEMMA TakeDrops ==
    ASSUME GoodInbox, NEW n \in Neighbors, NEW type, Takes(n, type)
    PROVE  /\ Dropped(inbox[n], inbox'[n], Len(inbox[n]))
           /\ \A k \in Neighbors \ {n} : inbox'[k] = inbox[k]
           /\ inbox[n][1] = Head(inbox[n]) /\ inbox[n][1].type = type
           /\ UNCHANGED nets
BY TakenInbox DEF Dropped

(* An update is sent.                                                      *)
LEMMA CurrentWhenAnnounced ==
    ASSUME OneUpdateEach, RInv, CurInv,
           NEW n \in Neighbors, NEW m \in Announcements[n], Announce(n, m)
    PROVE  CurInv'
<1> DEFINE known == {x \in nets[n] : Prefix(x) = Prefix(m)}
<1>1. /\ Repeats \/ known = {}
      /\ nets' = [nets EXCEPT ![n] = (nets[n] \ known) \cup {m}]
      /\ Post(n, UPDATE, m)
  BY DEF Announce
<1>2. /\ nets'[n] = (nets[n] \ known) \cup {m}
      /\ \A k \in Neighbors \ {n} : nets'[k] = nets[k]
  <2> HIDE DEF known
  <2> QED BY <1>1 DEF RInv, GoodNets
<1>3. \A x \in nets[n] : Prefix(x) = Prefix(m) => x = m
  BY <1>1 DEF OneUpdateEach, RInv, GoodNets
<1>4. nets'[n] = nets[n] \cup {m}
  BY <1>2, <1>3
<1>5. /\ Appended(inbox[n], inbox'[n], Len(inbox[n]), [type |-> UPDATE, body |-> m])
      /\ \A k \in Neighbors \ {n} : inbox'[k] = inbox[k]
      /\ \A k : Entries(k)' = Entries(k)
  BY <1>1, PostAppends DEF RInv
<1>6. LeadsTo(inbox'[n], Entries(n), nets[n] \cup {m})
  BY <1>3, <1>5, SentUpdate DEF CurInv
<1> QED BY <1>2, <1>4, <1>5, <1>6 DEF CurInv

(* A withdrawal is sent.                                                   *)
LEMMA CurrentWhenWithdrawn ==
    ASSUME RInv, CurInv, NEW n \in Neighbors, NEW P, Withdraw(n, P)
    PROVE  CurInv'
<1> DEFINE new == {x \in nets[n] : Prefix(x) \notin P}
           pkt == [type |-> WITHDRAW, body |-> P]
<1>1. nets' = [nets EXCEPT ![n] = new] /\ Post(n, WITHDRAW, P)
  BY DEF Withdraw
<1>2. nets'[n] = new /\ \A k \in Neighbors \ {n} : nets'[k] = nets[k]
  <2> HIDE DEF new
  <2> QED BY <1>1 DEF RInv, GoodNets
<1>3. /\ Appended(inbox[n], inbox'[n], Len(inbox[n]), pkt)
      /\ \A k \in Neighbors \ {n} : inbox'[k] = inbox[k]
      /\ \A k : Entries(k)' = Entries(k)
  BY <1>1, PostAppends DEF RInv
<1>4. /\ pkt.type # UPDATE
      /\ \A x : x \in new <=> x \in nets[n] /\ ~(pkt.type = WITHDRAW /\ Prefix(x) \in pkt.body)
  BY DEF UPDATE, WITHDRAW
<1> HIDE DEF new, pkt
<1>5. LeadsTo(inbox'[n], Entries(n), new)
  BY <1>3, <1>4, SentOther DEF CurInv
<1> QED BY <1>2, <1>3, <1>5 DEF CurInv

(* Data or a request for a dump is sent.                                   *)
LEMMA CurrentWhenAsked ==
    ASSUME RInv, CurInv, NEW n \in Neighbors,
           (\E a \in Endpoints : SendData(n, a)) \/ SendDump(n)
    PROVE  CurInv'
<1>1. UNCHANGED nets /\ \E type \in {DATA, DUMP} : \E body : Post(n, type, body)
  BY DEF SendData, SendDump
<1>2. PICK type \in {DATA, DUMP} : \E body : Post(n, type, body)
  BY <1>1
<1>3. PICK body : Post(n, type, body)
  BY <1>2
<1> DEFINE pkt == [type |-> type, body |-> body]
<1>4. /\ Appended(inbox[n], inbox'[n], Len(inbox[n]), pkt)
      /\ \A k \in Neighbors \ {n} : inbox'[k] = inbox[k]
      /\ \A k : Entries(k)' = Entries(k)
  BY <1>3, PostAppends DEF RInv
<1>5. pkt.type # UPDATE /\ pkt.type # WITHDRAW
  BY DEF UPDATE, WITHDRAW, DATA, DUMP
<1> HIDE DEF pkt
<1>6. LeadsTo(inbox'[n], Entries(n), nets[n])
  BY <1>4, <1>5, SentOther DEF CurInv
<1> QED BY <1>1, <1>4, <1>6 DEF CurInv

(* What an update that is handled makes of the entries.                    *)
LEMMA UpdatedEntries ==
    ASSUME SeparateNeighbors, RInv, NEW n \in Neighbors, HandleUpdate(n)
    PROVE  LET m == Head(inbox[n]).body
           IN  /\ m \in Announcements[n]
               /\ Brings(inbox[n], 1, m)
               /\ ToSet(forwarding_table') = ToSet(forwarding_table) \cup {[msg |-> m, from |-> n]}
               /\ Entries(n)' = Entries(n) \cup {m}
               /\ \A k \in Neighbors \ {n} : Entries(k)' = Entries(k)
<1> DEFINE m == Head(inbox[n]).body
           new == [msg |-> m, from |-> n]
           old == ToSet(forwarding_table)
<1>1. Takes(n, UPDATE) /\ forwarding_table' = Stored(forwarding_table, m, n)
  BY DEF HandleUpdate
<1>2. m \in Announcements[n] /\ Brings(inbox[n], 1, m)
  BY <1>1, KeepsTake, TakeDrops DEF RInv, Brings
<1>3. new \in RouterEntry
  BY <1>2, AnnouncementTypes
<1>4. ToSet(forwarding_table') = {e \in old : e.msg # m} \cup {new}
  <2> HIDE DEF m
  <2> QED BY <1>1, <1>3, StoredEntries DEF RInv, GoodTable
<1>5. ASSUME NEW e \in old, e.msg = m PROVE e = new
  <2>1. e.from \in Neighbors /\ e = [msg |-> e.msg, from |-> e.from] /\ e.msg \in Announcements[e.from]
    BY EntriesInTable DEF RInv
  <2>2. e.from = n
    BY <1>2, <1>5, <2>1 DEF SeparateNeighbors
  <2> QED BY <1>5, <2>1, <2>2
<1>6. ToSet(forwarding_table') = old \cup {new}
  <2> HIDE DEF new, m, old
  <2> QED BY <1>4, <1>5
<1>7. new.msg = m /\ new.from = n
  OBVIOUS
<1> HIDE DEF new, m
<1>8. Entries(n)' = Entries(n) \cup {m} /\ \A k \in Neighbors \ {n} : Entries(k)' = Entries(k)
  BY <1>6, <1>7 DEF Entries
<1> QED BY <1>2, <1>6, <1>8 DEF m, new

(* An update is handled.                                                   *)
LEMMA CurrentWhenUpdated ==
    ASSUME SeparateNeighbors, RInv, CurInv, NEW n \in Neighbors, HandleUpdate(n)
    PROVE  CurInv'
<1> DEFINE m == Head(inbox[n]).body
<1>1. /\ Brings(inbox[n], 1, m)
      /\ Entries(n)' = Entries(n) \cup {m}
      /\ \A k \in Neighbors \ {n} : Entries(k)' = Entries(k)
  BY UpdatedEntries
<1>2. /\ Dropped(inbox[n], inbox'[n], Len(inbox[n]))
      /\ \A k \in Neighbors \ {n} : inbox'[k] = inbox[k]
      /\ UNCHANGED nets
  BY TakeDrops DEF RInv, HandleUpdate
<1> HIDE DEF m
<1>3. LeadsTo(inbox'[n], Entries(n) \cup {m}, nets[n])
  BY <1>1, <1>2, TookUpdate DEF CurInv
<1> QED BY <1>1, <1>2, <1>3 DEF CurInv

(* What a withdrawal that is handled makes of the table.                   *)
LEMMA WithdrawnEntriesGo ==
    ASSUME RInv, CurInv, NEW n \in Neighbors, HandleWithdraw(n)
    PROVE  LET P == Head(inbox[n]).body
           IN  /\ inbox[n][1].type = WITHDRAW /\ inbox[n][1].body = P
               /\ \A e : e \in ToSet(forwarding_table') <=>
                     e \in ToSet(forwarding_table) /\ ~(Prefix(e.msg) \in P /\ e.from = n)
               /\ \A x : x \in Entries(n)' <=> x \in Entries(n) /\ Prefix(x) \notin P
               /\ \A k \in Neighbors \ {n} : Entries(k)' = Entries(k)
<1> DEFINE P == Head(inbox[n]).body
<1>1. inbox[n][1].type = WITHDRAW /\ inbox[n][1].body = P
  BY TakeDrops DEF RInv, HandleWithdraw
<1>2. Left(RouterEntry, forwarding_table, n, P, forwarding_table')
  BY WithdrawnTable
<1> HIDE DEF P
<1>3. OneEach(Entries(n))
  BY DEF CurInv, LeadsTo
<1>4. \A p : OneOf(forwarding_table, n, p)
  <2> SUFFICES ASSUME NEW p, NEW d \in ToSet(forwarding_table), NEW e \in ToSet(forwarding_table),
                      d.from = n, e.from = n, Prefix(d.msg) = p, Prefix(e.msg) = p
               PROVE  d = e
    BY DEF OneOf
  <2>1. d.msg \in Entries(n) /\ e.msg \in Entries(n)
    BY EntriesInTable DEF RInv
  <2>2. d.msg = e.msg
    BY <1>3, <2>1 DEF OneEach
  <2>3. d = [msg |-> d.msg, from |-> d.from] /\ e = [msg |-> e.msg, from |-> e.from]
    BY EntriesInTable DEF RInv
  <2> QED BY <2>2, <2>3
<1>5. \A e : e \in ToSet(forwarding_table') <=>
               e \in ToSet(forwarding_table) /\ ~(Prefix(e.msg) \in P /\ e.from = n)
  BY <1>2, <1>4 DEF Left
<1>6. \A x : x \in Entries(n)' <=> x \in Entries(n) /\ Prefix(x) \notin P
  BY <1>5 DEF Entries
<1>7. \A k \in Neighbors \ {n} : Entries(k)' = Entries(k)
  BY <1>5 DEF Entries
<1> QED BY <1>1, <1>5, <1>6, <1>7 DEF P

(* A withdrawal is handled.                                                *)
LEMMA CurrentWhenRevoked ==
    ASSUME RInv, CurInv, NEW n \in Neighbors, HandleWithdraw(n)
    PROVE  CurInv'
<1> DEFINE P == Head(inbox[n]).body
<1>1. /\ inbox[n][1].type = WITHDRAW /\ inbox[n][1].body = P
      /\ \A x : x \in Entries(n)' <=> x \in Entries(n) /\ Prefix(x) \notin P
      /\ \A k \in Neighbors \ {n} : Entries(k)' = Entries(k)
  BY WithdrawnEntriesGo
<1>2. /\ Dropped(inbox[n], inbox'[n], Len(inbox[n]))
      /\ \A k \in Neighbors \ {n} : inbox'[k] = inbox[k]
      /\ UNCHANGED nets
  BY TakeDrops DEF RInv, HandleWithdraw
<1> HIDE DEF P
<1>3. /\ inbox[n][1].type # UPDATE
      /\ \A x : x \in Entries(n)' <=> x \in Entries(n) /\ ~Revokes(inbox[n], 1, Prefix(x))
  BY <1>1 DEF UPDATE, WITHDRAW, Revokes
<1>4. LeadsTo(inbox'[n], Entries(n)', nets[n])
  BY <1>2, <1>3, TookOther DEF CurInv
<1> QED BY <1>1, <1>2, <1>4 DEF CurInv

(* Data or a request for a dump is handled.                                *)
LEMMA CurrentWhenAnswered ==
    ASSUME RInv, CurInv, NEW n \in Neighbors, HandleData(n) \/ HandleDump(n)
    PROVE  CurInv'
<1>1. /\ UNCHANGED forwarding_table
      /\ Takes(n, DATA) \/ Takes(n, DUMP)
  BY DEF HandleData, HandleDump
<1>2. /\ Dropped(inbox[n], inbox'[n], Len(inbox[n]))
      /\ \A k \in Neighbors \ {n} : inbox'[k] = inbox[k]
      /\ inbox[n][1].type \in {DATA, DUMP}
      /\ UNCHANGED nets
  BY <1>1, TakeDrops DEF RInv
<1>3. inbox[n][1].type # UPDATE /\ inbox[n][1].type # WITHDRAW
  BY <1>2 DEF UPDATE, WITHDRAW, DATA, DUMP
<1>4. \A k : Entries(k)' = Entries(k)
  BY <1>1 DEF Entries
<1>5. LeadsTo(inbox'[n], Entries(n), nets[n])
  BY <1>2, <1>3, TookOther DEF CurInv, Revokes
<1> QED BY <1>2, <1>4, <1>5 DEF CurInv

(* Every step keeps the entries and the packets in agreement with what has *)
(* been announced.                                                         *)
LEMMA CurInvNext ==
    ASSUME SeparateNeighbors, OneUpdateEach, RInv, CurInv, [Next]_vars
    PROVE  CurInv'
<1>1. CASE UNCHANGED vars
  BY <1>1 DEF vars, CurInv, Entries
<1>2. ASSUME NEW n \in Neighbors, NEW m \in Announcements[n], Announce(n, m) PROVE CurInv'
  BY <1>2, CurrentWhenAnnounced
<1>3. ASSUME NEW n \in Neighbors, NEW P, Withdraw(n, P) PROVE CurInv'
  BY <1>3, CurrentWhenWithdrawn
<1>4. ASSUME NEW n \in Neighbors, (\E a \in Endpoints : SendData(n, a)) \/ SendDump(n)
      PROVE  CurInv'
  BY <1>4, CurrentWhenAsked
<1>5. ASSUME NEW n \in Neighbors, HandleUpdate(n) PROVE CurInv'
  BY <1>5, CurrentWhenUpdated
<1>6. ASSUME NEW n \in Neighbors, HandleWithdraw(n) PROVE CurInv'
  BY <1>6, CurrentWhenRevoked
<1>7. ASSUME NEW n \in Neighbors, HandleData(n) \/ HandleDump(n) PROVE CurInv'
  BY <1>7, CurrentWhenAnswered
<1> QED BY <1>1, <1>2, <1>3, <1>4, <1>5, <1>6, <1>7 DEF Next

(* They agree at first.                                                    *)
LEMMA CurInvInit == Init => CurInv
<1> SUFFICES ASSUME Init, NEW n \in Neighbors PROVE LeadsTo(inbox[n], Entries(n), nets[n])
  BY DEF CurInv
<1>1. inbox[n] = <<>> /\ nets[n] = {} /\ DOMAIN inbox[n] = {}
  BY DEF Init
<1>2. forwarding_table = <<>> /\ <<>> \in Seq(Entry) /\ DOMAIN <<>> = {}
  BY EmptySeq DEF Init
<1>3. ToSet(forwarding_table) = {}
  BY <1>2 DEF ToSet
<1>4. Entries(n) = {}
  BY <1>3 DEF Entries
<1>5. /\ \A m : ~Outcome(inbox[n], {}, m)
      /\ Apart(inbox[n]) /\ ApartFrom(inbox[n], {}) /\ OneEach({})
  BY <1>1 DEF Outcome, Apart, ApartFrom, OneEach
<1> QED BY <1>1, <1>4, <1>5, LeadsToOutcome

(* Whatever is on its way, the table becomes what has been announced.      *)
THEOREM TableInvariance ==
    ASSUME SeparateNeighbors, OneUpdateEach
    PROVE  Spec => [](RInv /\ CurInv)
<1>1. Init => RInv /\ CurInv
  BY RInvInit, CurInvInit
<1>2. RInv /\ CurInv /\ [Next]_vars => (RInv /\ CurInv)'
  BY RInvNext, CurInvNext
<1> QED BY <1>1, <1>2, PTL DEF Spec

-----------------------------------------------------------------------------
(* What follows for the table and for data.                                *)

(* A neighbor with no update and no withdrawal on its way has the entries  *)
(* it has announced.                                                       *)
LEMMA CurrentTable == RInv /\ CurInv => TableIsCurrent
<1> SUFFICES ASSUME RInv, CurInv, NEW n \in Neighbors,
                    \A i \in DOMAIN inbox[n] : inbox[n][i].type \notin {UPDATE, WITHDRAW}
             PROVE  Entries(n) = nets[n]
  BY DEF TableIsCurrent, Entries
<1>1. \A m : m \in nets[n] <=> Outcome(inbox[n], Entries(n), m)
  BY LeadsToOutcome DEF CurInv
<1>2. \A m : Outcome(inbox[n], Entries(n), m) <=> m \in Entries(n)
  BY DEF Outcome, Brings, Revokes
<1> QED BY <1>1, <1>2

(* A neighbor with no update and no withdrawal on its way has exactly the  *)
(* entries it has announced, with the attributes of its last announcement. *)
THEOREM TableCurrent ==
    ASSUME SeparateNeighbors, OneUpdateEach
    PROVE  Spec => []TableIsCurrent
BY TableInvariance, CurrentTable, PTL

(* Whether a network holds an address is a matter of its prefix.           *)
LEMMA MatchedByPrefix ==
    ASSUME NEW a, NEW m, NEW x, Prefix(m) = Prefix(x)
    PROVE  /\ matched_subnet(a, m) <=> matched_subnet(a, x)
           /\ matched_subnet(a, Prefix(m)) <=> matched_subnet(a, m)
<1>1. /\ Prefix(m).network = m.network /\ Prefix(m).length = m.length
      /\ Prefix(x).network = x.network /\ Prefix(x).length = x.length
  BY DEF Prefix
<1> QED BY <1>1 DEF matched_subnet, prefix_shift_amount

(* An entry that holds an address: its neighbor announces a network for it *)
(* or is about to withdraw it.                                             *)
LEMMA EntryIsAnnounced ==
    ASSUME RInv, CurInv, NEW n \in Neighbors, NEW m \in Entries(n), NEW a, matched_subnet(a, m)
    PROVE  Announced(n, a)
<1>1. m \in nets[n] \/ \E i \in DOMAIN inbox[n] : Revokes(inbox[n], i, Prefix(m))
  BY LeadsToOutcome DEF CurInv, Outcome
<1>2. matched_subnet(a, Prefix(m))
  BY MatchedByPrefix
<1> QED BY <1>1, <1>2 DEF Announced, Revokes

(* Taking a data packet from the front leaves updates and withdrawals.     *)
LEMMA StillAnnounced ==
    ASSUME RInv, NEW n \in Neighbors, HandleData(n), NEW k \in Neighbors, NEW a, Announced(k, a)
    PROVE  Announced(k, a)'
<1>1. /\ inbox[n][1].type = DATA /\ UNCHANGED nets
      /\ \A j \in Neighbors \ {n} : inbox'[j] = inbox[j]
      /\ \A i \in DOMAIN inbox[n] : i # 1 =>
            i - 1 \in DOMAIN inbox'[n] /\ inbox'[n][i - 1] = inbox[n][i]
  BY TakenInbox DEF RInv, HandleData
<1>2. CASE \E m \in nets[k] : matched_subnet(a, m)
  BY <1>1, <1>2 DEF Announced
<1>3. CASE \E i \in DOMAIN inbox[k] : /\ inbox[k][i].type = WITHDRAW
                                      /\ \E p \in inbox[k][i].body : matched_subnet(a, p)
  <2>1. PICK i \in DOMAIN inbox[k] : /\ inbox[k][i].type = WITHDRAW
                                     /\ \E p \in inbox[k][i].body : matched_subnet(a, p)
    BY <1>3
  <2>2. CASE k # n
    BY <1>1, <2>1, <2>2 DEF Announced
  <2>3. CASE k = n
    <3>1. i # 1
      BY <1>1, <2>1, <2>3 DEF DATA, WITHDRAW
    <3>2. i - 1 \in DOMAIN inbox'[k] /\ inbox'[k][i - 1] = inbox[k][i]
      BY <1>1, <2>3, <3>1
    <3> QED BY <2>1, <3>2 DEF Announced
  <2> QED BY <2>2, <2>3
<1> QED BY <1>2, <1>3 DEF Announced

(* Where data goes, it has been announced.                                 *)
LEMMA DeliveryNext ==
    ASSUME SeparateNeighbors, OneUpdateEach, RInv, CurInv, NoMisdelivery, [Next]_vars
    PROVE  NoMisdelivery'
<1>1. CASE UNCHANGED vars
  BY <1>1 DEF vars, NoMisdelivery, Announced
<1>2. ASSUME NEW n \in Neighbors, HandleData(n) PROVE NoMisdelivery'
  <2> DEFINE a == Head(inbox[n]).body
             next == BestRoute(forwarding_table, a)[1].from
  <2>1. sent' = Answer(n, a)
    BY <1>2 DEF HandleData
  <2> HIDE DEF a
  <2> SUFFICES ASSUME NEW packet \in Answer(n, a), packet.type = DATA
               PROVE  Announced(packet.to, packet.body)'
    BY <2>1 DEF NoMisdelivery
  <2>2. packet.to = next /\ packet.body = a /\ next \in Neighbors
    <3>1. GoodTable /\ Answer(n, a) # {}
      BY DEF RInv
    <3>2. /\ next \in Neighbors
          /\ \/ packet.to = n /\ packet.type = ROUTELESS
             \/ packet.to = next /\ packet.type = DATA /\ packet.body = a
      BY <3>1, AnswerKinds
    <3> QED BY <3>2 DEF DATA, ROUTELESS
  <2>3. BestRoute(forwarding_table, a) # <<>>
    BY AnswerKinds, RouteFound DEF RInv
  <2>4. BestRoute(forwarding_table, a)[1] \in Candidates(forwarding_table, a)
    BY <2>3, RouteFound DEF RInv
  <2>5. PICK e \in ToSet(forwarding_table) :
           e.from = packet.to /\ matched_subnet(packet.body, e.msg)
    BY <2>2, <2>4 DEF Candidates
  <2>6. e.msg \in Entries(packet.to)
    BY <2>5, EntriesInTable DEF RInv
  <2> HIDE DEF next
  <2>7. packet.to \in Neighbors /\ Announced(packet.to, packet.body)
    BY <2>2, <2>5, <2>6, EntryIsAnnounced
  <2> QED BY <1>2, <2>7, StillAnnounced
<1>3. ASSUME sent' = {} PROVE NoMisdelivery'
  BY <1>3 DEF NoMisdelivery
<1>4. ASSUME \A packet \in sent' : packet.type # DATA PROVE NoMisdelivery'
  BY <1>4 DEF NoMisdelivery
<1>5. ASSUME NEW n \in Neighbors, HandleUpdate(n) \/ HandleWithdraw(n) \/ HandleDump(n)
      PROVE  \A packet \in sent' : packet.type # DATA
  <2>1. CASE HandleUpdate(n)
    <3>1. \E b : sent' = {Packet(k, UPDATE, b) : k \in Informed(n)}
      BY <2>1 DEF HandleUpdate
    <3> QED BY <3>1 DEF Packet, UPDATE, DATA
  <2>2. CASE HandleWithdraw(n)
    <3>1. \E b : sent' = {Packet(k, WITHDRAW, b) : k \in Informed(n)}
      BY <2>2 DEF HandleWithdraw
    <3> QED BY <3>1 DEF Packet, WITHDRAW, DATA
  <2>3. CASE HandleDump(n)
    <3>1. \E b : sent' = {Packet(n, TABLE, b)}
      BY <2>3 DEF HandleDump
    <3> QED BY <3>1 DEF Packet, TABLE, DATA
  <2> QED BY <1>5, <2>1, <2>2, <2>3
<1>6. ASSUME NEW n \in Neighbors,
             \/ \E m \in Announcements[n] : Announce(n, m)
             \/ \E P \in SUBSET {Prefix(m) : m \in nets[n]} : Withdraw(n, P)
             \/ \E a \in Endpoints : SendData(n, a)
             \/ SendDump(n)
      PROVE  sent' = {}
  BY <1>6 DEF Announce, Withdraw, SendData, SendDump, Post
<1> QED BY <1>1, <1>2, <1>3, <1>4, <1>5, <1>6 DEF Next

(* Data goes only to a neighbor that has announced a network for it, or is *)
(* about to withdraw it.                                                   *)
THEOREM DataDelivered ==
    ASSUME SeparateNeighbors, OneUpdateEach
    PROVE  Spec => []NoMisdelivery
<1>1. Init => NoMisdelivery
  BY DEF Init, NoMisdelivery
<1>2. /\ RInv /\ CurInv /\ NoMisdelivery /\ [Next]_vars => NoMisdelivery'
  BY DeliveryNext
<1> QED BY <1>1, <1>2, TableInvariance, PTL DEF Spec

(* Data is dropped without a word only when every network announced for it *)
(* is on its way.                                                          *)
LEMMA DroppedUnrouted ==
    ASSUME RInv, CurInv, NEW n \in Neighbors, HandleData(n), sent' = {},
           NEW k \in Neighbors, NEW m \in nets[k], matched_subnet(Head(inbox[n]).body, m)
    PROVE  Pending(k, m)
<1> DEFINE a == Head(inbox[n]).body
<1>1. sent' = Answer(n, a)
  BY DEF HandleData
<1>2. matched_subnet(a, m)
  OBVIOUS
<1> HIDE DEF a
<1>3. Candidates(forwarding_table, a) = {}
  BY <1>1, AnswerKinds DEF RInv
<1>4. m \notin Entries(k)
  <2> DEFINE e == [msg |-> m, from |-> k]
  <2>1. e.msg = m
    OBVIOUS
  <2>2. m \in Entries(k) => e \in ToSet(forwarding_table)
    BY EntriesInTable DEF RInv
  <2> HIDE DEF e
  <2> QED BY <1>2, <1>3, <2>1, <2>2 DEF Candidates
<1>5. Outcome(inbox[k], Entries(k), m)
  BY LeadsToOutcome DEF CurInv
<1>6. PICK i \in DOMAIN inbox[k] : Brings(inbox[k], i, m)
  BY <1>4, <1>5 DEF Outcome
<1>7. inbox[k][i] \in PacketsOf(k)
  BY RangeOfTable DEF RInv, GoodInbox
<1>8. inbox[k][i] = [type |-> UPDATE, body |-> m]
  BY <1>6, <1>7 DEF Brings, PacketsOf, UPDATE, WITHDRAW, DATA, DUMP
<1> QED BY <1>8 DEF Pending

(* DataPacketHandler drops data without a word only if every network       *)
(* announced for it is in an update not handled.                           *)
THEOREM OnlyUnroutedDropped ==
    ASSUME SeparateNeighbors, OneUpdateEach
    PROVE  Spec => DropsOnlyUnrouted
<1> DEFINE Act == \A n \in Neighbors : HandleData(n) /\ sent' = {} =>
                     \A k \in Neighbors : \A m \in nets[k] :
                        matched_subnet(Head(inbox[n]).body, m) => Pending(k, m)
<1>1. RInv /\ CurInv => Act
  BY DroppedUnrouted
<1>2. DropsOnlyUnrouted <=> [][Act]_vars
  BY DEF DropsOnlyUnrouted
<1> HIDE DEF Act
<1> QED BY <1>1, <1>2, TableInvariance, PTL DEF Spec

-----------------------------------------------------------------------------
(* What the neighbors are told.                                            *)

LEMMA InformedOfExportable ==
    ASSUME NEW k \in Neighbors, NEW n \in Neighbors, NEW e, e.from = k
    PROVE  n \in Informed(k) <=> Exportable(e, n)
BY DEF Informed, Exportable

(* A step that is no update and no withdrawal leaves the table and what    *)
(* the neighbors have been told.                                           *)
LEMMA OtherSteps ==
    ASSUME [Next]_vars, ~\E n \in Neighbors : HandleUpdate(n) \/ HandleWithdraw(n)
    PROVE  UNCHANGED <<forwarding_table, revoked_addresses, told>>
<1>1. CASE UNCHANGED vars
  BY <1>1 DEF vars
<1>2. ASSUME NEW n \in Neighbors,
             \/ \E m \in Announcements[n] : Announce(n, m)
             \/ \E P \in SUBSET {Prefix(m) : m \in nets[n]} : Withdraw(n, P)
             \/ \E a \in Endpoints : SendData(n, a)
             \/ SendDump(n)
      PROVE  UNCHANGED <<forwarding_table, revoked_addresses, told>>
  BY <1>2 DEF Announce, Withdraw, SendData, SendDump, Post
<1>3. ASSUME NEW n \in Neighbors, HandleData(n) \/ HandleDump(n)
      PROVE  UNCHANGED <<forwarding_table, revoked_addresses, told>>
  BY <1>3 DEF HandleData, HandleDump
<1> QED BY <1>1, <1>2, <1>3 DEF Next

(* A neighbor is told of a network only while there is a route to it that  *)
(* is for this neighbor.                                                   *)
LEMMA ToldNext ==
    ASSUME SeparateNeighbors, RInv, ToldIsRouted, [Next]_vars
    PROVE  ToldIsRouted'
<1>1. ASSUME NEW k \in Neighbors, HandleUpdate(k) PROVE ToldIsRouted'
  <2> DEFINE m == Head(inbox[k]).body
             new == [msg |-> m, from |-> k]
  <2>1. ToSet(forwarding_table') = ToSet(forwarding_table) \cup {new}
    BY <1>1, UpdatedEntries
  <2>2. told' = [n \in Neighbors |->
             IF n \in Informed(k) THEN told[n] \cup {Prefix(m)} ELSE told[n]]
    BY <1>1 DEF HandleUpdate
  <2>3. new.msg = m /\ new.from = k
    OBVIOUS
  <2> HIDE DEF m, new
  <2> SUFFICES ASSUME NEW n \in Neighbors, NEW p \in told'[n]
               PROVE  \E e \in ToSet(forwarding_table') : Prefix(e.msg) = p /\ Exportable(e, n)
    BY DEF ToldIsRouted, Exportable
  <2>4. CASE p \in told[n]
    BY <2>1, <2>4 DEF ToldIsRouted
  <2>5. CASE n \in Informed(k) /\ p = Prefix(m)
    <3>1. Exportable(new, n)
      BY <2>3, <2>5, InformedOfExportable
    <3> QED BY <2>1, <2>3, <2>5, <3>1
  <2> QED BY <2>2, <2>4, <2>5
<1>2. ASSUME NEW k \in Neighbors, HandleWithdraw(k) PROVE ToldIsRouted'
  <2> DEFINE P == Head(inbox[k]).body
  <2>1. Left(RouterEntry, forwarding_table, k, P, forwarding_table')
    BY <1>2, WithdrawnTable
  <2>2. told' = [n \in Neighbors |-> IF n \in Informed(k) THEN told[n] \ P ELSE told[n]]
    BY <1>2 DEF HandleWithdraw
  <2> HIDE DEF P
  <2> SUFFICES ASSUME NEW n \in Neighbors, NEW p \in told'[n]
               PROVE  \E e \in ToSet(forwarding_table') : Prefix(e.msg) = p /\ Exportable(e, n)
    BY DEF ToldIsRouted, Exportable
  <2>3. p \in told[n] /\ (n \in Informed(k) => p \notin P)
    BY <2>2
  <2>4. PICK e \in ToSet(forwarding_table) : Prefix(e.msg) = p /\ Exportable(e, n)
    BY <2>3 DEF ToldIsRouted
  <2>5. ~(Prefix(e.msg) \in P /\ e.from = k)
    BY <2>3, <2>4, InformedOfExportable
  <2>6. e \in ToSet(forwarding_table')
    BY <2>1, <2>5 DEF Left
  <2> QED BY <2>4, <2>6
<1>3. CASE UNCHANGED <<forwarding_table, revoked_addresses, told>>
  BY <1>3 DEF ToldIsRouted, Exportable
<1> QED BY <1>1, <1>2, <1>3, OtherSteps

(* A neighbor is told of a network only while the table has a route to it  *)
(* from a customer, or it is a customer.                                   *)
THEOREM ToldRouted ==
    ASSUME SeparateNeighbors
    PROVE  Spec => []ToldIsRouted
<1>1. Init => ToldIsRouted
  BY DEF Init, ToldIsRouted
<1>2. RInv /\ ToldIsRouted /\ [Next]_vars => ToldIsRouted'
  BY ToldNext
<1> QED BY <1>1, <1>2, RouterInvariance, PTL DEF Spec

(* It is told of every such route, or another neighbor has withdrawn the   *)
(* network at some time.                                                   *)
LEMMA RoutedNext ==
    ASSUME SeparateNeighbors, RInv, CurInv, RoutedIsTold, [Next]_vars
    PROVE  RoutedIsTold'
<1>1. ASSUME NEW k \in Neighbors, HandleUpdate(k) PROVE RoutedIsTold'
  <2> DEFINE m == Head(inbox[k]).body
             new == [msg |-> m, from |-> k]
  <2>1. ToSet(forwarding_table') = ToSet(forwarding_table) \cup {new}
    BY <1>1, UpdatedEntries
  <2>2. /\ told' = [n \in Neighbors |->
              IF n \in Informed(k) THEN told[n] \cup {Prefix(m)} ELSE told[n]]
        /\ UNCHANGED revoked_addresses
    BY <1>1 DEF HandleUpdate
  <2>3. new.msg = m /\ new.from = k
    OBVIOUS
  <2> HIDE DEF m, new
  <2> SUFFICES ASSUME NEW e \in ToSet(forwarding_table'), NEW n \in Neighbors, Exportable(e, n)
               PROVE  \/ Prefix(e.msg) \in told'[n]
                      \/ \E j \in Neighbors \ {e.from} : Prefix(e.msg) \in revoked_addresses'[j]
    BY DEF RoutedIsTold, Exportable
  <2>4. CASE e \in ToSet(forwarding_table)
    BY <2>2, <2>4 DEF RoutedIsTold
  <2>5. CASE e = new
    <3>1. n \in Informed(k)
      BY <2>3, <2>5, InformedOfExportable
    <3> QED BY <2>2, <2>3, <2>5, <3>1
  <2> QED BY <2>1, <2>4, <2>5
<1>2. ASSUME NEW k \in Neighbors, HandleWithdraw(k) PROVE RoutedIsTold'
  <2> DEFINE P == Head(inbox[k]).body
  <2>1. \A e : e \in ToSet(forwarding_table') <=>
              e \in ToSet(forwarding_table) /\ ~(Prefix(e.msg) \in P /\ e.from = k)
    BY <1>2, WithdrawnEntriesGo
  <2>2. /\ told' = [n \in Neighbors |-> IF n \in Informed(k) THEN told[n] \ P ELSE told[n]]
        /\ revoked_addresses' = [revoked_addresses EXCEPT ![k] = revoked_addresses[k] \cup P]
    BY <1>2 DEF HandleWithdraw
  <2> HIDE DEF P
  <2>3. /\ \A j \in Neighbors : revoked_addresses[j] \subseteq revoked_addresses'[j]
        /\ P \subseteq revoked_addresses'[k]
    BY <2>2 DEF RInv, GoodTold
  <2> SUFFICES ASSUME NEW e \in ToSet(forwarding_table'), NEW n \in Neighbors, Exportable(e, n)
               PROVE  \/ Prefix(e.msg) \in told'[n]
                      \/ \E j \in Neighbors \ {e.from} : Prefix(e.msg) \in revoked_addresses'[j]
    BY DEF RoutedIsTold, Exportable
  <2>4. e \in ToSet(forwarding_table) /\ ~(Prefix(e.msg) \in P /\ e.from = k)
    BY <2>1
  <2>5. \/ Prefix(e.msg) \in told[n]
        \/ \E j \in Neighbors \ {e.from} : Prefix(e.msg) \in revoked_addresses[j]
    BY <2>4 DEF RoutedIsTold
  <2>6. CASE Prefix(e.msg) \in P
    BY <2>3, <2>4, <2>6
  <2>7. CASE Prefix(e.msg) \notin P
    BY <2>2, <2>3, <2>5, <2>7
  <2> QED BY <2>6, <2>7
<1>3. CASE UNCHANGED <<forwarding_table, revoked_addresses, told>>
  BY <1>3 DEF RoutedIsTold, Exportable
<1> QED BY <1>1, <1>2, <1>3, OtherSteps

(* A neighbor is told of all such routes, unless another neighbor has      *)
(* withdrawn the network at some time.                                     *)
THEOREM RoutedTold ==
    ASSUME SeparateNeighbors, OneUpdateEach
    PROVE  Spec => []RoutedIsTold
<1>1. Init => RoutedIsTold
  <2>1. Init => forwarding_table = <<>> /\ DOMAIN <<>> = {}
    BY EmptySeq DEF Init
  <2> QED BY <2>1 DEF RoutedIsTold, ToSet
<1>2. RInv /\ CurInv /\ RoutedIsTold /\ [Next]_vars => RoutedIsTold'
  BY RoutedNext
<1> QED BY <1>1, <1>2, TableInvariance, PTL DEF Spec

(* Data for what its sender has been told of: the best route is the route  *)
(* taken, and it is passed on if and only if that one is open.             *)
LEMMA ToldWorks ==
    ASSUME RInv, ToldIsRouted
    PROVE  ToldRoutesWork
<1> SUFFICES ASSUME NEW n \in Neighbors, NEW p \in told[n], NEW a \in Address,
                    matched_subnet(a, p)
             PROVE  LET routes == Candidates(forwarding_table, a)
                        open   == {e \in routes : Exportable(e, n)}
                        hidden == routes \ open
                    IN  /\ Answer(n, a) # {}
                        /\ (\E x \in open : \A y \in hidden : Beats(x, y)) => PassedOn(n, a)
                        /\ (\E y \in hidden : \A x \in open : Beats(y, x)) => ~PassedOn(n, a)
  BY DEF ToldRoutesWork
<1> DEFINE routes == Candidates(forwarding_table, a)
           open == {e \in routes : Exportable(e, n)}
           hidden == routes \ open
           best == BestRoute(forwarding_table, a)[1]
<1>1. PICK e \in ToSet(forwarding_table) : Prefix(e.msg) = p /\ Exportable(e, n)
  BY DEF ToldIsRouted
<1>2. e \in routes
  BY <1>1, MatchedByPrefix DEF Candidates
<1>3. Answer(n, a) # {} /\ best \in routes /\ Best(best, routes) /\ routes \subseteq RouterEntry
  BY <1>2, AnswerKinds, RouteFound DEF RInv
<1>4. \A x \in routes : ~Beats(x, best)
  <2> SUFFICES ASSUME NEW x \in routes PROVE ~Beats(x, best)
    OBVIOUS
  <2>1. x \in Entry /\ best \in Entry
    BY <1>3 DEF RouterEntry
  <2>2. ~Better(x, best)
    BY <1>3 DEF Best
  <2> HIDE DEF routes, best
  <2> QED BY <2>1, <2>2, RulesAreAlike DEF Beats
<1>5. /\ \A packet \in Answer(n, a) :
            \/ packet.to = n /\ packet.type = ROUTELESS
            \/ packet.to = best.from /\ packet.type = DATA /\ packet.body = a
      /\ (Relation[n] = CUSTOMER \/ Relation[best.from] = CUSTOMER)
            => Answer(n, a) = {Packet(best.from, DATA, a)}
      /\ ~(Relation[n] = CUSTOMER \/ Relation[best.from] = CUSTOMER)
            => Answer(n, a) = {Packet(n, ROUTELESS, a)}
  BY <1>3, AnswerKinds DEF RInv
<1> HIDE DEF routes, best
<1>6. Exportable(best, n) => PassedOn(n, a)
  <2> SUFFICES ASSUME Exportable(best, n) PROVE PassedOn(n, a)
    OBVIOUS
  <2>1. best.from # n /\ Answer(n, a) = {Packet(best.from, DATA, a)}
    BY <1>5 DEF Exportable
  <2> QED BY <2>1 DEF PassedOn, Packet
<1>7. ~Exportable(best, n) => ~PassedOn(n, a)
  <2> SUFFICES ASSUME ~Exportable(best, n) PROVE ~PassedOn(n, a)
    OBVIOUS
  <2>1. PICK packet \in Answer(n, a) : TRUE
    BY <1>3
  <2>2. CASE best.from = n
    <3>1. packet.to = n
      BY <1>5, <2>1, <2>2
    <3> QED BY <2>1, <3>1 DEF PassedOn
  <2>3. CASE best.from # n
    <3>1. ~(Relation[n] = CUSTOMER \/ Relation[best.from] = CUSTOMER)
      BY <2>3 DEF Exportable
    <3>2. packet.type = ROUTELESS
      BY <1>5, <2>1, <3>1 DEF Packet
    <3> QED BY <2>1, <3>2 DEF PassedOn, DATA, ROUTELESS
  <2> QED BY <2>2, <2>3
<1>8. ASSUME NEW x \in open, \A y \in hidden : Beats(x, y) PROVE PassedOn(n, a)
  BY <1>3, <1>4, <1>6, <1>8
<1>9. ASSUME NEW y \in hidden, \A x \in open : Beats(y, x) PROVE ~PassedOn(n, a)
  BY <1>3, <1>4, <1>7, <1>9
<1> QED BY <1>3, <1>8, <1>9 DEF routes

(* Data for a network its sender has been told of is answered; it is       *)
(* passed on where a route the sender may be told of beats the others, not *)
(* where a hidden one does: _inform_neighbors against _forward_packet, for *)
(* prefixes of any length and any preferences.                             *)
THEOREM ToldWork ==
    ASSUME SeparateNeighbors
    PROVE  Spec => []ToldRoutesWork
BY RouterInvariance, ToldRouted, ToldWorks, PTL

-----------------------------------------------------------------------------
(* Dumps.                                                                  *)

(* Announcements with the same attributes are of one neighbor (the path of *)
(* an update begins with the system of the neighbor that sends it), and    *)
(* their networks have no common address.                                  *)
SeparateNetworks ==
    \A n, k \in Neighbors : \A m \in Announcements[n] : \A x \in Announcements[k] :
        SameAttributes(m, x) => n = k /\ (m # x => NoCommon(m, x))

(* And so it is with what is in the table.                                 *)
LEMMA TableIsSeparated ==
    ASSUME SeparateNetworks, RInv
    PROVE  /\ forwarding_table \in Seq(Entry) /\ EachOnce(forwarding_table)
           /\ Separated(forwarding_table)
<1>1. forwarding_table \in Seq(RouterEntry) /\ EachOnce(forwarding_table)
  BY DEF RInv, GoodTable
<1>2. RouterEntry \subseteq Entry
  BY DEF RouterEntry
<1>3. ToSet(forwarding_table) \subseteq RouterEntry
  BY <1>1, RangeOfTable
<1>4. Separated(forwarding_table)
  <2> SUFFICES ASSUME NEW d \in RouterEntry, NEW e \in RouterEntry,
                      d # e, SameAttributes(d.msg, e.msg)
               PROVE  d.from = e.from /\ NoCommon(d.msg, e.msg)
    BY <1>3 DEF Separated
  <2>1. /\ d.from \in Neighbors /\ d.msg \in Announcements[d.from]
        /\ e.from \in Neighbors /\ e.msg \in Announcements[e.from]
    BY DEF RouterEntry
  <2>2. d.from = e.from
    BY <2>1 DEF SeparateNetworks
  <2>3. d.msg # e.msg
    BY <2>2 DEF RouterEntry, Entry
  <2> QED BY <2>1, <2>2, <2>3 DEF SeparateNetworks
<1> QED BY <1>1, <1>2, <1>4

(* A dump says of every address what the table says, whatever is           *)
(* aggregated for it.                                                      *)
THEOREM DumpExact ==
    ASSUME SeparateNetworks
    PROVE  Spec => []DumpIsExact
<1>1. RInv => DumpIsExact
  BY TableIsSeparated, DumpIs DEF DumpIsExact
<1> QED BY <1>1, RouterInvariance, PTL

(* The loop of _aggregate_msg_group ends with nothing left to aggregate.   *)
THEOREM DumpCoalesced ==
    ASSUME SeparateNetworks
    PROVE  Spec => []DumpIsCoalesced
<1>1. RInv => DumpIsCoalesced
  BY TableIsSeparated, DumpIs DEF DumpIsCoalesced
<1> QED BY <1>1, RouterInvariance, PTL
=============================================================================
