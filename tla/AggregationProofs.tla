-------------------------- MODULE AggregationProofs --------------------------
(***************************************************************************)
(* What the aggregation of a table for a dump computes, for every width of *)
(* an address and every table.                                             *)
(*                                                                         *)
(* A round of the loop of _aggregate_msg_group keeps what the messages say *)
(* (RoundKeeps), and brings the loop nearer to its end (RoundComesNearer): *)
(* so the list that comes out says what the group said, and no two of its  *)
(* messages match (GroupIs).  DumpIs puts the neighbors together.          *)
(***************************************************************************)
EXTENDS Aggregation, FoldProofs, SequenceTheorems

Entry == [msg : UpdateMsg, from : Nat]

(* The entries of a table are the values of a sequence.                    *)
LEMMA RangeOfTable ==
    ASSUME NEW E, NEW table \in Seq(E)
    PROVE  /\ DOMAIN table = 1..Len(table) /\ Len(table) \in Nat
           /\ \A i \in DOMAIN table : table[i] \in E
           /\ ToSet(table) = {table[i] : i \in DOMAIN table}
           /\ ToSet(table) \subseteq E
BY LenProperties, ElementOfSeq DEF ToSet

-----------------------------------------------------------------------------
(* The table.                                                              *)

(* No message is twice in the table.                                       *)
EachOnce(table) == \A i, j \in DOMAIN table : table[i].msg = table[j].msg => i = j

(* Storing a message again changes who has sent it.                        *)
LEMMA StoredEntries ==
    ASSUME NEW E, NEW table \in Seq(E), EachOnce(table), NEW m, NEW n,
           [msg |-> m, from |-> n] \in E
    PROVE  /\ Stored(table, m, n) \in Seq(E)
           /\ EachOnce(Stored(table, m, n))
           /\ ToSet(Stored(table, m, n)) =
                 {e \in ToSet(table) : e.msg # m} \cup {[msg |-> m, from |-> n]}
<1> DEFINE new == [msg |-> m, from |-> n]
<1>1. /\ DOMAIN table = 1..Len(table) /\ Len(table) \in Nat
      /\ \A i \in DOMAIN table : table[i] \in E
      /\ ToSet(table) = {table[i] : i \in DOMAIN table}
  BY RangeOfTable
<1>2. new.msg = m
  OBVIOUS
<1> HIDE DEF new
<1>3. CASE \E e \in ToSet(table) : e.msg = m
  <2> DEFINE t == [i \in DOMAIN table |-> IF table[i].msg = m THEN new ELSE table[i]]
  <2>1. Stored(table, m, n) = t
    BY <1>3 DEF Stored, new
  <2>2. t \in Seq(E) /\ DOMAIN t = DOMAIN table
    BY <1>1 DEF new
  <2>3. EachOnce(t)
    BY <1>2 DEF EachOnce
  <2>4. ToSet(t) = {t[i] : i \in DOMAIN table}
    BY <2>2, RangeOfTable
  <2>5. PICK k \in DOMAIN table : table[k].msg = m
    BY <1>1, <1>3
  <2>6. ToSet(t) = {e \in ToSet(table) : e.msg # m} \cup {new}
    <3>1. t[k] = new
      BY <2>5
    <3>2. \A i \in DOMAIN table : t[i] \in {e \in ToSet(table) : e.msg # m} \cup {new}
      BY <1>1
    <3>3. \A i \in DOMAIN table : table[i].msg # m => t[i] = table[i]
      OBVIOUS
    <3> HIDE DEF t
    <3> QED BY <1>1, <2>4, <2>5, <3>1, <3>2, <3>3
  <2> HIDE DEF t
  <2> QED BY <2>1, <2>2, <2>3, <2>6 DEF new
<1>4. CASE ~\E e \in ToSet(table) : e.msg = m
  <2> DEFINE t == Append(table, new)
  <2>1. Stored(table, m, n) = t
    BY <1>4 DEF Stored, new
  <2>2. /\ t \in Seq(E) /\ DOMAIN t = 1 .. Len(table) + 1
        /\ \A i \in 1..Len(table) : t[i] = table[i]
        /\ t[Len(table) + 1] = new
    BY <1>1, AppendProperties DEF new
  <2> HIDE DEF t
  <2>3. \A i \in DOMAIN table : table[i].msg # m
    BY <1>1, <1>4
  <2>4. EachOnce(t)
    <3> SUFFICES ASSUME NEW i \in DOMAIN t, NEW j \in DOMAIN t, t[i].msg = t[j].msg
                 PROVE  i = j
      BY DEF EachOnce
    <3>1. i \in 1..Len(table) \/ i = Len(table) + 1
      BY <1>1, <2>2
    <3>2. j \in 1..Len(table) \/ j = Len(table) + 1
      BY <1>1, <2>2
    <3> QED BY <1>1, <1>2, <2>2, <2>3, <3>1, <3>2 DEF EachOnce
  <2>5. ToSet(t) = {t[i] : i \in 1 .. Len(table) + 1}
    BY <2>2, RangeOfTable
  <2>6. ToSet(t) = ToSet(table) \cup {new}
    <3>1. 1 .. Len(table) + 1 = 1..Len(table) \cup {Len(table) + 1}
      BY <1>1
    <3> QED BY <1>1, <2>2, <2>5, <3>1
  <2>7. ToSet(table) = {e \in ToSet(table) : e.msg # m}
    BY <1>4
  <2> QED BY <2>1, <2>2, <2>4, <2>6, <2>7 DEF new
<1> QED BY <1>3, <1>4
-----------------------------------------------------------------------------
(* Blocks of addresses.                                                    *)

(* Power is what its equation says.                                        *)
LEMMA PowerIs ==
    /\ \A n \in Nat : Power[n] \in Nat \ {0}
    /\ \A n \in Nat : Power[n + 1] = 2 * Power[n]
<1> DEFINE step == [x \in Nat |-> 2 * x]
           IsPower(f) == f = [n \in Nat |-> IF n = 0 THEN 1 ELSE 2 * f[n - 1]]
<1>1. PICK f \in [Nat -> Nat] : f[0] = 1 /\ \A n \in Nat : f[n + 1] = step[f[n]]
  <2> DEFINE X == Nat
             one == 1
  <2>1. one \in X /\ step \in [X -> X]
    OBVIOUS
  <2> HIDE DEF X, one, step
  <2>2. \E f \in [Nat -> X] : f[0] = one /\ \A n \in Nat : f[n + 1] = step[f[n]]
    BY <2>1, RecursionIsDefined
  <2> QED BY <2>2 DEF X, one
<1>2. \A n \in Nat : n # 0 => f[n] = 2 * f[n - 1]
  <2> SUFFICES ASSUME NEW n \in Nat, n # 0 PROVE f[n] = 2 * f[n - 1]
    OBVIOUS
  <2>1. n - 1 \in Nat /\ (n - 1) + 1 = n
    OBVIOUS
  <2> QED BY <1>1, <2>1
<1>3. IsPower(f)
  BY <1>1, <1>2
<1>4. Power = CHOOSE g : IsPower(g)
  BY DEF Power
<1>5. IsPower(Power)
  <2> HIDE DEF IsPower
  <2> QED BY <1>3, <1>4
<1> DEFINE T == {n \in Nat : Power[n] \in Nat \ {0}}
<1>6. 0 \in T
  BY <1>5
<1>7. ASSUME NEW n \in T PROVE n + 1 \in T
  BY <1>5
<1>8. T = Nat
  <2> HIDE DEF T
  <2>1. T \subseteq Nat
    BY DEF T
  <2> QED BY <1>6, <1>7, <2>1, NaturalInduction
<1>9. \A n \in Nat : Power[n] \in Nat \ {0}
  <2>1. \A n \in Nat : n \in T
    BY <1>8
  <2> QED BY <2>1
<1>10. \A n \in Nat : Power[n + 1] = 2 * Power[n]
  BY <1>5
<1> QED BY <1>9, <1>10

(* A block of twice the size is two blocks.                                *)
LEMMA QuotientOfTwice ==
    ASSUME NEW x \in Nat, NEW p \in Nat \ {0}
    PROVE  x \div (2 * p) = (x \div p) \div 2 /\ x \div p \in Nat
OBVIOUS

(* Messages that differ in their networks and lengths at most.             *)
LEMMA AttributesAre ==
    ASSUME NEW m \in UpdateMsg, NEW x \in UpdateMsg
    PROVE  SameAttributes(m, x) <=>
              /\ m.ASPath = x.ASPath /\ m.localpref = x.localpref
              /\ m.selfOrigin = x.selfOrigin /\ m.origin = x.origin
<1>1. m = [network |-> m.network, length |-> m.length, ASPath |-> m.ASPath,
           localpref |-> m.localpref, selfOrigin |-> m.selfOrigin, origin |-> m.origin]
  BY DEF UpdateMsg
<1> DEFINE y == [x EXCEPT !.network = m.network, !.length = m.length]
<1>2. /\ y.network = m.network /\ y.length = m.length /\ y.ASPath = x.ASPath
      /\ y.localpref = x.localpref /\ y.selfOrigin = x.selfOrigin /\ y.origin = x.origin
  BY DEF UpdateMsg
<1>3. y \in UpdateMsg
  BY DEF UpdateMsg
<1> HIDE DEF y
<1>4. y = [network |-> y.network, length |-> y.length, ASPath |-> y.ASPath,
           localpref |-> y.localpref, selfOrigin |-> y.selfOrigin, origin |-> y.origin]
  BY <1>3 DEF UpdateMsg
<1>5. SameAttributes(m, x) <=> m = y
  BY DEF SameAttributes, y
<1> QED BY <1>1, <1>2, <1>4, <1>5

(* What a message of a network matches.                                    *)
LEMMA MatchesIs ==
    ASSUME NEW m \in UpdateMsg, NEW x \in UpdateMsg
    PROVE  Matches(m, x) <=>
              /\ SameAttributes(m, x) /\ m.length = x.length
              /\ m.network \div Power[prefix_shift_amount(m) + 1]
                    = x.network \div Power[prefix_shift_amount(m) + 1]
<1>1. m = [x EXCEPT !.network = m.network] <=> SameAttributes(m, x) /\ m.length = x.length
  <2>1. m = [network |-> m.network, length |-> m.length, ASPath |-> m.ASPath,
             localpref |-> m.localpref, selfOrigin |-> m.selfOrigin, origin |-> m.origin]
    BY DEF UpdateMsg
  <2>2. x = [network |-> x.network, length |-> x.length, ASPath |-> x.ASPath,
             localpref |-> x.localpref, selfOrigin |-> x.selfOrigin, origin |-> x.origin]
    BY DEF UpdateMsg
  <2>3. [x EXCEPT !.network = m.network] =
              [network |-> m.network, length |-> x.length, ASPath |-> x.ASPath,
               localpref |-> x.localpref, selfOrigin |-> x.selfOrigin, origin |-> x.origin]
    BY <2>2
  <2> QED BY <2>1, <2>3, AttributesAre
<1> QED BY <1>1 DEF Matches

(* The types of an address and of a shift.                                 *)
LEMMA ShiftIs ==
    ASSUME NEW m \in UpdateMsg
    PROVE  /\ m.network \in Address /\ m.network \in Nat /\ m.length \in 0..Width
           /\ Width \in Nat /\ Address \subseteq Nat
           /\ prefix_shift_amount(m) \in Nat
           /\ Power[prefix_shift_amount(m)] \in Nat \ {0}
           /\ Power[prefix_shift_amount(m) + 1] = 2 * Power[prefix_shift_amount(m)]
           /\ matched_subnet(m.network, m)
<1>1. m.network \in Address /\ m.length \in 0..Width /\ Width \in Nat
  BY WidthAssumption DEF UpdateMsg
<1>2. Address \subseteq Nat
  BY <1>1, PowerIs DEF Address
<1>3. prefix_shift_amount(m) \in Nat
  BY <1>1 DEF prefix_shift_amount
<1> QED BY <1>1, <1>2, <1>3, PowerIs DEF matched_subnet

(* No address is of both networks.                                         *)
NoCommon(m, x) == \A a \in Address : ~(matched_subnet(a, m) /\ matched_subnet(a, x))

(* Two messages with no common address that match are the two halves of a  *)
(* network with one bit less.                                              *)
LEMMA MatchedHalves ==
    ASSUME NEW m \in UpdateMsg, NEW x \in UpdateMsg, Matches(m, x), NoCommon(m, x)
    PROVE  /\ m.length > 0
           /\ \A a \in Address :
                 a \div Power[prefix_shift_amount(m) + 1]
                       = m.network \div Power[prefix_shift_amount(m) + 1]
                    <=> matched_subnet(a, m) \/ matched_subnet(a, x)
<1> DEFINE k == prefix_shift_amount(m)
           p == Power[k]
           q == Power[k + 1]
<1>1. /\ m.network \in Nat /\ x.network \in Nat /\ p \in Nat \ {0} /\ q = 2 * p
      /\ x.network \in Address /\ m.network \in Address /\ Address \subseteq Nat
      /\ m.length \in 0..Width /\ Width \in Nat
  BY ShiftIs
<1>2. prefix_shift_amount(x) = k /\ m.network \div q = x.network \div q
  BY MatchesIs DEF prefix_shift_amount
<1>3. \A a \in Nat : a \div q = (a \div p) \div 2 /\ a \div p \in Nat
  BY <1>1, QuotientOfTwice
<1>4. m.network \div p # x.network \div p
  <2>1. ~matched_subnet(m.network, x)
    BY <1>1, ShiftIs DEF NoCommon
  <2> QED BY <1>2, <2>1 DEF matched_subnet
<1>5. /\ \A a \in Address : matched_subnet(a, m) <=> m.network \div p = a \div p
      /\ \A a \in Address : matched_subnet(a, x) <=> x.network \div p = a \div p
  BY <1>2 DEF matched_subnet
<1>6. m.length > 0
  <2> SUFFICES ASSUME m.length = 0 PROVE FALSE
    BY <1>1
  <2>1. k = Width
    BY <1>1 DEF prefix_shift_amount
  <2>2. m.network < p /\ x.network < p
    BY <1>1, <2>1 DEF Address
  <2>3. m.network \div p = 0 /\ x.network \div p = 0
    BY <1>1, <2>2
  <2> QED BY <1>4, <2>3
<1> HIDE DEF k, p, q
<1>7. ASSUME NEW a \in Address
      PROVE  a \div q = m.network \div q <=> a \div p = m.network \div p \/ a \div p = x.network \div p
  <2> DEFINE ap == a \div p
             mp == m.network \div p
             xp == x.network \div p
  <2>1. /\ ap \in Nat /\ mp \in Nat /\ xp \in Nat /\ mp # xp /\ mp \div 2 = xp \div 2
        /\ a \div q = ap \div 2 /\ m.network \div q = mp \div 2
    BY <1>1, <1>2, <1>3, <1>4
  <2> HIDE DEF ap, mp, xp
  <2>2. ap \div 2 = mp \div 2 <=> ap = mp \/ ap = xp
    BY <2>1
  <2> QED BY <2>1, <2>2 DEF ap, mp, xp
<1> QED BY <1>5, <1>6, <1>7 DEF q, k

-----------------------------------------------------------------------------
(* The elements of a sequence that are in a set.                           *)

(* r has those of the first i elements of s that are in T: each once.      *)
Chosen(r, s, T, i) ==
    /\ Len(r) <= i
    /\ (\E j \in 1..i : s[j] \notin T) => Len(r) < i
    /\ (\A j \in 1..i : s[j] \in T) => Len(r) = i /\ \A k \in 1..i : r[k] = s[k]
    /\ \E g \in [1..Len(r) -> 1..i] :
          /\ \A k \in 1..Len(r) : r[k] = s[g[k]] /\ s[g[k]] \in T
          /\ \A k, l \in 1..Len(r) : g[k] = g[l] => k = l
          /\ \A j \in 1..i : s[j] \in T => \E k \in 1..Len(r) : g[k] = j

(* One element more.                                                       *)
LEMMA ChosenNext ==
    ASSUME NEW E, NEW s \in Seq(E), NEW T, NEW i \in 1..Len(s), NEW r \in Seq(E),
           Chosen(r, s, T, i - 1)
    PROVE  LET next == IF s[i] \in T THEN Append(r, s[i]) ELSE r
           IN  next \in Seq(E) /\ Chosen(next, s, T, i)
<1>1. /\ Len(s) \in Nat /\ i \in Nat /\ i >= 1 /\ i - 1 \in Nat /\ s[i] \in E /\ Len(r) \in Nat
      /\ Len(r) <= i - 1
      /\ 1..i = (1 .. i - 1) \cup {i} /\ i \notin 1 .. i - 1
  <2>1. Len(s) \in Nat /\ Len(r) \in Nat /\ s[i] \in E
    BY LenProperties, ElementOfSeq
  <2> QED BY <2>1 DEF Chosen
<1>2. PICK g \in [1..Len(r) -> 1 .. i - 1] :
          /\ \A k \in 1..Len(r) : r[k] = s[g[k]] /\ s[g[k]] \in T
          /\ \A k, l \in 1..Len(r) : g[k] = g[l] => k = l
          /\ \A j \in 1 .. i - 1 : s[j] \in T => \E k \in 1..Len(r) : g[k] = j
  BY DEF Chosen
<1>3. CASE s[i] \notin T
  <2>1. Len(r) < i
    BY <1>1
  <2>2. ~\A j \in 1..i : s[j] \in T
    BY <1>1, <1>3
  <2>3. g \in [1..Len(r) -> 1..i]
    BY <1>1, <1>2
  <2>4. \A j \in 1..i : s[j] \in T => \E k \in 1..Len(r) : g[k] = j
    BY <1>1, <1>2, <1>3
  <2>5. \E f \in [1..Len(r) -> 1..i] :
           /\ \A k \in 1..Len(r) : r[k] = s[f[k]] /\ s[f[k]] \in T
           /\ \A k, l \in 1..Len(r) : f[k] = f[l] => k = l
           /\ \A j \in 1..i : s[j] \in T => \E k \in 1..Len(r) : f[k] = j
    BY <1>2, <2>3, <2>4
  <2>6. Len(r) <= i
    BY <1>1
  <2>7. Chosen(r, s, T, i)
    BY <2>1, <2>2, <2>5, <2>6 DEF Chosen
  <2> QED BY <1>3, <2>7
<1>4. CASE s[i] \in T
  <2> DEFINE n == Len(r) + 1
             t == Append(r, s[i])
             h == [k \in 1..n |-> IF k = n THEN i ELSE g[k]]
  <2>1. /\ t \in Seq(E) /\ Len(t) = n /\ t[n] = s[i]
        /\ \A k \in 1..Len(r) : t[k] = r[k]
    BY <1>1, AppendProperties
  <2>2. /\ n \in Nat /\ n >= 1 /\ n <= i /\ 1..n = (1..Len(r)) \cup {n} /\ n \notin 1..Len(r)
    BY <1>1
  <2> HIDE DEF n, t
  <2>3. h \in [1..n -> 1..i] /\ h[n] = i /\ \A k \in 1..Len(r) : h[k] = g[k] /\ g[k] \in 1 .. i - 1
    BY <1>1, <1>2, <2>2
  <2> HIDE DEF h
  <2>4. \A k \in 1..n : t[k] = s[h[k]] /\ s[h[k]] \in T
    BY <1>2, <1>4, <2>1, <2>2, <2>3
  <2>5. \A k, l \in 1..n : h[k] = h[l] => k = l
    BY <1>1, <1>2, <2>2, <2>3
  <2>6. \A j \in 1..i : s[j] \in T => \E k \in 1..n : h[k] = j
    <3> SUFFICES ASSUME NEW j \in 1..i, s[j] \in T PROVE \E k \in 1..n : h[k] = j
      OBVIOUS
    <3>1. CASE j = i
      BY <2>2, <2>3, <3>1
    <3>2. CASE j # i
      <4>1. PICK k \in 1..Len(r) : g[k] = j
        BY <1>1, <1>2, <3>2
      <4> QED BY <2>2, <2>3, <4>1
    <3> QED BY <3>1, <3>2
  <2>7. (\E j \in 1..i : s[j] \notin T) => n < i
    <3> SUFFICES ASSUME NEW j \in 1..i, s[j] \notin T PROVE n < i
      OBVIOUS
    <3>1. j \in 1 .. i - 1
      BY <1>1, <1>4
    <3>2. Len(r) < i - 1
      BY <3>1 DEF Chosen
    <3> QED BY <1>1, <3>2 DEF n
  <2>8. (\A j \in 1..i : s[j] \in T) => n = i /\ \A k \in 1..i : t[k] = s[k]
    <3> SUFFICES ASSUME \A j \in 1..i : s[j] \in T PROVE n = i /\ \A k \in 1..i : t[k] = s[k]
      OBVIOUS
    <3>1. Len(r) = i - 1 /\ \A k \in 1 .. i - 1 : r[k] = s[k]
      BY <1>1 DEF Chosen
    <3>2. n = i
      BY <1>1, <3>1 DEF n
    <3> QED BY <1>1, <2>1, <3>1, <3>2
  <2>9. Chosen(t, s, T, i)
    <3>1. n <= i /\ Len(t) = n
      BY <2>1, <2>2
    <3>2. /\ (\E j \in 1..i : s[j] \notin T) => Len(t) < i
          /\ (\A j \in 1..i : s[j] \in T) => Len(t) = i /\ \A j \in 1..i : t[j] = s[j]
      BY <2>7, <2>8, <3>1
    <3>3. h \in [1..Len(t) -> 1..i]
      BY <2>3, <3>1
    <3>4. \A j \in 1..Len(t) : t[j] = s[h[j]] /\ s[h[j]] \in T
      BY <2>4, <3>1
    <3>5. \A j, l \in 1..Len(t) : h[j] = h[l] => j = l
      BY <2>5, <3>1
    <3>6. \A j \in 1..i : s[j] \in T => \E l \in 1..Len(t) : h[l] = j
      BY <2>6, <3>1
    <3>7. \E f \in [1..Len(t) -> 1..i] :
             /\ \A j \in 1..Len(t) : t[j] = s[f[j]] /\ s[f[j]] \in T
             /\ \A j, l \in 1..Len(t) : f[j] = f[l] => j = l
             /\ \A j \in 1..i : s[j] \in T => \E l \in 1..Len(t) : f[l] = j
      <4> HIDE DEF t
      <4> QED BY <3>3, <3>4, <3>5, <3>6
    <3>8. Len(t) <= i
      BY <3>1
    <3> QED BY <3>2, <3>7, <3>8 DEF Chosen
  <2> QED BY <1>4, <2>1, <2>9 DEF t
<1> QED BY <1>3, <1>4

(* Among goes through the sequence in order.                               *)
LEMMA AmongRuns ==
    ASSUME NEW E, NEW s \in Seq(E), NEW T
    PROVE  Among(s, T) \in Seq(E) /\ Chosen(Among(s, T), s, T, Len(s))
<1> DEFINE n == Len(s)
           X == Seq(E)
           base == <<>>
           Turn(i, r) == IF s[i] \in T THEN Append(r, s[i]) ELSE r
           step == [i \in 1..n |-> [r \in X |-> Turn(i, r)]]
           IsFoldLeft(g) == g = [S \in SUBSET (1..n) |->
                               IF S = {} THEN base ELSE Turn(Max(S), g[S \ {Max(S)}])]
           loop == CHOOSE g : IsFoldLeft(g)
<1>1. n \in Nat /\ DOMAIN s = 1..n /\ \A i \in 1..n : s[i] \in E
  BY LenProperties, ElementOfSeq
<1>2. Among(s, T) = loop[1..n]
  BY <1>1 DEF Among, FoldLeft, MapThenFoldSet
<1>3. step \in [1..n -> [X -> X]] /\ base \in X
  BY <1>1, AppendProperties
<1>4. \A i \in 1..n : \A r \in X : step[i][r] = Turn(i, r)
  OBVIOUS
<1>5. IsFoldLeft(loop)
  <2>1. PICK g \in [SUBSET (1..n) -> X] : IsFoldLoop(g, n, X, base, step)
    <3> HIDE DEF n, X, step, base
    <3> QED BY <1>1, <1>3, LoopIsDefined
  <2>2. \A S \in (SUBSET (1..n)) \ {{}} : g[S] = Turn(Max(S), g[S \ {Max(S)}])
    <3> HIDE DEF Turn, step, X
    <3> QED BY <1>4, <2>1 DEF IsFoldLoop
  <2>3. g[{}] = base
    BY <2>1 DEF IsFoldLoop
  <2>4. IsFoldLeft(g)
    <3> HIDE DEF Turn, X, base
    <3> QED BY <2>1, <2>2, <2>3
  <2> HIDE DEF IsFoldLeft
  <2> QED BY <2>4
<1> HIDE DEF loop
<1>6. /\ loop[{}] = base
      /\ \A S \in (SUBSET (1..n)) \ {{}} : loop[S] = Turn(Max(S), loop[S \ {Max(S)}])
  <2> HIDE DEF Turn, base
  <2> QED BY <1>5
<1>7. Turns(loop, n, X, base, step)
  <2>1. \A S \in (SUBSET (1..n)) \ {{}} : Max(S) \in 1..n
    BY <1>1, MaxPicks
  <2> HIDE DEF Turn, step, X, base, n
  <2> QED BY <1>4, <1>6, <2>1 DEF Turns
<1>8. PICK f \in [0..n -> X] : Runs(f, n, base, step, loop[1..n])
  <2>1. n \in Nat /\ base \in X /\ step \in [1..n -> [X -> X]]
    BY <1>1, <1>3
  <2> HIDE DEF n, X, step, Turn, base, IsFoldLeft
  <2> QED BY <1>7, <2>1, LoopRuns
<1> DEFINE U == {i \in 0..n : Chosen(f[i], s, T, i)}
<1>9. 0 \in U
  <2>1. Chosen(<<>>, s, T, 0)
    <3>1. 1..0 = {} /\ Len(<<>>) = 0
      OBVIOUS
    <3>2. [k \in {} |-> 0] \in [1..0 -> 1..0]
      BY <3>1
    <3> QED BY <3>1, <3>2 DEF Chosen
  <2> QED BY <1>1, <1>8, <2>1 DEF Runs
<1>10. ASSUME NEW i \in 1..n, i - 1 \in U PROVE i \in U
  <2>1. i - 1 \in 0..n /\ i \in 0..n /\ f[i - 1] \in X /\ Chosen(f[i - 1], s, T, i - 1)
    <3>1. i - 1 \in 0..n /\ i \in 0..n
      BY <1>1
    <3> QED BY <1>8, <1>10, <3>1
  <2>2. f[i] = Turn(i, f[i - 1])
    <3> HIDE DEF Turn, step
    <3> QED BY <1>4, <1>8, <2>1 DEF Runs
  <2>3. Chosen(f[i], s, T, i)
    BY <2>1, <2>2, ChosenNext
  <2> QED BY <2>1, <2>3
<1>11. U = 0..n
  <2> HIDE DEF U, n
  <2>1. U \subseteq 0..n
    BY DEF U
  <2> QED BY <1>1, <1>9, <1>10, <2>1, RangeInduction
<1>12. n \in 0..n
  BY <1>1
<1>13. Chosen(f[n], s, T, n) /\ f[n] \in X
  BY <1>8, <1>11, <1>12 DEF Runs
<1> QED BY <1>2, <1>8, <1>13 DEF Runs

(* The places of the elements of r in s.                                   *)
Placed(r, s) ==
    \E g \in [1..Len(r) -> 1..Len(s)] :
        /\ \A k \in 1..Len(r) : r[k] = s[g[k]]
        /\ \A k, l \in 1..Len(r) : g[k] = g[l] => k = l

(* Each of the elements that are in T, and none twice.                     *)
LEMMA AmongIs ==
    ASSUME NEW E, NEW s \in Seq(E), NEW T
    PROVE  /\ Among(s, T) \in Seq(E) /\ Len(Among(s, T)) <= Len(s)
           /\ ToSet(Among(s, T)) = ToSet(s) \cap T
           /\ ~(ToSet(s) \subseteq T) => Len(Among(s, T)) < Len(s)
           /\ ToSet(s) \subseteq T => Among(s, T) = s
           /\ Placed(Among(s, T), s)
<1> DEFINE r == Among(s, T)
<1>1. r \in Seq(E) /\ Chosen(r, s, T, Len(s))
  BY AmongRuns
<1> HIDE DEF r
<1>2. /\ ToSet(s) = {s[i] : i \in 1..Len(s)} /\ ToSet(r) = {r[i] : i \in 1..Len(r)}
      /\ Len(s) \in Nat /\ Len(r) \in Nat
  BY <1>1, RangeOfTable
<1>3. PICK g \in [1..Len(r) -> 1..Len(s)] :
          /\ \A k \in 1..Len(r) : r[k] = s[g[k]] /\ s[g[k]] \in T
          /\ \A k, l \in 1..Len(r) : g[k] = g[l] => k = l
          /\ \A j \in 1..Len(s) : s[j] \in T => \E k \in 1..Len(r) : g[k] = j
  BY <1>1 DEF Chosen
<1>4. ToSet(r) \subseteq ToSet(s) \cap T
  BY <1>2, <1>3
<1>5. ToSet(s) \cap T \subseteq ToSet(r)
  <2> SUFFICES ASSUME NEW j \in 1..Len(s), s[j] \in T PROVE s[j] \in ToSet(r)
    BY <1>2
  <2>1. PICK k \in 1..Len(r) : g[k] = j
    BY <1>3
  <2> QED BY <1>2, <1>3, <2>1
<1>6. ToSet(s) \subseteq T => r = s
  <2> SUFFICES ASSUME ToSet(s) \subseteq T PROVE r = s
    OBVIOUS
  <2>1. Len(r) = Len(s) /\ \A k \in 1..Len(s) : r[k] = s[k]
    BY <1>1, <1>2 DEF Chosen
  <2> QED BY <1>1, <2>1
<1>7. ~(ToSet(s) \subseteq T) => Len(r) < Len(s)
  BY <1>1, <1>2 DEF Chosen
<1>8. Len(r) <= Len(s)
  BY <1>1 DEF Chosen
<1>9. Placed(r, s)
  BY <1>3 DEF Placed
<1> QED BY <1>1, <1>9, <1>4, <1>5, <1>6, <1>7, <1>8 DEF r

-----------------------------------------------------------------------------
(* A round of the loop of _aggregate_msg_group.                            *)

(* Messages of a list with the same attributes have no common address.     *)
Separate(l) == \A i, j \in 1..Len(l) : i # j /\ SameAttributes(l[i], l[j]) => NoCommon(l[i], l[j])

(* The addresses that messages of S with the attributes of m are for.      *)
Said(S, m) == {a \in Address : \E x \in S : SameAttributes(m, x) /\ matched_subnet(a, x)}

(* Having the same attributes is an equivalence.                           *)
LEMMA AttributesAlike ==
    ASSUME NEW m \in UpdateMsg, NEW x \in UpdateMsg, NEW y \in UpdateMsg
    PROVE  /\ SameAttributes(m, m)
           /\ SameAttributes(m, x) => SameAttributes(x, m)
           /\ SameAttributes(m, x) /\ SameAttributes(x, y) => SameAttributes(m, y)
BY AttributesAre

(* A network has an address, so no message is twice in such a list.        *)
LEMMA SeparateDiffer ==
    ASSUME NEW l \in Seq(UpdateMsg), Separate(l), NEW i \in 1..Len(l), NEW j \in 1..Len(l), i # j
    PROVE  l[i] # l[j]
<1> SUFFICES ASSUME l[i] = l[j] PROVE FALSE
  OBVIOUS
<1>1. l[i] \in UpdateMsg
  BY ElementOfSeq
<1>2. SameAttributes(l[i], l[i]) /\ l[i].network \in Address /\ matched_subnet(l[i].network, l[i])
  BY <1>1, AttributesAlike, ShiftIs
<1>3. NoCommon(l[i], l[i])
  BY <1>2 DEF Separate
<1> QED BY <1>2, <1>3 DEF NoCommon

(* A message combined with its matches is for the addresses of all.        *)
LEMMA CombinedIs ==
    ASSUME NEW m \in UpdateMsg, NEW C \in SUBSET UpdateMsg, C # {},
           \A x \in C : Matches(m, x) /\ NoCommon(m, x)
    PROVE  /\ Combined(m, C) \in UpdateMsg /\ SameAttributes(m, Combined(m, C))
           /\ \A a \in Address : matched_subnet(a, Combined(m, C)) <=>
                 matched_subnet(a, m) \/ \E x \in C : matched_subnet(a, x)
<1> DEFINE W == {m.network} \cup {x.network : x \in C}
           w == CHOOSE v \in W : \A u \in W : v <= u
           c == Combined(m, C)
           q == Power[prefix_shift_amount(m) + 1]
<1>1. W \subseteq Address /\ W \subseteq Nat /\ W # {}
  BY ShiftIs
<1>2. w \in W
  <2>1. \E v \in W : \A u \in W : v <= u
    <3> HIDE DEF W
    <3> QED BY <1>1, LeastNatural
  <2> HIDE DEF W
  <2> QED BY <2>1
<1>3. PICK y \in C : TRUE
  OBVIOUS
<1>4. m.length > 0 /\ m.length \in Nat /\ m.length <= Width /\ Width \in Nat
  <2>1. m.length > 0
    BY <1>3, MatchedHalves
  <2>2. m.length \in 0..Width /\ Width \in Nat
    BY ShiftIs
  <2> QED BY <2>1, <2>2
<1>5. c = [m EXCEPT !.network = w, !.length = m.length - 1]
  <2> HIDE DEF W
  <2>1. ~(m.length = 0)
    BY <1>4
  <2> QED BY <2>1 DEF Combined, W
<1>6. w \div q = m.network \div q
  <2>1. \A x \in C : m.network \div q = x.network \div q
    BY MatchesIs
  <2> HIDE DEF w, q
  <2> QED BY <1>2, <2>1
<1>7. w \in Address
  BY <1>1, <1>2
<1> HIDE DEF w, W, c
<1>8. c.network = w /\ c.length = m.length - 1
  BY <1>5 DEF UpdateMsg
<1>9. c \in UpdateMsg
  <2>1. m.length - 1 \in 0..Width
    BY <1>4
  <2> QED BY <1>5, <1>7, <2>1 DEF UpdateMsg
<1>10. SameAttributes(m, c)
  <2>1. /\ c.ASPath = m.ASPath /\ c.localpref = m.localpref
        /\ c.selfOrigin = m.selfOrigin /\ c.origin = m.origin
    BY <1>5 DEF UpdateMsg
  <2> QED BY <1>9, <2>1, AttributesAre
<1>11. prefix_shift_amount(c) = prefix_shift_amount(m) + 1
  BY <1>4, <1>8 DEF prefix_shift_amount
<1>12. ASSUME NEW a \in Address
       PROVE  matched_subnet(a, c) <=> matched_subnet(a, m) \/ \E x \in C : matched_subnet(a, x)
  <2>1. matched_subnet(a, c) <=> a \div q = m.network \div q
    BY <1>6, <1>8, <1>11 DEF matched_subnet
  <2>2. \A x \in C : a \div q = m.network \div q <=> matched_subnet(a, m) \/ matched_subnet(a, x)
    BY MatchedHalves
  <2> QED BY <1>3, <2>1, <2>2
<1> QED BY <1>9, <1>10, <1>12 DEF c

(* The list with its first element at the end.                             *)
Turned(l) == Append(Tail(l), Head(l))

(* It has the same elements, each one place to the front.                  *)
LEMMA TurnedIs ==
    ASSUME NEW E, NEW l \in Seq(E), l # <<>>
    PROVE  /\ Turned(l) \in Seq(E) /\ Turned(l) # <<>> /\ Len(Turned(l)) = Len(l)
           /\ Len(l) \in Nat \ {0}
           /\ \A k \in 1 .. Len(l) - 1 : Turned(l)[k] = l[k + 1]
           /\ Turned(l)[Len(l)] = l[1]
           /\ ToSet(Turned(l)) = ToSet(l)
<1> DEFINE t == Turned(l)
           n == Len(l)
<1>1. n \in Nat \ {0} /\ Head(l) = l[1] /\ l[1] \in E
  BY EmptySeq, ElementOfSeq
<1>2. /\ Tail(l) \in Seq(E) /\ Len(Tail(l)) = n - 1
      /\ \A k \in 1 .. n - 1 : Tail(l)[k] = l[k + 1]
  BY HeadTailProperties
<1>3. t \in Seq(E) /\ Len(t) = n /\ t[n] = l[1] /\ \A k \in 1 .. n - 1 : t[k] = l[k + 1]
  <2>1. /\ t \in Seq(E) /\ Len(t) = (n - 1) + 1 /\ t[(n - 1) + 1] = l[1]
        /\ \A k \in 1 .. n - 1 : t[k] = Tail(l)[k]
    BY <1>1, <1>2, AppendProperties DEF Turned
  <2>2. (n - 1) + 1 = n
    BY <1>1
  <2> HIDE DEF t, n
  <2> QED BY <1>2, <2>1, <2>2
<1> HIDE DEF t
<1>4. t # <<>>
  BY <1>1, <1>3
<1>5. ToSet(t) = {t[k] : k \in 1..n} /\ ToSet(l) = {l[k] : k \in 1..n}
  BY <1>3, RangeOfTable
<1> HIDE DEF n
<1>6. \A k \in 1..n : t[k] \in ToSet(l)
  <2> SUFFICES ASSUME NEW k \in 1..n PROVE t[k] \in ToSet(l)
    OBVIOUS
  <2>1. n \in Nat /\ 1 \in 1..n
    BY <1>1
  <2>2. CASE k = n
    BY <1>3, <1>5, <2>1, <2>2
  <2>3. CASE k # n
    <3>1. k \in 1 .. n - 1 /\ k + 1 \in 1..n
      BY <2>1, <2>3
    <3> QED BY <1>3, <1>5, <3>1
  <2> QED BY <2>2, <2>3
<1>7. \A k \in 1..n : l[k] \in ToSet(t)
  <2> SUFFICES ASSUME NEW k \in 1..n PROVE l[k] \in ToSet(t)
    OBVIOUS
  <2>1. n \in Nat /\ n \in 1..n
    BY <1>1
  <2>2. CASE k = 1
    BY <1>3, <1>5, <2>1, <2>2
  <2>3. CASE k # 1
    <3>1. k - 1 \in 1 .. n - 1 /\ k - 1 \in 1..n /\ (k - 1) + 1 = k
      BY <2>1, <2>3
    <3> QED BY <1>3, <1>5, <3>1
  <2> QED BY <2>2, <2>3
<1> QED BY <1>1, <1>3, <1>4, <1>5, <1>6, <1>7 DEF t, n

(* The list where its first element and the matches of that are combined.  *)
Mates(l) == {x \in ToSet(Tail(l)) : Matches(Head(l), x)}
Rest(l) == Among(Tail(l), ToSet(Tail(l)) \ Mates(l))
Merged(l) == Append(Rest(l), Combined(Head(l), Mates(l)))

(* Where the first element and the others of a list are.                   *)
LEMMA PartsOfList ==
    ASSUME NEW l \in Seq(UpdateMsg), l # <<>>, Separate(l)
    PROVE  /\ Head(l) = l[1] /\ l[1] \in UpdateMsg /\ Len(l) \in Nat \ {0}
           /\ Tail(l) \in Seq(UpdateMsg) /\ Len(Tail(l)) = Len(l) - 1
           /\ ToSet(Tail(l)) \subseteq UpdateMsg
           /\ ToSet(l) = {l[1]} \cup ToSet(Tail(l))
           /\ \A k \in 1 .. Len(l) - 1 : k + 1 \in 1..Len(l) /\ k + 1 # 1 /\ Tail(l)[k] = l[k + 1]
           /\ ToSet(Tail(l)) = {l[k + 1] : k \in 1 .. Len(l) - 1}
           /\ \A x \in Mates(l) : Matches(l[1], x) /\ NoCommon(l[1], x) /\ x \in UpdateMsg
<1> DEFINE n == Len(l)
           r == Tail(l)
<1>1. n \in Nat \ {0} /\ Head(l) = l[1] /\ l[1] \in UpdateMsg
  BY EmptySeq, ElementOfSeq
<1>2. r \in Seq(UpdateMsg) /\ Len(r) = n - 1 /\ \A k \in 1 .. n - 1 : r[k] = l[k + 1]
  BY HeadTailProperties
<1>3. \A k \in 1 .. n - 1 : k + 1 \in 1..n /\ k + 1 # 1
  BY <1>1
<1>4. ToSet(r) = {r[k] : k \in 1 .. n - 1} /\ ToSet(l) = {l[k] : k \in 1..n} /\ ToSet(r) \subseteq UpdateMsg
  BY <1>2, RangeOfTable
<1> HIDE DEF n, r
<1>5. ToSet(r) = {l[k + 1] : k \in 1 .. n - 1}
  BY <1>2, <1>4
<1>6. ToSet(l) = {l[1]} \cup ToSet(r)
  <2>1. \A k \in 1..n : k = 1 \/ (k - 1 \in 1 .. n - 1 /\ (k - 1) + 1 = k)
    BY <1>1
  <2>2. 1 \in 1..n
    BY <1>1
  <2> QED BY <1>3, <1>4, <1>5, <2>1, <2>2
<1>7. ASSUME NEW x \in Mates(l)
      PROVE  Matches(l[1], x) /\ NoCommon(l[1], x) /\ x \in UpdateMsg
  <2>1. Matches(l[1], x) /\ x \in ToSet(r) /\ x \in UpdateMsg
    BY <1>1, <1>4 DEF Mates, r
  <2>2. PICK k \in 1 .. n - 1 : x = l[k + 1]
    BY <1>5, <2>1
  <2>3. SameAttributes(l[1], x)
    BY <1>1, <2>1, MatchesIs
  <2>4. 1 \in 1..n /\ k + 1 \in 1..n /\ k + 1 # 1
    BY <1>1, <1>3
  <2> QED BY <2>1, <2>2, <2>3, <2>4 DEF Separate, n
<1> QED BY <1>1, <1>2, <1>3, <1>4, <1>5, <1>6, <1>7 DEF n, r

(* Such a list is shorter, says the same, and no two of its messages with  *)
(* the same attributes have a common address.                              *)
LEMMA MergedIs ==
    ASSUME NEW l \in Seq(UpdateMsg), l # <<>>, Separate(l), Mates(l) # {}
    PROVE  /\ Merged(l) \in Seq(UpdateMsg) /\ Merged(l) # <<>> /\ Separate(Merged(l))
           /\ Len(Merged(l)) \in 1 .. Len(l) - 1
           /\ Merged(l)[Len(Merged(l))] = Combined(Head(l), Mates(l))
           /\ \A m \in UpdateMsg : Said(ToSet(Merged(l)), m) = Said(ToSet(l), m)
<1> DEFINE n == Len(l)
           r == Tail(l)
           C == Mates(l)
           o == Rest(l)
           c == Combined(l[1], C)
           t == Merged(l)
           k == Len(o)
<1>1. /\ Head(l) = l[1] /\ l[1] \in UpdateMsg /\ n \in Nat \ {0}
      /\ r \in Seq(UpdateMsg) /\ Len(r) = n - 1 /\ ToSet(r) \subseteq UpdateMsg
      /\ ToSet(l) = {l[1]} \cup ToSet(r)
      /\ \A i \in 1 .. n - 1 : i + 1 \in 1..n /\ i + 1 # 1 /\ r[i] = l[i + 1]
      /\ ToSet(r) = {l[i + 1] : i \in 1 .. n - 1}
      /\ \A x \in C : Matches(l[1], x) /\ NoCommon(l[1], x) /\ x \in UpdateMsg
  BY PartsOfList
<1>2. C \subseteq ToSet(r) /\ C # {}
  BY DEF Mates
<1>3. /\ o \in Seq(UpdateMsg) /\ ToSet(o) = ToSet(r) \ C /\ k < n - 1
      /\ \E g \in [1..k -> 1 .. n - 1] :
            /\ \A i \in 1..k : o[i] = r[g[i]]
            /\ \A i, j \in 1..k : g[i] = g[j] => i = j
  <2>1. ~(ToSet(r) \subseteq ToSet(r) \ C)
    BY <1>2
  <2>2. ToSet(r) \cap (ToSet(r) \ C) = ToSet(r) \ C
    OBVIOUS
  <2> DEFINE T == ToSet(r) \ C
  <2>3. o = Among(r, T)
    BY DEF Rest
  <2> HIDE DEF o, r, C
  <2>4. ~(ToSet(r) \subseteq T) /\ ToSet(r) \cap T = T
    BY <2>1, <2>2
  <2> HIDE DEF T
  <2>5. /\ o \in Seq(UpdateMsg) /\ ToSet(o) = ToSet(r) \cap T
        /\ ~(ToSet(r) \subseteq T) => k < Len(r)
        /\ \E g \in [1..k -> 1..Len(r)] :
              /\ \A i \in 1..k : o[i] = r[g[i]]
              /\ \A i, j \in 1..k : g[i] = g[j] => i = j
    <3>1. /\ Among(r, T) \in Seq(UpdateMsg) /\ ToSet(Among(r, T)) = ToSet(r) \cap T
          /\ ~(ToSet(r) \subseteq T) => Len(Among(r, T)) < Len(r)
          /\ Placed(Among(r, T), r)
      BY <1>1, AmongIs
    <3> QED BY <2>3, <3>1 DEF k, Placed
  <2> QED BY <1>1, <2>4, <2>5 DEF T
<1>4. PICK g \in [1..k -> 1 .. n - 1] :
            /\ \A i \in 1..k : o[i] = r[g[i]]
            /\ \A i, j \in 1..k : g[i] = g[j] => i = j
  BY <1>3
<1>5. /\ c \in UpdateMsg /\ SameAttributes(l[1], c)
      /\ \A a \in Address : matched_subnet(a, c) <=>
            matched_subnet(a, l[1]) \/ \E x \in C : matched_subnet(a, x)
  <2> HIDE DEF C
  <2> QED BY <1>1, <1>2, CombinedIs
<1>6. t = Append(o, c)
  BY <1>1 DEF Merged
<1> HIDE DEF n, r, C, o, c, t, k
<1>7. /\ t \in Seq(UpdateMsg) /\ Len(t) = k + 1 /\ t[k + 1] = c /\ k \in Nat
      /\ \A i \in 1..k : t[i] = o[i]
  BY <1>3, <1>5, <1>6, AppendProperties, LenProperties DEF k
<1>8. \A i \in 1..k : g[i] \in 1 .. n - 1 /\ o[i] = l[g[i] + 1] /\ o[i] \in UpdateMsg /\ o[i] \in ToSet(o)
  <2>1. ToSet(o) = {o[i] : i \in 1..k} /\ ToSet(o) \subseteq UpdateMsg
    BY <1>3, RangeOfTable DEF k
  <2> QED BY <1>1, <1>4, <2>1
<1>9. ASSUME NEW i \in 1..k, NEW x \in {l[1]} \cup C, SameAttributes(l[1], o[i]) PROVE NoCommon(o[i], x)
  <2>1. PICK j \in 1..n : x = l[j] /\ j # g[i] + 1
    <3>1. CASE x = l[1]
      BY <1>1, <1>8, <3>1
    <3>2. CASE x \in C
      <4>1. PICK j \in 1 .. n - 1 : x = l[j + 1]
        BY <1>1, <1>2, <3>2
      <4>2. o[i] # x
        BY <1>3, <1>8, <3>2
      <4>3. j + 1 # g[i] + 1
        BY <1>8, <4>1, <4>2
      <4> QED BY <1>1, <4>1, <4>3
    <3> QED BY <3>1, <3>2
  <2>2. x \in UpdateMsg /\ SameAttributes(l[1], x)
    BY <1>1, AttributesAlike, MatchesIs
  <2>3. SameAttributes(o[i], x)
    BY <1>1, <1>8, <1>9, <2>2, AttributesAlike
  <2>4. g[i] + 1 \in 1..n
    BY <1>1, <1>8
  <2> QED BY <1>8, <2>1, <2>3, <2>4 DEF Separate, n
<1>10. ASSUME NEW i \in 1..k, SameAttributes(c, o[i]) PROVE NoCommon(c, o[i])
  <2>1. SameAttributes(l[1], o[i])
    BY <1>1, <1>5, <1>8, <1>10, AttributesAlike
  <2>2. \A x \in {l[1]} \cup C : NoCommon(o[i], x)
    BY <1>9, <2>1
  <2> QED BY <1>5, <2>2 DEF NoCommon
<1>11. Separate(t)
  <2> SUFFICES ASSUME NEW i \in 1 .. k + 1, NEW j \in 1 .. k + 1, i # j, SameAttributes(t[i], t[j])
               PROVE  NoCommon(t[i], t[j])
    BY <1>7 DEF Separate
  <2>1. (i \in 1..k \/ i = k + 1) /\ (j \in 1..k \/ j = k + 1)
    BY <1>7
  <2>2. CASE i \in 1..k /\ j \in 1..k
    <3>1. g[i] # g[j] /\ t[i] = l[g[i] + 1] /\ t[j] = l[g[j] + 1]
      BY <1>4, <1>7, <1>8, <2>2
    <3>2. g[i] \in 1 .. n - 1 /\ g[j] \in 1 .. n - 1
      BY <1>8, <2>2
    <3>3. g[i] + 1 \in 1..n /\ g[j] + 1 \in 1..n /\ g[i] + 1 # g[j] + 1
      <4>1. n \in Nat /\ g[i] \in Nat /\ g[j] \in Nat
        BY <1>1, <3>2
      <4> DEFINE a == g[i]
                 b == g[j]
      <4>2. a \in 1 .. n - 1 /\ b \in 1 .. n - 1 /\ a # b /\ n \in Nat
        BY <3>1, <3>2, <4>1
      <4> HIDE DEF a, b
      <4>3. a + 1 \in 1..n /\ b + 1 \in 1..n /\ a + 1 # b + 1
        BY <4>2
      <4> QED BY <4>3 DEF a, b
    <3> QED BY <3>1, <3>3 DEF Separate, n
  <2>3. CASE i \in 1..k /\ j = k + 1
    <3>1. t[i] = o[i] /\ t[j] = c /\ SameAttributes(c, o[i])
      BY <1>5, <1>7, <1>8, <2>3, AttributesAlike
    <3>2. NoCommon(c, o[i])
      BY <1>10, <2>3, <3>1
    <3> QED BY <3>1, <3>2 DEF NoCommon
  <2>4. CASE i = k + 1 /\ j \in 1..k
    <3>1. t[j] = o[j] /\ t[i] = c /\ SameAttributes(c, o[j])
      BY <1>7, <2>4
    <3> QED BY <1>10, <2>4, <3>1
  <2> QED BY <2>1, <2>2, <2>3, <2>4
<1>12. ToSet(t) = (ToSet(r) \ C) \cup {c}
  <2>1. ToSet(t) = {t[i] : i \in 1 .. k + 1} /\ ToSet(o) = {o[i] : i \in 1..k}
    BY <1>3, <1>7, RangeOfTable DEF k
  <2>2. k + 1 \in 1 .. k + 1 /\ \A i \in 1 .. k + 1 : i \in 1..k \/ i = k + 1
    BY <1>7
  <2>3. \A i \in 1..k : i \in 1 .. k + 1
    BY <1>7
  <2>4. \A i \in 1 .. k + 1 : t[i] \in ToSet(o) \cup {c}
    BY <1>7, <1>8, <2>2
  <2>5. \A i \in 1..k : o[i] \in ToSet(t)
    BY <1>7, <2>1, <2>3
  <2>6. c \in ToSet(t)
    BY <1>7, <2>1, <2>2
  <2>7. ToSet(t) = ToSet(o) \cup {c}
    BY <2>1, <2>4, <2>5, <2>6
  <2> QED BY <1>3, <2>7
<1>13. ASSUME NEW m \in UpdateMsg, NEW a \in Address
       PROVE  a \in Said(ToSet(t), m) <=> a \in Said(ToSet(l), m)
  <2>1. \A x \in C : SameAttributes(l[1], x) /\ x \in UpdateMsg
    BY <1>1, MatchesIs
  <2>2. SameAttributes(m, c) <=> SameAttributes(m, l[1])
    BY <1>1, <1>5, AttributesAlike
  <2>3. \A x \in C : SameAttributes(m, x) <=> SameAttributes(m, l[1])
    BY <1>1, <2>1, AttributesAlike
  <2>4. a \in Said(ToSet(t), m) <=> \E x \in ToSet(t) : SameAttributes(m, x) /\ matched_subnet(a, x)
    BY DEF Said
  <2>5. a \in Said(ToSet(l), m) <=> \E x \in ToSet(l) : SameAttributes(m, x) /\ matched_subnet(a, x)
    BY DEF Said
  <2> QED BY <1>1, <1>2, <1>5, <1>12, <2>2, <2>3, <2>4, <2>5
<1>14. \A m \in UpdateMsg : Said(ToSet(t), m) = Said(ToSet(l), m)
  <2>1. \A m \in UpdateMsg : Said(ToSet(t), m) \subseteq Address /\ Said(ToSet(l), m) \subseteq Address
    BY DEF Said
  <2> QED BY <1>13, <2>1
<1>15. t # <<>> /\ Len(t) \in 1 .. n - 1 /\ t[Len(t)] = Combined(Head(l), C)
  BY <1>1, <1>3, <1>7 DEF c
<1> QED BY <1>7, <1>11, <1>14, <1>15 DEF t, n, C

(* Matching goes both ways.                                                *)
LEMMA MatchesBack ==
    ASSUME NEW m \in UpdateMsg, NEW x \in UpdateMsg, Matches(m, x)
    PROVE  Matches(x, m)
<1>1. /\ SameAttributes(m, x) /\ m.length = x.length
      /\ m.network \div Power[prefix_shift_amount(m) + 1]
            = x.network \div Power[prefix_shift_amount(m) + 1]
  BY MatchesIs
<1>2. prefix_shift_amount(x) = prefix_shift_amount(m) /\ SameAttributes(x, m)
  BY <1>1, AttributesAlike DEF prefix_shift_amount
<1> QED BY <1>1, <1>2, MatchesIs

-----------------------------------------------------------------------------
(* The loop of _aggregate_msg_group.                                       *)

(* The states of the loop: the list says what the set S of messages said.  *)
Rounds(S) ==
    {s \in [list : Seq(UpdateMsg), last_edited : {<<>>} \cup {<<m>> : m \in UpdateMsg}] :
        /\ s.list # <<>> /\ Separate(s.list)
        /\ \A m \in UpdateMsg : Said(ToSet(s.list), m) = Said(S, m)}

(* The three ways a round can go.                                          *)
LEMMA RoundIs ==
    ASSUME NEW S, NEW s \in Rounds(S)
    PROVE  /\ s.last_edited = <<s.list[1]>> => AggregateStep(s) = s
           /\ s.last_edited # <<s.list[1]>> /\ Mates(s.list) # {} =>
                 AggregateStep(s) =
                    [list |-> Merged(s.list),
                     last_edited |-> <<Combined(Head(s.list), Mates(s.list))>>]
           /\ s.last_edited # <<s.list[1]>> /\ Mates(s.list) = {} =>
                 AggregateStep(s) =
                    [list |-> Turned(s.list),
                     last_edited |-> IF s.last_edited = <<>> THEN <<s.list[1]>>
                                                             ELSE s.last_edited]
<1> DEFINE l == s.list
<1>1. l \in Seq(UpdateMsg) /\ l # <<>> /\ Separate(l)
  BY DEF Rounds
<1>2. Head(l) = l[1] /\ Tail(l) \in Seq(UpdateMsg)
  BY <1>1, PartsOfList
<1>3. Mates(l) = {} => Rest(l) = Tail(l)
  <2> SUFFICES ASSUME Mates(l) = {} PROVE Rest(l) = Tail(l)
    OBVIOUS
  <2> HIDE DEF l
  <2>1. ToSet(Tail(l)) \subseteq ToSet(Tail(l)) \ Mates(l)
    OBVIOUS
  <2>2. Among(Tail(l), ToSet(Tail(l)) \ Mates(l)) = Tail(l)
    BY <1>2, <2>1, AmongIs
  <2> QED BY <2>2 DEF Rest
<1>4. AggregateStep(s) =
         IF s.last_edited = <<Head(l)>> THEN s
         ELSE IF Mates(l) # {}
         THEN [list |-> Append(Rest(l), Combined(Head(l), Mates(l))),
               last_edited |-> <<Combined(Head(l), Mates(l))>>]
         ELSE [list |-> Append(Rest(l), Head(l)),
               last_edited |-> IF s.last_edited = <<>> THEN <<Head(l)>> ELSE s.last_edited]
  BY DEF AggregateStep, Mates, Rest
<1> HIDE DEF l
<1> QED BY <1>2, <1>3, <1>4 DEF Merged, Turned, l

(* What the list says stays the same.                                      *)
LEMMA RoundKeeps ==
    ASSUME NEW S, NEW s \in Rounds(S)
    PROVE  AggregateStep(s) \in Rounds(S)
<1> DEFINE l == s.list
           c == Combined(Head(l), Mates(l))
<1>1. /\ l \in Seq(UpdateMsg) /\ l # <<>> /\ Separate(l)
      /\ s.last_edited \in {<<>>} \cup {<<m>> : m \in UpdateMsg}
      /\ \A m \in UpdateMsg : Said(ToSet(l), m) = Said(S, m)
  BY DEF Rounds
<1>2. l[1] \in UpdateMsg /\ Head(l) = l[1]
  BY <1>1, PartsOfList
<1>3. CASE s.last_edited = <<l[1]>>
  BY <1>3, RoundIs
<1>4. CASE s.last_edited # <<l[1]>> /\ Mates(l) # {}
  <2>1. AggregateStep(s) = [list |-> Merged(l), last_edited |-> <<c>>]
    BY <1>4, RoundIs
  <2> HIDE DEF l, c
  <2>2. /\ Merged(l) \in Seq(UpdateMsg) /\ Merged(l) # <<>> /\ Separate(Merged(l))
        /\ Len(Merged(l)) \in 1 .. Len(l) - 1
        /\ Merged(l)[Len(Merged(l))] = c
        /\ \A m \in UpdateMsg : Said(ToSet(Merged(l)), m) = Said(ToSet(l), m)
    BY <1>1, <1>4, MergedIs DEF c
  <2>3. c \in UpdateMsg
    <3>1. Len(Merged(l)) \in 1..Len(Merged(l))
      BY <2>2
    <3> QED BY <2>2, <3>1, ElementOfSeq
  <2> QED BY <1>1, <2>1, <2>2, <2>3 DEF Rounds
<1>5. CASE s.last_edited # <<l[1]>> /\ Mates(l) = {}
  <2> DEFINE e == IF s.last_edited = <<>> THEN <<l[1]>> ELSE s.last_edited
  <2>1. AggregateStep(s) = [list |-> Turned(l), last_edited |-> e]
    BY <1>5, RoundIs
  <2>2. e \in {<<>>} \cup {<<m>> : m \in UpdateMsg}
    BY <1>1, <1>2
  <2> HIDE DEF l, e
  <2> DEFINE n == Len(l)
             t == Turned(l)
  <2>3. /\ t \in Seq(UpdateMsg) /\ t # <<>> /\ Len(t) = n
        /\ n \in Nat \ {0}
        /\ \A k \in 1 .. n - 1 : t[k] = l[k + 1]
        /\ t[n] = l[1] /\ ToSet(t) = ToSet(l)
    BY <1>1, TurnedIs
  <2> HIDE DEF n, t
  <2>4. Separate(t)
    <3> SUFFICES ASSUME NEW i \in 1..n, NEW j \in 1..n, i # j, SameAttributes(t[i], t[j])
                 PROVE  NoCommon(t[i], t[j])
      BY <2>3 DEF Separate
    <3> DEFINE at(k) == IF k = n THEN 1 ELSE k + 1
    <3>1. at(i) \in 1..n /\ at(j) \in 1..n /\ at(i) # at(j)
      BY <2>3
    <3>2. \A k \in 1..n : k = n \/ k \in 1 .. n - 1
      BY <2>3
    <3>3. t[i] = l[at(i)] /\ t[j] = l[at(j)]
      BY <2>3, <3>2
    <3> HIDE DEF at
    <3> QED BY <1>1, <3>1, <3>3 DEF Separate, n
  <2> QED BY <1>1, <2>1, <2>2, <2>3, <2>4 DEF Rounds, t
<1> QED BY <1>3, <1>4, <1>5

(* p is where the message last edited is, behind the list at the start:    *)
(* what comes after it has been compared with all the others.              *)
Place(s, p) ==
    /\ p \in 1 .. Len(s.list) + 1
    /\ p = Len(s.list) + 1 => s.last_edited = <<>>
    /\ p <= Len(s.list) => s.last_edited = <<s.list[p]>>
    /\ \A j, k \in 1..Len(s.list) : j > p /\ j # k => ~Matches(s.list[j], s.list[k])

(* What gets smaller with each round: the list is shorter, or what was     *)
(* edited last one place nearer to the front.                              *)
Cost(s, p) == p + Len(s.list) * Len(s.list)

(* A list that is shorter costs less, wherever the place is.               *)
LEMMA SquareLess ==
    ASSUME NEW n \in Nat \ {0}, NEW k \in 1 .. n - 1
    PROVE  k * k \in Nat /\ n * n \in Nat /\ k + k * k < n * n
<1>1. n - 1 \in Nat /\ k \in Nat /\ k <= n - 1
  OBVIOUS
<1>2. k * k <= k * (n - 1) /\ k * (n - 1) <= (n - 1) * (n - 1) /\ k * k \in Nat
  BY <1>1
<1>3. (n - 1) * (n - 1) = n * n - 2 * n + 1 /\ n * n \in Nat
  OBVIOUS
<1> QED BY <1>1, <1>2, <1>3

(* None is not a message.                                                  *)
LEMMA SomeIsNotNone == \A m : <<m>> # <<>>
<1>1. \A m : Len(<<m>>) = 1 /\ Len(<<>>) = 0
  OBVIOUS
<1> QED BY <1>1

(* Each round brings the end of the loop nearer: p = 1, where it ends.     *)
LEMMA RoundComesNearer ==
    ASSUME NEW S, NEW s \in Rounds(S), NEW p, Place(s, p)
    PROVE  /\ p = 1 => AggregateStep(s) = s
           /\ p # 1 => \E q : /\ Place(AggregateStep(s), q)
                              /\ Cost(AggregateStep(s), q) < Cost(s, p)
<1> DEFINE l == s.list
           n == Len(l)
<1>1. /\ l \in Seq(UpdateMsg) /\ l # <<>> /\ Separate(l)
  BY DEF Rounds
<1>2. /\ l[1] \in UpdateMsg /\ Head(l) = l[1] /\ n \in Nat \ {0}
      /\ \A k \in 1 .. n - 1 : k + 1 \in 1..n /\ k + 1 # 1 /\ Tail(l)[k] = l[k + 1]
      /\ ToSet(Tail(l)) = {l[k + 1] : k \in 1 .. n - 1}
  BY <1>1, PartsOfList
<1>3. /\ p \in 1 .. n + 1
      /\ p = n + 1 => s.last_edited = <<>>
      /\ p <= n => s.last_edited = <<l[p]>>
      /\ \A j, k \in 1..n : j > p /\ j # k => ~Matches(l[j], l[k])
  BY DEF Place
<1> SUFFICES ASSUME p # 1
             PROVE  \E q : Place(AggregateStep(s), q) /\ Cost(AggregateStep(s), q) < Cost(s, p)
  <2>1. p = 1 => p <= n
    BY <1>2
  <2>2. p = 1 => s.last_edited = <<l[1]>>
    BY <1>3, <2>1
  <2>3. s.last_edited = <<l[1]>> => AggregateStep(s) = s
    BY RoundIs
  <2>4. p = 1 => AggregateStep(s) = s
    BY <2>2, <2>3
  <2> QED BY <2>4
<1>4. Cost(s, p) = p + n * n /\ p \in Nat /\ p >= 2 /\ n * n \in Nat
  BY <1>2, <1>3 DEF Cost
<1>5. s.last_edited # <<l[1]>>
  <2>1. CASE p = n + 1
    <3>1. s.last_edited = <<>>
      BY <1>3, <2>1
    <3> QED BY <3>1, SomeIsNotNone
  <2>2. CASE p <= n
    <3>1. p \in 1..n /\ 1 \in 1..n
      BY <1>2, <1>3, <2>2
    <3>2. l[p] # l[1]
      <4> HIDE DEF l
      <4> QED BY <1>1, <3>1, SeparateDiffer DEF n
    <3> QED BY <1>3, <2>2, <3>2
  <2> QED BY <1>2, <1>3, <2>1, <2>2
<1>6. CASE Mates(l) # {}
  <2> DEFINE c == Combined(Head(l), Mates(l))
             t == Merged(l)
             k == Len(t)
             u == AggregateStep(s)
  <2>1. u = [list |-> t, last_edited |-> <<c>>]
    BY <1>5, <1>6, RoundIs
  <2>2. k \in 1 .. n - 1 /\ t[k] = c
    <3> HIDE DEF l
    <3> QED BY <1>1, <1>6, MergedIs DEF n
  <2>3. u.list = t /\ u.last_edited = <<t[k]>>
    BY <2>1, <2>2
  <2> HIDE DEF t, u, c, n, l
  <2>4. Place(u, k)
    <3>1. k \in 1 .. k + 1 /\ ~(k = k + 1) /\ \A j \in 1..k : ~(j > k)
      BY <1>2, <2>2
    <3> QED BY <2>3, <3>1 DEF Place
  <2>5. Cost(u, k) < Cost(s, p)
    <3>1. Cost(u, k) = k + k * k
      BY <2>3 DEF Cost
    <3>2. k * k \in Nat /\ k + k * k < n * n /\ k \in Nat
      <4> HIDE DEF k
      <4> QED BY <1>2, <2>2, SquareLess
    <3> HIDE DEF k
    <3> QED BY <1>4, <3>1, <3>2
  <2> QED BY <2>4, <2>5 DEF u
<1>7. CASE Mates(l) = {}
  <2> DEFINE t == Turned(l)
             u == AggregateStep(s)
             q == p - 1
  <2>1. u = [list |-> t, last_edited |-> IF s.last_edited = <<>> THEN <<l[1]>>
                                                                 ELSE s.last_edited]
    BY <1>5, <1>7, RoundIs
  <2>2. /\ Len(t) = n /\ t[n] = l[1]
        /\ \A k \in 1 .. n - 1 : t[k] = l[k + 1]
    BY <1>1, TurnedIs
  <2>3. u.list = t /\ u.last_edited = <<t[q]>>
    <3>1. CASE p = n + 1
      <4>1. q = n
        BY <1>2, <3>1
      <4> QED BY <1>3, <2>1, <2>2, <3>1, <4>1
    <3>2. CASE p <= n
      <4>1. q \in 1 .. n - 1 /\ q + 1 = p
        BY <1>2, <1>4, <3>2
      <4>2. t[q] = l[p]
        BY <2>2, <4>1
      <4>3. s.last_edited = <<l[p]>>
        BY <1>3, <3>2
      <4>4. s.last_edited # <<>>
        BY <4>3, SomeIsNotNone
      <4> QED BY <2>1, <4>2, <4>3, <4>4
    <3>3. p = n + 1 \/ p <= n
      BY <1>2, <1>3
    <3> QED BY <3>1, <3>2, <3>3
  <2> HIDE DEF t, u, l, n
  <2>4. q \in 1..n
    BY <1>2, <1>3, <1>4
  <2>5. ASSUME NEW j \in 1..n, NEW k \in 1..n, j > q, j # k PROVE ~Matches(t[j], t[k])
    <3>1. CASE j = n
      <4>1. k \in 1 .. n - 1
        BY <1>2, <2>5, <3>1
      <4>2. t[j] = Head(l) /\ t[k] \in ToSet(Tail(l))
        BY <1>2, <2>2, <3>1, <4>1
      <4> QED BY <1>7, <4>2 DEF Mates
    <3>2. CASE j # n
      <4>1. j \in 1 .. n - 1 /\ j + 1 \in 1..n /\ j + 1 > p
        BY <1>2, <1>4, <2>5, <3>2
      <4>2. CASE k = n
        <5>1. t[k] = l[1] /\ 1 \in 1..n /\ j + 1 # 1
          BY <1>2, <2>2, <4>1, <4>2
        <5> QED BY <1>3, <2>2, <4>1, <5>1
      <4>3. CASE k # n
        <5>1. k \in 1 .. n - 1 /\ k + 1 \in 1..n /\ j + 1 # k + 1
          BY <1>2, <2>5, <4>1, <4>3
        <5> QED BY <1>3, <2>2, <4>1, <5>1
      <4> QED BY <4>2, <4>3
    <3> QED BY <3>1, <3>2
  <2>6. Place(u, q)
    <3>1. q \in 1 .. n + 1 /\ ~(q = n + 1)
      BY <1>2, <2>4
    <3> HIDE DEF q
    <3> QED BY <2>2, <2>3, <2>5, <3>1 DEF Place
  <2>7. Cost(u, q) < Cost(s, p)
    <3>1. Cost(u, q) = q + n * n
      BY <2>2, <2>3 DEF Cost
    <3> QED BY <1>4, <3>1
  <2> QED BY <2>6, <2>7 DEF u
<1> QED BY <1>6, <1>7

(* No two messages can be combined any more.                               *)
NoMatch(l) == \A j, k \in 1..Len(l) : j # k => ~Matches(l[j], l[k])

(* The messages aggregated say what they said, none is twice, and no two   *)
(* of them match: the rounds are enough.                                   *)
LEMMA GroupIs ==
    ASSUME NEW l \in Seq(UpdateMsg), l # <<>>, Separate(l)
    PROVE  /\ AggregateGroup(l) \in Seq(UpdateMsg) /\ Separate(AggregateGroup(l))
           /\ NoMatch(AggregateGroup(l))
           /\ \A m \in UpdateMsg : Said(ToSet(AggregateGroup(l)), m) = Said(ToSet(l), m)
<1> DEFINE n == (Len(l) + 1) * (Len(l) + 1)
           idx == [i \in 1..n |-> i]
           X == Rounds(ToSet(l))
           base == [list |-> l, last_edited |-> <<>>]
           step == [i \in 1..n |-> [s \in X |-> AggregateStep(s)]]
           IsFoldLeft(g) == g = [S \in SUBSET (1..n) |->
                                   IF S = {} THEN base ELSE AggregateStep(g[S \ {Max(S)}])]
           loop == CHOOSE g : IsFoldLeft(g)
<1>1. Len(l) \in Nat /\ n \in Nat /\ n = Len(l) * Len(l) + 2 * Len(l) + 1 /\ Len(l) * Len(l) \in Nat
  <2>1. Len(l) \in Nat
    BY LenProperties
  <2> QED BY <2>1
<1>2. AggregateGroup(l) = loop[1..n].list
  BY DEF AggregateGroup, FoldLeft, MapThenFoldSet
<1>3. base \in X /\ step \in [1..n -> [X -> X]]
  <2>1. \A s \in X : AggregateStep(s) \in X
    BY RoundKeeps
  <2>2. base \in X
    BY DEF Rounds
  <2> HIDE DEF X, base, n
  <2> QED BY <2>1, <2>2
<1>4. \A i \in 1..n : \A s \in X : step[i][s] = AggregateStep(s)
  OBVIOUS
<1>5. IsFoldLeft(loop)
  <2>1. PICK g \in [SUBSET (1..n) -> X] : IsFoldLoop(g, n, X, base, step)
    <3> HIDE DEF n, X, step, base
    <3> QED BY <1>1, <1>3, LoopIsDefined
  <2>2. \A S \in (SUBSET (1..n)) \ {{}} : g[S] = AggregateStep(g[S \ {Max(S)}])
    <3> HIDE DEF step, X, n
    <3> QED BY <1>4, <2>1 DEF IsFoldLoop
  <2>3. g[{}] = base
    BY <2>1 DEF IsFoldLoop
  <2>4. IsFoldLeft(g)
    <3> HIDE DEF X, base, n
    <3> QED BY <2>1, <2>2, <2>3
  <2> HIDE DEF IsFoldLeft
  <2> QED BY <2>4
<1> HIDE DEF loop
<1>6. /\ loop[{}] = base
      /\ \A S \in (SUBSET (1..n)) \ {{}} : loop[S] = AggregateStep(loop[S \ {Max(S)}])
  <2> HIDE DEF base, n
  <2> QED BY <1>5
<1>7. Turns(loop, n, X, base, step)
  <2>1. \A S \in (SUBSET (1..n)) \ {{}} : Max(S) \in 1..n
    <3> HIDE DEF n
    <3> QED BY <1>1, MaxPicks
  <2> HIDE DEF step, X, base, n
  <2> QED BY <1>4, <1>6, <2>1 DEF Turns
<1>8. PICK f \in [0..n -> X] : Runs(f, n, base, step, loop[1..n])
  <2>1. n \in Nat /\ base \in X /\ step \in [1..n -> [X -> X]]
    BY <1>1, <1>3
  <2> HIDE DEF n, X, step, base, IsFoldLeft
  <2> QED BY <1>7, <2>1, LoopRuns
<1> DEFINE N == Cost(base, Len(l) + 1)
           U == {i \in 0..n : \E p : Place(f[i], p) /\ (p = 1 \/ Cost(f[i], p) + i <= N)}
<1>9. 0 \in U
  <2>1. f[0] = base /\ base.list = l /\ base.last_edited = <<>>
    BY <1>8 DEF Runs
  <2>2. Len(l) + 1 \in 1 .. Len(l) + 1 /\ ~(Len(l) + 1 <= Len(l)) /\ \A j \in 1..Len(l) : ~(j > Len(l) + 1)
    BY <1>1
  <2> HIDE DEF base, n
  <2>3. Place(base, Len(l) + 1)
    BY <2>1, <2>2 DEF Place
  <2>4. N \in Nat
    BY <1>1, <2>1 DEF Cost
  <2> HIDE DEF N
  <2>5. N + 0 <= N /\ 0 \in 0..n
    BY <1>1, <2>4
  <2> QED BY <2>1, <2>3, <2>5 DEF N
<1> HIDE DEF N, n
<1>10. ASSUME NEW i \in 1..n, i - 1 \in U PROVE i \in U
  <2>1. i - 1 \in 0..n /\ i \in 0..n /\ i - 1 \in Nat
    BY <1>1
  <2>2. f[i - 1] \in X /\ f[i] = AggregateStep(f[i - 1]) /\ f[i] \in X
    <3> HIDE DEF X, step
    <3> QED BY <1>4, <1>8, <2>1 DEF Runs
  <2>3. PICK p : Place(f[i - 1], p) /\ (p = 1 \/ Cost(f[i - 1], p) + (i - 1) <= N)
    BY <1>10
  <2>4. CASE p = 1
    <3>1. f[i] = f[i - 1]
      BY <2>2, <2>3, <2>4, RoundComesNearer
    <3> QED BY <2>1, <2>3, <2>4, <3>1
  <2>5. CASE p # 1
    <3>1. PICK q : Place(f[i], q) /\ Cost(f[i], q) < Cost(f[i - 1], p)
      BY <2>2, <2>3, <2>5, RoundComesNearer
    <3>2. Cost(f[i], q) \in Nat /\ Cost(f[i - 1], p) \in Nat
      <4>1. ASSUME NEW s \in X, NEW r, Place(s, r) PROVE Cost(s, r) \in Nat
        <5>1. Len(s.list) \in Nat
          BY LenProperties DEF Rounds
        <5>2. r \in 1 .. Len(s.list) + 1
          BY <4>1 DEF Place
        <5> QED BY <5>1, <5>2 DEF Cost
      <4> HIDE DEF X
      <4> QED BY <2>2, <2>3, <3>1, <4>1
    <3>3. N \in Int
      BY <1>1 DEF N, Cost, base
    <3>4. Cost(f[i], q) + i <= N
      BY <2>1, <2>3, <2>5, <3>1, <3>2, <3>3
    <3> QED BY <2>1, <3>1, <3>4
  <2> QED BY <2>4, <2>5
<1>11. U = 0..n
  <2> HIDE DEF U
  <2>1. U \subseteq 0..n
    BY DEF U
  <2> QED BY <1>1, <1>9, <1>10, <2>1, RangeInduction
<1>12. n \in U /\ f[n] \in X /\ f[n] = loop[1..n]
  <2>1. n \in 0..n
    BY <1>1
  <2> HIDE DEF U, X
  <2> QED BY <1>8, <1>11, <2>1 DEF Runs
<1> DEFINE s == f[n]
           r == s.list
<1>13. /\ r \in Seq(UpdateMsg) /\ r # <<>> /\ Separate(r)
       /\ \A m \in UpdateMsg : Said(ToSet(r), m) = Said(ToSet(l), m)
  BY <1>12 DEF Rounds
<1>14. Len(r) \in Nat \ {0}
  BY <1>13, EmptySeq
<1>15. Place(s, 1)
  <2>1. PICK p : Place(s, p) /\ (p = 1 \/ Cost(s, p) + n <= N)
    BY <1>12
  <2>2. p \in 1 .. Len(r) + 1
    BY <2>1 DEF Place
  <2>3. Cost(s, p) = p + Len(r) * Len(r) /\ Len(r) * Len(r) \in Nat
    BY <1>14 DEF Cost
  <2>4. N = Len(l) + 1 + Len(l) * Len(l)
    BY <1>1 DEF N, Cost, base
  <2> HIDE DEF s, r
  <2>5. Cost(s, p) \in Nat /\ Cost(s, p) > 0
    BY <1>14, <2>2, <2>3
  <2>6. ~(Cost(s, p) + n <= N)
    BY <1>1, <2>4, <2>5
  <2> QED BY <2>1, <2>6
<1>16. NoMatch(r)
  <2> SUFFICES ASSUME NEW j \in 1..Len(r), NEW k \in 1..Len(r), j # k, Matches(r[j], r[k]) PROVE FALSE
    BY DEF NoMatch
  <2>1. r[j] \in UpdateMsg /\ r[k] \in UpdateMsg
    BY <1>13, ElementOfSeq
  <2>2. Matches(r[k], r[j])
    BY <2>1, MatchesBack
  <2>3. j > 1 \/ k > 1
    BY <1>14
  <2> QED BY <1>15, <2>2, <2>3 DEF Place
<1>17. AggregateGroup(l) = r
  BY <1>2, <1>12
<1> QED BY <1>13, <1>16, <1>17

-----------------------------------------------------------------------------
(* The neighbors of a table, and what each of them has sent.               *)
SentBy(table, n) == {e.msg : e \in {x \in ToSet(table) : x.from = n}}

(* The messages of a neighbor, each once.                                  *)
LEMMA GroupOf ==
    ASSUME NEW table \in Seq(Entry), EachOnce(table), NEW n
    PROVE  /\ Group(table, n) \in Seq(UpdateMsg) /\ ToSet(Group(table, n)) = SentBy(table, n)
           /\ \A j, k \in 1..Len(Group(table, n)) :
                 Group(table, n)[j] = Group(table, n)[k] => j = k
<1> DEFINE T == {e \in ToSet(table) : e.from = n}
           r == Among(table, T)
           l == Group(table, n)
<1>1. /\ r \in Seq(Entry) /\ ToSet(r) = ToSet(table) \cap T /\ Placed(r, table)
  BY AmongIs
<1>2. /\ DOMAIN r = 1..Len(r) /\ Len(r) \in Nat /\ ToSet(r) = {r[i] : i \in 1..Len(r)}
      /\ \A i \in 1..Len(r) : r[i] \in Entry
      /\ DOMAIN table = 1..Len(table)
  BY <1>1, RangeOfTable
<1>3. l = [i \in 1..Len(r) |-> r[i].msg]
  BY <1>2 DEF Group
<1> HIDE DEF l, r
<1>4. \A i \in 1..Len(r) : r[i].msg \in UpdateMsg
  BY <1>2 DEF Entry
<1>5. l \in Seq(UpdateMsg) /\ Len(l) = Len(r) /\ \A i \in 1..Len(r) : l[i] = r[i].msg
  BY <1>2, <1>3, <1>4
<1>6. ToSet(l) = {l[i] : i \in 1..Len(r)}
  BY <1>5, RangeOfTable
<1>7. ToSet(l) = {e.msg : e \in ToSet(r)}
  BY <1>2, <1>5, <1>6
<1>8. ToSet(r) = {x \in ToSet(table) : x.from = n}
  BY <1>1
<1>9. ToSet(l) = SentBy(table, n)
  BY <1>7, <1>8 DEF SentBy
<1>10. ASSUME NEW j \in 1..Len(r), NEW k \in 1..Len(r), l[j] = l[k] PROVE j = k
  <2>1. PICK g \in [1..Len(r) -> 1..Len(table)] :
           /\ \A i \in 1..Len(r) : r[i] = table[g[i]]
           /\ \A i, h \in 1..Len(r) : g[i] = g[h] => i = h
    BY <1>1 DEF Placed
  <2>2. table[g[j]].msg = table[g[k]].msg
    BY <1>5, <1>10, <2>1
  <2>3. g[j] = g[k]
    BY <1>2, <2>1, <2>2 DEF EachOnce
  <2> QED BY <2>1, <2>3
<1> QED BY <1>5, <1>9, <1>10 DEF l

(* The neighbors that have an entry, none of them twice.                   *)
LEMMA SendersAre ==
    ASSUME NEW table \in Seq(Entry)
    PROVE  /\ Senders(table) \in Seq(Nat)
           /\ ToSet(Senders(table)) = {e.from : e \in ToSet(table)}
           /\ \A j, k \in 1..Len(Senders(table)) :
                 Senders(table)[j] = Senders(table)[k] => j = k
<1> DEFINE n == Len(table)
           X == Seq(Nat)
           base == <<>>
           Turn(i, ns) == IF Contains(ns, table[i].from) THEN ns ELSE Append(ns, table[i].from)
           step == [i \in 1..n |-> [ns \in X |-> Turn(i, ns)]]
           IsFoldLeft(g) == g = [S \in SUBSET (1..n) |->
                               IF S = {} THEN base ELSE Turn(Max(S), g[S \ {Max(S)}])]
           loop == CHOOSE g : IsFoldLeft(g)
<1>1. n \in Nat /\ DOMAIN table = 1..n /\ \A i \in 1..n : table[i].from \in Nat
  <2>1. n \in Nat /\ DOMAIN table = 1..n /\ \A i \in 1..n : table[i] \in Entry
    BY LenProperties, ElementOfSeq
  <2> QED BY <2>1 DEF Entry
<1>2. Senders(table) = loop[1..n]
  BY <1>1 DEF Senders, FoldLeft, MapThenFoldSet
<1>3. step \in [1..n -> [X -> X]] /\ base \in X
  BY <1>1, AppendProperties
<1>4. \A i \in 1..n : \A ns \in X : step[i][ns] = Turn(i, ns)
  OBVIOUS
<1>5. IsFoldLeft(loop)
  <2>1. PICK g \in [SUBSET (1..n) -> X] : IsFoldLoop(g, n, X, base, step)
    <3> HIDE DEF n, X, step, base
    <3> QED BY <1>1, <1>3, LoopIsDefined
  <2>2. \A S \in (SUBSET (1..n)) \ {{}} : g[S] = Turn(Max(S), g[S \ {Max(S)}])
    <3> HIDE DEF Turn, step, X
    <3> QED BY <1>4, <2>1 DEF IsFoldLoop
  <2>3. g[{}] = base
    BY <2>1 DEF IsFoldLoop
  <2>4. IsFoldLeft(g)
    <3> HIDE DEF Turn, X, base
    <3> QED BY <2>1, <2>2, <2>3
  <2> HIDE DEF IsFoldLeft
  <2> QED BY <2>4
<1> HIDE DEF loop
<1>6. /\ loop[{}] = base
      /\ \A S \in (SUBSET (1..n)) \ {{}} : loop[S] = Turn(Max(S), loop[S \ {Max(S)}])
  <2> HIDE DEF Turn, base
  <2> QED BY <1>5
<1>7. Turns(loop, n, X, base, step)
  <2>1. \A S \in (SUBSET (1..n)) \ {{}} : Max(S) \in 1..n
    BY <1>1, MaxPicks
  <2> HIDE DEF Turn, step, X, base, n
  <2> QED BY <1>4, <1>6, <2>1 DEF Turns
<1>8. PICK f \in [0..n -> X] : Runs(f, n, base, step, loop[1..n])
  <2>1. n \in Nat /\ base \in X /\ step \in [1..n -> [X -> X]]
    BY <1>1, <1>3
  <2> HIDE DEF n, X, step, Turn, base, IsFoldLeft
  <2> QED BY <1>7, <2>1, LoopRuns
<1> DEFINE Named(ns, i) ==
              /\ ToSet(ns) = {table[j].from : j \in 1..i}
              /\ \A j, k \in 1..Len(ns) : ns[j] = ns[k] => j = k
           U == {i \in 0..n : Named(f[i], i)}
<1>9. 0 \in U
  <2>1. ToSet(<<>>) = {} /\ Len(<<>>) = 0 /\ 1..0 = {}
    BY DEF ToSet
  <2>2. Named(<<>>, 0)
    BY <2>1
  <2>3. f[0] = <<>>
    BY <1>8 DEF Runs
  <2> HIDE DEF Named
  <2> QED BY <1>1, <2>2, <2>3
<1>10. ASSUME NEW i \in 1..n, i - 1 \in U PROVE i \in U
  <2> DEFINE ns == f[i - 1]
             x == table[i].from
  <2>1. i - 1 \in 0..n /\ i \in 0..n
    BY <1>1
  <2>2. ns \in X /\ Named(ns, i - 1)
    BY <1>8, <1>10, <2>1
  <2>3. f[i] = Turn(i, ns)
    <3>1. f[i] = step[i][ns]
      BY <1>8, <2>1 DEF Runs
    <3> HIDE DEF Turn, step, ns
    <3> QED BY <1>4, <2>2, <3>1
  <2>4. 1..i = (1 .. i - 1) \cup {i} /\ x \in Nat
    BY <1>1
  <2> HIDE DEF ns
  <2>5. /\ Len(ns) \in Nat /\ DOMAIN ns = 1..Len(ns)
        /\ ToSet(ns) = {ns[j] : j \in 1..Len(ns)}
    BY <2>2, RangeOfTable
  <2>6. {table[j].from : j \in 1..i} = ToSet(ns) \cup {x}
    BY <2>2, <2>4
  <2> HIDE DEF x
  <2>7. CASE Contains(ns, x)
    <3>1. x \in ToSet(ns)
      BY <2>5, <2>7 DEF Contains
    <3>2. Named(ns, i)
      BY <2>2, <2>6, <3>1
    <3>3. f[i] = ns
      BY <2>3, <2>7 DEF x
    <3> HIDE DEF Named
    <3> QED BY <2>1, <3>2, <3>3
  <2>8. CASE ~Contains(ns, x)
    <3> DEFINE t == Append(ns, x)
               m == Len(ns) + 1
    <3>1. /\ t \in X /\ Len(t) = m /\ t[m] = x
          /\ \A j \in 1..Len(ns) : t[j] = ns[j]
      BY <2>2, <2>4, AppendProperties
    <3>2. m \in 1..m /\ 1..m = (1..Len(ns)) \cup {m} /\ m \notin 1..Len(ns)
      BY <2>5
    <3> HIDE DEF t, m
    <3>3. ToSet(t) = {t[j] : j \in 1..m}
      BY <3>1, RangeOfTable
    <3>4. ToSet(t) = ToSet(ns) \cup {x}
      <4>1. \A j \in 1..m : t[j] \in ToSet(ns) \cup {x}
        BY <2>5, <3>1, <3>2
      <4>2. \A j \in 1..Len(ns) : ns[j] = t[j] /\ j \in 1..m
        BY <3>1, <3>2
      <4>3. ToSet(ns) \subseteq ToSet(t)
        BY <2>5, <3>3, <4>2
      <4>4. x \in ToSet(t)
        BY <3>1, <3>2, <3>3
      <4> QED BY <3>3, <4>1, <4>3, <4>4
    <3>5. \A j \in 1..Len(ns) : ns[j] # x
      BY <2>8 DEF Contains
    <3>6. \A j, k \in 1..m : t[j] = t[k] => j = k
      <4> SUFFICES ASSUME NEW j \in 1..m, NEW k \in 1..m, t[j] = t[k] PROVE j = k
        OBVIOUS
      <4>1. (j \in 1..Len(ns) \/ j = m) /\ (k \in 1..Len(ns) \/ k = m)
        BY <3>2
      <4>2. CASE j \in 1..Len(ns) /\ k \in 1..Len(ns)
        BY <2>2, <3>1, <4>2
      <4>3. CASE j = m \/ k = m
        <5> HIDE DEF x
        <5> QED BY <3>1, <3>5, <4>1, <4>3
      <4> QED BY <4>1, <4>2, <4>3
    <3>7. Named(t, i)
      BY <2>6, <3>1, <3>4, <3>6
    <3>8. f[i] = t
      BY <2>3, <2>8 DEF t, x
    <3> HIDE DEF Named
    <3> QED BY <2>1, <3>7, <3>8
  <2> QED BY <2>7, <2>8
<1>11. U = 0..n
  <2> HIDE DEF U, n
  <2>1. U \subseteq 0..n
    BY DEF U
  <2> QED BY <1>1, <1>9, <1>10, <2>1, RangeInduction
<1>12. Named(f[n], n) /\ f[n] \in X /\ f[n] = Senders(table)
  <2>1. n \in 0..n
    BY <1>1
  <2> QED BY <1>2, <1>8, <1>11, <2>1 DEF Runs
<1>13. {table[j].from : j \in 1..n} = {e.from : e \in ToSet(table)}
  <2>1. ToSet(table) = {table[j] : j \in 1..n}
    BY <1>1, RangeOfTable
  <2> HIDE DEF n
  <2> QED BY <2>1
<1> QED BY <1>12, <1>13

-----------------------------------------------------------------------------
(* The table that _aggregate_forwarding_table builds.                      *)

(* The entries with other messages than those of M, and the entries that   *)
(* n has if the messages of M are its own.                                 *)
Without(S, M) == {e \in S : e.msg \notin M}
EntriesBy(M, n) == {[msg |-> m, from |-> n] : m \in M}

(* Storing the messages of n one by one takes them from anybody else.      *)
LEMMA StoredAllIs ==
    ASSUME NEW table \in Seq(Entry), EachOnce(table), NEW l \in Seq(UpdateMsg), NEW n \in Nat
    PROVE  /\ StoredAll(table, l, n) \in Seq(Entry)
           /\ EachOnce(StoredAll(table, l, n))
           /\ ToSet(StoredAll(table, l, n)) = Without(ToSet(table), ToSet(l)) \cup EntriesBy(ToSet(l), n)
<1> DEFINE h == Len(l)
           X == {t \in Seq(Entry) : EachOnce(t)}
           Turn(i, t) == Stored(t, l[i], n)
           step == [i \in 1..h |-> [t \in X |-> Turn(i, t)]]
           IsFoldLeft(g) == g = [S \in SUBSET (1..h) |->
                               IF S = {} THEN table ELSE Turn(Max(S), g[S \ {Max(S)}])]
           loop == CHOOSE g : IsFoldLeft(g)
<1>1. h \in Nat /\ DOMAIN l = 1..h /\ \A i \in 1..h : l[i] \in UpdateMsg
  BY LenProperties, ElementOfSeq
<1>2. StoredAll(table, l, n) = loop[1..h]
  BY <1>1 DEF StoredAll, FoldLeft, MapThenFoldSet
<1>3. ASSUME NEW i \in 1..h, NEW t \in X
      PROVE  Turn(i, t) \in X /\ ToSet(Turn(i, t)) = Without(ToSet(t), {l[i]}) \cup EntriesBy({l[i]}, n)
  <2>1. t \in Seq(Entry) /\ EachOnce(t)
    OBVIOUS
  <2>2. [msg |-> l[i], from |-> n] \in Entry
    BY <1>1 DEF Entry
  <2>3. /\ Stored(t, l[i], n) \in Seq(Entry) /\ EachOnce(Stored(t, l[i], n))
        /\ ToSet(Stored(t, l[i], n)) =
              {e \in ToSet(t) : e.msg # l[i]} \cup {[msg |-> l[i], from |-> n]}
    BY <2>1, <2>2, StoredEntries
  <2> HIDE DEF h
  <2>4. /\ {e \in ToSet(t) : e.msg # l[i]} = Without(ToSet(t), {l[i]})
        /\ {[msg |-> l[i], from |-> n]} = EntriesBy({l[i]}, n)
    BY DEF Without, EntriesBy
  <2> QED BY <2>3, <2>4
<1>4. step \in [1..h -> [X -> X]] /\ table \in X
  <2> HIDE DEF Turn, X, h
  <2>1. step \in [1..h -> [X -> X]]
    BY <1>3
  <2> QED BY <2>1 DEF X
<1>5. \A i \in 1..h : \A t \in X : step[i][t] = Turn(i, t)
  OBVIOUS
<1>6. IsFoldLeft(loop)
  <2>1. PICK g \in [SUBSET (1..h) -> X] : IsFoldLoop(g, h, X, table, step)
    <3> HIDE DEF h, X, step
    <3> QED BY <1>1, <1>4, LoopIsDefined
  <2>2. \A S \in (SUBSET (1..h)) \ {{}} : g[S] = Turn(Max(S), g[S \ {Max(S)}])
    <3> HIDE DEF Turn, step, X
    <3> QED BY <1>5, <2>1 DEF IsFoldLoop
  <2>3. g[{}] = table
    BY <2>1 DEF IsFoldLoop
  <2>4. IsFoldLeft(g)
    <3> HIDE DEF Turn, X
    <3> QED BY <2>1, <2>2, <2>3
  <2> HIDE DEF IsFoldLeft
  <2> QED BY <2>4
<1> HIDE DEF loop
<1>7. /\ loop[{}] = table
      /\ \A S \in (SUBSET (1..h)) \ {{}} : loop[S] = Turn(Max(S), loop[S \ {Max(S)}])
  <2> HIDE DEF Turn
  <2> QED BY <1>6
<1>8. Turns(loop, h, X, table, step)
  <2>1. \A S \in (SUBSET (1..h)) \ {{}} : Max(S) \in 1..h
    BY <1>1, MaxPicks
  <2> HIDE DEF Turn, step, X, h
  <2> QED BY <1>5, <1>7, <2>1 DEF Turns
<1>9. PICK f \in [0..h -> X] : Runs(f, h, table, step, loop[1..h])
  <2>1. h \in Nat /\ table \in X /\ step \in [1..h -> [X -> X]]
    BY <1>1, <1>4
  <2> HIDE DEF h, X, step, Turn, IsFoldLeft
  <2> QED BY <1>8, <2>1, LoopRuns
<1> DEFINE M(i) == {l[j] : j \in 1..i}
           U == {i \in 0..h : ToSet(f[i]) = Without(ToSet(table), M(i)) \cup EntriesBy(M(i), n)}
<1>10. 0 \in U
  <2>1. M(0) = {}
    OBVIOUS
  <2>2. Without(ToSet(table), {}) = ToSet(table) /\ EntriesBy({}, n) = {}
    BY DEF Without, EntriesBy
  <2>3. f[0] = table
    BY <1>9 DEF Runs
  <2> HIDE DEF M
  <2> QED BY <1>1, <2>1, <2>2, <2>3
<1>11. ASSUME NEW i \in 1..h, i - 1 \in U PROVE i \in U
  <2>1. i - 1 \in 0..h /\ i \in 0..h
    BY <1>1
  <2>2. f[i - 1] \in X /\ ToSet(f[i - 1]) = Without(ToSet(table), M(i - 1)) \cup EntriesBy(M(i - 1), n)
    BY <1>9, <1>11, <2>1
  <2>3. f[i] = Turn(i, f[i - 1])
    <3>1. f[i] = step[i][f[i - 1]]
      BY <1>9, <2>1 DEF Runs
    <3> HIDE DEF Turn, step
    <3> QED BY <1>5, <2>2, <3>1
  <2>4. ToSet(f[i]) = Without(ToSet(f[i - 1]), {l[i]}) \cup EntriesBy({l[i]}, n)
    <3> HIDE DEF Turn, X
    <3> QED BY <1>3, <2>2, <2>3
  <2>5. M(i) = M(i - 1) \cup {l[i]}
    <3>1. 1..i = (1 .. i - 1) \cup {i}
      BY <1>1
    <3> QED BY <3>1
  <2> DEFINE K == M(i - 1)
             m == l[i]
  <2>6. Without(Without(ToSet(table), K) \cup EntriesBy(K, n), {m}) \cup EntriesBy({m}, n)
           = Without(ToSet(table), K \cup {m}) \cup EntriesBy(K \cup {m}, n)
    <3> HIDE DEF K, m
    <3>1. EntriesBy(K \cup {m}, n) = EntriesBy(K, n) \cup EntriesBy({m}, n)
      BY DEF EntriesBy
    <3>2. Without(EntriesBy(K, n), {m}) \cup EntriesBy({m}, n) = EntriesBy(K, n) \cup EntriesBy({m}, n)
      <4>1. \A e \in EntriesBy(K, n) : e \in Without(EntriesBy(K, n), {m}) \/ e \in EntriesBy({m}, n)
        BY DEF EntriesBy, Without
      <4>2. Without(EntriesBy(K, n), {m}) \subseteq EntriesBy(K, n)
        BY DEF Without
      <4> QED BY <4>1, <4>2
    <3>3. Without(Without(ToSet(table), K) \cup EntriesBy(K, n), {m})
             = Without(ToSet(table), K \cup {m}) \cup Without(EntriesBy(K, n), {m})
      BY DEF Without
    <3> QED BY <3>1, <3>2, <3>3
  <2> HIDE DEF M
  <2> QED BY <2>1, <2>2, <2>4, <2>5, <2>6 DEF K, m
<1>12. U = 0..h
  <2> HIDE DEF U, h
  <2>1. U \subseteq 0..h
    BY DEF U
  <2> QED BY <1>1, <1>10, <1>11, <2>1, RangeInduction
<1>13. ToSet(f[h]) = Without(ToSet(table), M(h)) \cup EntriesBy(M(h), n) /\ f[h] \in X
  <2>1. h \in 0..h
    BY <1>1
  <2> QED BY <1>9, <1>12, <2>1 DEF Runs
<1>14. M(h) = ToSet(l)
  BY <1>1, RangeOfTable
<1>15. f[h] = StoredAll(table, l, n)
  BY <1>2, <1>9 DEF Runs
<1> QED BY <1>13, <1>14, <1>15

(* Entries with the same attributes are of one neighbor, and have no       *)
(* common address.                                                         *)
Separated(table) ==
    \A d, e \in ToSet(table) :
        d # e /\ SameAttributes(d.msg, e.msg) => d.from = e.from /\ NoCommon(d.msg, e.msg)

SentAggregated(table, n) == AggregateGroup(Group(table, n))

(* What a neighbor has sent, aggregated.                                   *)
LEMMA AggregationIs ==
    ASSUME NEW table \in Seq(Entry), EachOnce(table), Separated(table),
           NEW n \in {e.from : e \in ToSet(table)}
    PROVE  /\ SentAggregated(table, n) \in Seq(UpdateMsg) /\ n \in Nat
           /\ NoMatch(SentAggregated(table, n))
           /\ \A m \in UpdateMsg : Said(ToSet(SentAggregated(table, n)), m) = Said(SentBy(table, n), m)
           /\ \A m \in ToSet(SentAggregated(table, n)) :
                 m \in UpdateMsg /\ \E x \in SentBy(table, n) : x \in UpdateMsg /\ SameAttributes(m, x)
<1> DEFINE l == Group(table, n)
<1>1. /\ l \in Seq(UpdateMsg) /\ ToSet(l) = SentBy(table, n)
      /\ \A j, k \in 1..Len(l) : l[j] = l[k] => j = k
  BY GroupOf
<1> HIDE DEF l
<1>2. ToSet(l) = {l[j] : j \in 1..Len(l)} /\ ToSet(l) \subseteq UpdateMsg /\ Len(l) \in Nat
  BY <1>1, RangeOfTable
<1>3. l # <<>>
  <2>1. SentBy(table, n) # {}
    BY DEF SentBy
  <2>2. 1..0 = {} /\ Len(<<>>) = 0
    OBVIOUS
  <2> QED BY <1>1, <1>2, <2>1, <2>2
<1>4. Separate(l)
  <2> SUFFICES ASSUME NEW j \in 1..Len(l), NEW k \in 1..Len(l), j # k, SameAttributes(l[j], l[k])
               PROVE  NoCommon(l[j], l[k])
    BY DEF Separate
  <2>1. l[j] # l[k] /\ l[j] \in SentBy(table, n) /\ l[k] \in SentBy(table, n)
    BY <1>1, <1>2
  <2>2. PICK d \in ToSet(table), e \in ToSet(table) : l[j] = d.msg /\ l[k] = e.msg
    BY <2>1 DEF SentBy
  <2>3. d # e
    BY <2>1, <2>2
  <2> QED BY <2>2, <2>3 DEF Separated
<1> DEFINE r == AggregateGroup(l)
<1>5. /\ r \in Seq(UpdateMsg) /\ NoMatch(r)
      /\ \A m \in UpdateMsg : Said(ToSet(r), m) = Said(ToSet(l), m)
  BY <1>1, <1>3, <1>4, GroupIs
<1>6. r = SentAggregated(table, n)
  BY DEF SentAggregated, l
<1> HIDE DEF r
<1>7. ASSUME NEW m \in ToSet(r)
      PROVE  m \in UpdateMsg /\ \E x \in SentBy(table, n) : x \in UpdateMsg /\ SameAttributes(m, x)
  <2>1. m \in UpdateMsg
    BY <1>5, RangeOfTable
  <2>2. SameAttributes(m, m) /\ m.network \in Address /\ matched_subnet(m.network, m)
    BY <2>1, AttributesAlike, ShiftIs
  <2>3. m.network \in Said(ToSet(l), m)
    BY <1>5, <2>1, <2>2 DEF Said
  <2>4. \E x \in ToSet(l) : SameAttributes(m, x)
    BY <2>3 DEF Said
  <2> QED BY <1>1, <1>2, <2>1, <2>4
<1>8. n \in Nat
  <2>1. ToSet(table) \subseteq Entry
    BY RangeOfTable
  <2> QED BY <2>1 DEF Entry
<1> QED BY <1>1, <1>5, <1>6, <1>7, <1>8

(* Two neighbors have no message in common then.                           *)
LEMMA AggregationsDiffer ==
    ASSUME NEW table \in Seq(Entry), EachOnce(table), Separated(table),
           NEW n \in {e.from : e \in ToSet(table)}, NEW k \in {e.from : e \in ToSet(table)}, n # k
    PROVE  ToSet(SentAggregated(table, n)) \cap ToSet(SentAggregated(table, k)) = {}
<1> SUFFICES ASSUME NEW m \in ToSet(SentAggregated(table, n)), m \in ToSet(SentAggregated(table, k))
             PROVE  FALSE
  OBVIOUS
<1>1. m \in UpdateMsg /\ \E x \in SentBy(table, n) : x \in UpdateMsg /\ SameAttributes(m, x)
  BY AggregationIs
<1>2. \E x \in SentBy(table, k) : x \in UpdateMsg /\ SameAttributes(m, x)
  BY AggregationIs
<1>3. PICK x \in SentBy(table, n), y \in SentBy(table, k) :
         x \in UpdateMsg /\ y \in UpdateMsg /\ SameAttributes(m, x) /\ SameAttributes(m, y)
  BY <1>1, <1>2
<1>4. SameAttributes(x, y)
  BY <1>1, <1>3, AttributesAlike
<1>5. PICK d \in ToSet(table), e \in ToSet(table) :
         d.msg = x /\ d.from = n /\ e.msg = y /\ e.from = k
  BY DEF SentBy
<1> QED BY <1>4, <1>5 DEF Separated

(* The table built has what each neighbor has sent, aggregated.            *)
LEMMA AggregatedIs ==
    ASSUME NEW table \in Seq(Entry), EachOnce(table), Separated(table)
    PROVE  ToSet(Aggregated(table)) =
              UNION {EntriesBy(ToSet(SentAggregated(table, n)), n) : n \in {e.from : e \in ToSet(table)}}
<1> DEFINE ns == Senders(table)
           h == Len(ns)
           X == {t \in Seq(Entry) : EachOnce(t)}
           base == <<>>
           Turn(i, t) == StoredAll(t, AggregateGroup(Group(table, ns[i])), ns[i])
           step == [i \in 1..h |-> [t \in X |-> Turn(i, t)]]
           IsFoldLeft(g) == g = [S \in SUBSET (1..h) |->
                               IF S = {} THEN base ELSE Turn(Max(S), g[S \ {Max(S)}])]
           loop == CHOOSE g : IsFoldLeft(g)
           N == {e.from : e \in ToSet(table)}
           Has(n) == EntriesBy(ToSet(SentAggregated(table, n)), n)
<1>1. /\ ns \in Seq(Nat) /\ ToSet(ns) = N
      /\ \A j, k \in 1..h : ns[j] = ns[k] => j = k
  BY SendersAre
<1>2. h \in Nat /\ DOMAIN ns = 1..h /\ \A i \in 1..h : ns[i] \in N
  <2> HIDE DEF ns, N
  <2> QED BY <1>1, RangeOfTable
<1>3. Aggregated(table) = loop[1..h]
  BY <1>2 DEF Aggregated, FoldLeft, MapThenFoldSet
<1> HIDE DEF ns
<1>4. ASSUME NEW i \in 1..h, NEW t \in X
      PROVE  /\ Turn(i, t) \in X
             /\ ToSet(Turn(i, t)) =
                   Without(ToSet(t), ToSet(SentAggregated(table, ns[i]))) \cup Has(ns[i])
  <2>1. t \in Seq(Entry) /\ EachOnce(t)
    OBVIOUS
  <2>2. SentAggregated(table, ns[i]) \in Seq(UpdateMsg) /\ ns[i] \in Nat
    BY <1>2, AggregationIs
  <2>3. Turn(i, t) = StoredAll(t, SentAggregated(table, ns[i]), ns[i])
    BY DEF SentAggregated
  <2> DEFINE l == SentAggregated(table, ns[i])
             k == ns[i]
  <2>4. /\ StoredAll(t, l, k) \in X
        /\ ToSet(StoredAll(t, l, k)) = Without(ToSet(t), ToSet(l)) \cup EntriesBy(ToSet(l), k)
    <3> HIDE DEF l, k
    <3> QED BY <2>1, <2>2, StoredAllIs DEF l, k
  <2> HIDE DEF Turn, X
  <2> QED BY <2>3, <2>4
<1>5. step \in [1..h -> [X -> X]] /\ base \in X
  <2>1. <<>> \in Seq(Entry) /\ EachOnce(<<>>)
    BY DEF EachOnce
  <2> HIDE DEF Turn
  <2>2. base \in X
    BY <2>1
  <2> HIDE DEF X, h, base
  <2> QED BY <1>4, <2>2
<1>6. \A i \in 1..h : \A t \in X : step[i][t] = Turn(i, t)
  OBVIOUS
<1>7. IsFoldLeft(loop)
  <2>1. PICK g \in [SUBSET (1..h) -> X] : IsFoldLoop(g, h, X, base, step)
    <3> HIDE DEF h, X, step, base
    <3> QED BY <1>2, <1>5, LoopIsDefined
  <2>2. \A S \in (SUBSET (1..h)) \ {{}} : g[S] = Turn(Max(S), g[S \ {Max(S)}])
    <3> HIDE DEF Turn, step, X
    <3> QED BY <1>6, <2>1 DEF IsFoldLoop
  <2>3. g[{}] = base
    BY <2>1 DEF IsFoldLoop
  <2>4. IsFoldLeft(g)
    <3> HIDE DEF Turn, X, base
    <3> QED BY <2>1, <2>2, <2>3
  <2> HIDE DEF IsFoldLeft
  <2> QED BY <2>4
<1> HIDE DEF loop
<1>8. /\ loop[{}] = base
      /\ \A S \in (SUBSET (1..h)) \ {{}} : loop[S] = Turn(Max(S), loop[S \ {Max(S)}])
  <2> HIDE DEF Turn, base
  <2> QED BY <1>7
<1>9. Turns(loop, h, X, base, step)
  <2>1. \A S \in (SUBSET (1..h)) \ {{}} : Max(S) \in 1..h
    BY <1>2, MaxPicks
  <2> HIDE DEF Turn, step, X, h, base
  <2> QED BY <1>6, <1>8, <2>1 DEF Turns
<1>10. PICK f \in [0..h -> X] : Runs(f, h, base, step, loop[1..h])
  <2>1. h \in Nat /\ base \in X /\ step \in [1..h -> [X -> X]]
    BY <1>2, <1>5
  <2> HIDE DEF h, X, step, Turn, base, IsFoldLeft
  <2> QED BY <1>9, <2>1, LoopRuns
<1> HIDE DEF Has
<1> DEFINE P(i) == UNION {Has(ns[j]) : j \in 1..i}
           U == {i \in 0..h : ToSet(f[i]) = P(i)}
<1>11. 0 \in U
  <2>1. ToSet(<<>>) = {} /\ 1..0 = {}
    BY DEF ToSet
  <2>2. P(0) = {}
    BY <2>1
  <2>3. f[0] = <<>>
    BY <1>10 DEF Runs
  <2>4. 0 \in 0..h
    BY <1>2
  <2>5. ToSet(f[0]) = P(0)
    <3> HIDE DEF P
    <3> QED BY <2>1, <2>2, <2>3
  <2> HIDE DEF P
  <2> QED BY <2>4, <2>5
<1>12. ASSUME NEW i \in 1..h, i - 1 \in U PROVE i \in U
  <2>1. i - 1 \in 0..h /\ i \in 0..h
    BY <1>2
  <2>2. f[i - 1] \in X /\ ToSet(f[i - 1]) = P(i - 1)
    BY <1>10, <1>12, <2>1
  <2>3. f[i] = Turn(i, f[i - 1])
    <3>1. f[i] = step[i][f[i - 1]]
      BY <1>10, <2>1 DEF Runs
    <3> HIDE DEF Turn, step
    <3> QED BY <1>6, <2>2, <3>1
  <2>4. ToSet(f[i]) = Without(P(i - 1), ToSet(SentAggregated(table, ns[i]))) \cup Has(ns[i])
    <3> HIDE DEF Turn, X, P
    <3> QED BY <1>4, <2>2, <2>3
  <2>5. 1..i = (1 .. i - 1) \cup {i} /\ \A j \in 1 .. i - 1 : j \in 1..h /\ j # i
    BY <1>2
  <2>6. P(i) = P(i - 1) \cup Has(ns[i])
    BY <2>5
  <2>7. Without(P(i - 1), ToSet(SentAggregated(table, ns[i]))) = P(i - 1)
    <3>1. ASSUME NEW e \in P(i - 1) PROVE e.msg \notin ToSet(SentAggregated(table, ns[i]))
      <4>1. PICK j \in 1 .. i - 1 : e \in Has(ns[j])
        OBVIOUS
      <4>2. e.msg \in ToSet(SentAggregated(table, ns[j]))
        BY <4>1 DEF Has, EntriesBy
      <4>3. ns[j] # ns[i] /\ ns[j] \in N /\ ns[i] \in N
        BY <1>1, <1>2, <2>5
      <4> QED BY <4>2, <4>3, AggregationsDiffer
    <3> HIDE DEF P
    <3> QED BY <3>1 DEF Without
  <2> HIDE DEF P
  <2> QED BY <2>1, <2>4, <2>6, <2>7
<1>13. U = 0..h
  <2> HIDE DEF U, h
  <2>1. U \subseteq 0..h
    BY DEF U
  <2> QED BY <1>2, <1>11, <1>12, <2>1, RangeInduction
<1>14. ToSet(f[h]) = P(h) /\ f[h] = Aggregated(table)
  <2>1. h \in 0..h
    BY <1>2
  <2> QED BY <1>3, <1>10, <1>13, <2>1 DEF Runs
<1>15. P(h) = UNION {Has(n) : n \in N}
  <2>1. N = {ns[j] : j \in 1..h}
    <3> HIDE DEF N
    <3> QED BY <1>1, RangeOfTable
  <2> HIDE DEF N
  <2> QED BY <2>1
<1> QED BY <1>14, <1>15 DEF Has

-----------------------------------------------------------------------------
(* What a dump is worth.                                                   *)

(* Two halves match, and are not one message.                              *)
LEMMA HalvesMatch ==
    ASSUME NEW m \in UpdateMsg, NEW x \in UpdateMsg, Halves(m, x)
    PROVE  Matches(m, x) /\ m # x
<1> DEFINE p == Power[prefix_shift_amount(m)]
           q == Power[prefix_shift_amount(m) + 1]
<1>1. p \in Nat \ {0} /\ q = 2 * p /\ m.network \in Nat /\ x.network \in Nat
  BY ShiftIs
<1>2. /\ x.length = m.length /\ SameAttributes(m, x)
      /\ m.network % (2 * p) = 0 /\ x.network = m.network + p
  BY DEF Halves
<1> HIDE DEF p, q
<1>3. m.network # x.network
  BY <1>1, <1>2
<1>4. m.network \div q = x.network \div q
  <2> DEFINE a == m.network
             d == a \div (2 * p)
  <2>1. d \in Nat /\ a = (2 * p) * d
    BY <1>1, <1>2
  <2>2. (a + p) \div (2 * p) = d
    <3> HIDE DEF a, d
    <3> QED BY <1>1, <2>1
  <2> QED BY <1>1, <1>2, <2>2
<1> QED BY <1>2, <1>3, <1>4, MatchesIs DEF q

(* A dump says of every address what the table says, and there is nothing  *)
(* left to aggregate in it.                                                *)
LEMMA DumpIs ==
    ASSUME NEW table \in Seq(Entry), EachOnce(table), Separated(table)
    PROVE  SameCoverage(table, Aggregated(table)) /\ Coalesced(Aggregated(table))
<1> DEFINE N == {e.from : e \in ToSet(table)}
           A(n) == ToSet(SentAggregated(table, n))
           D == ToSet(Aggregated(table))
<1>1. D = UNION {EntriesBy(A(n), n) : n \in N}
  BY AggregatedIs
<1>2. \A e \in D : e.from \in N /\ e.msg \in A(e.from)
  BY <1>1 DEF EntriesBy
<1>3. \A n \in N : \A m \in A(n) : [msg |-> m, from |-> n] \in D
  BY <1>1 DEF EntriesBy
<1>4. \A n \in N : \A m \in A(n) : m \in UpdateMsg
  BY AggregationIs
<1>5. ToSet(table) \subseteq Entry
  BY RangeOfTable
<1>6. ASSUME NEW e \in ToSet(table) \cup D
      PROVE  e.from \in N /\ e.msg \in UpdateMsg
  <2>1. CASE e \in ToSet(table)
    BY <1>5, <2>1 DEF Entry
  <2>2. CASE e \in D
    <3> HIDE DEF N, D, A
    <3> QED BY <1>2, <1>4, <2>2
  <2> QED BY <2>1, <2>2
<1>7. ASSUME NEW n \in N, NEW m \in UpdateMsg
      PROVE  Covered(table, n, m) = Covered(Aggregated(table), n, m)
  <2>1. Covered(table, n, m) = Said(SentBy(table, n), m)
    BY DEF Covered, Said, SentBy
  <2>2. ASSUME NEW a \in Address
        PROVE  a \in Covered(Aggregated(table), n, m) <=> a \in Said(A(n), m)
    <3>1. a \in Covered(Aggregated(table), n, m) <=>
             \E e \in D : e.from = n /\ SameAttributes(m, e.msg) /\ matched_subnet(a, e.msg)
      BY DEF Covered
    <3>2. a \in Said(A(n), m) <=> \E x \in A(n) : SameAttributes(m, x) /\ matched_subnet(a, x)
      BY DEF Said
    <3> HIDE DEF N, A, D
    <3> QED BY <1>2, <1>3, <3>1, <3>2
  <2>3. Covered(Aggregated(table), n, m) = Said(A(n), m)
    <3>1. Covered(Aggregated(table), n, m) \subseteq Address /\ Said(A(n), m) \subseteq Address
      BY DEF Covered, Said
    <3> HIDE DEF A
    <3> QED BY <2>2, <3>1
  <2>4. Said(A(n), m) = Said(SentBy(table, n), m)
    BY AggregationIs
  <2> QED BY <2>1, <2>3, <2>4
<1>8. SameCoverage(table, Aggregated(table))
  <2> HIDE DEF N
  <2> QED BY <1>6, <1>7 DEF SameCoverage, D
<1>9. ASSUME NEW d \in D, NEW e \in D, d.from = e.from, Halves(d.msg, e.msg)
      PROVE  FALSE
  <2> DEFINE l == SentAggregated(table, d.from)
  <2>1. d.from \in N /\ d.msg \in ToSet(l) /\ e.msg \in ToSet(l)
    <3> HIDE DEF N, D
    <3> QED BY <1>2, <1>9
  <2>2. l \in Seq(UpdateMsg) /\ NoMatch(l)
    <3> DEFINE n == d.from
    <3>1. n \in N
      BY <2>1
    <3> HIDE DEF n
    <3>2. SentAggregated(table, n) \in Seq(UpdateMsg) /\ NoMatch(SentAggregated(table, n))
      BY <3>1, AggregationIs
    <3> QED BY <3>2 DEF n
  <2> HIDE DEF l, N, D
  <2>3. PICK j \in 1..Len(l), k \in 1..Len(l) : d.msg = l[j] /\ e.msg = l[k]
    BY <2>1, <2>2, RangeOfTable
  <2>4. d.msg \in UpdateMsg /\ e.msg \in UpdateMsg
    BY <2>2, <2>3, ElementOfSeq
  <2>5. Matches(l[j], l[k]) /\ l[j] # l[k]
    BY <1>9, <2>3, <2>4, HalvesMatch
  <2> QED BY <2>2, <2>5 DEF NoMatch
<1>10. Coalesced(Aggregated(table))
  BY <1>9 DEF Coalesced
<1> QED BY <1>8, <1>10
=============================================================================
