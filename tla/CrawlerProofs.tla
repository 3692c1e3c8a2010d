--------------------------- MODULE CrawlerProofs ----------------------------
(***************************************************************************)
(* Theorems about HTTPResponse and Crawler: what deserialize_response      *)
(* takes from the bytes it has read, wherever they are cut, and from an    *)
(* answer that it has read whole; what the client takes for the session,   *)
(* for every size of the page and of the first recv; and why a login       *)
(* raises.                                                                 *)
(***************************************************************************)
EXTENDS Crawler, FoldProofs, SequenceTheorems

-----------------------------------------------------------------------------
(* Numbers and sequences.                                                 *)

(* The least of some natural numbers.                                     *)
LEMMA MinOfNaturals ==
    ASSUME NEW S, S \subseteq Nat, S # {}
    PROVE  Min(S) \in S /\ \A y \in S : Min(S) <= y
<1>1. \E x \in S : \A y \in S : x <= y
  BY LeastNatural
<1> QED BY <1>1 DEF Min

(* FlattenSeq is a recursive function on the indices; there is one.        *)
Flattens(f, seqs, n) ==
    \A i \in 1..n : f[i] = IF i = 1 THEN seqs[i] ELSE f[i - 1] \o seqs[i]

(* Every sequence of pieces has such a function, and FlattenSeq is its    *)
(* last value.                                                            *)
LEMMA FlattenIsDefined ==
    ASSUME NEW E, NEW n \in Nat \ {0}, NEW seqs \in [1..n -> Seq(E)]
    PROVE  \E f \in [1..n -> Seq(E)] : Flattens(f, seqs, n) /\ FlattenSeq(seqs) = f[n]
<1> DEFINE D == 1..n
           X == Seq(E)
           pick == [S \in (SUBSET D) \ {{}} |-> Max(S)]
           step == [i \in D |-> [s \in X |-> s \o seqs[i]]]
           IsLoop(f) == f = [i \in 1..n |-> IF i = 1 THEN seqs[i] ELSE f[i - 1] \o seqs[i]]
           loop == CHOOSE f : IsLoop(f)
<1>1. n \in Nat /\ n >= 1 /\ n \in D
  OBVIOUS
<1>2. seqs \in Seq(X) /\ Len(seqs) = n
  OBVIOUS
<1>3. FlattenSeq(seqs) = loop[n]
  BY <1>1, <1>2 DEF FlattenSeq
<1>4. IsFiniteSet(D) /\ Picks(pick, D)
  <2>1. \A S \in (SUBSET D) \ {{}} : Max(S) \in S
    <3> SUFFICES ASSUME NEW S \in (SUBSET D) \ {{}} PROVE Max(S) \in S
      OBVIOUS
    <3>1. S \subseteq 0..n /\ S # {}
      OBVIOUS
    <3> QED BY <1>1, <3>1, MaxOfNaturals
  <2>2. IsFiniteSet(D)
    BY <1>1, FS_Interval
  <2> QED BY <2>1, <2>2 DEF Picks
<1>5. step \in [D -> [X -> X]] /\ <<>> \in X
  <2>1. \A i \in D : \A s \in X : s \o seqs[i] \in X
    BY ConcatProperties
  <2>2. <<>> \in X
    BY EmptySeq
  <2> QED BY <2>1, <2>2
<1>6. PICK g \in [SUBSET D -> X] : IsFold(g, D, <<>>, step, pick)
  <2> HIDE DEF D, X, pick, step
  <2> QED BY <1>4, <1>5, FoldIsDefined
<1> DEFINE f == [i \in 1..n |-> g[1..i]]
<1>7. \A i \in 1..n : f[i] = IF i = 1 THEN seqs[i] ELSE f[i - 1] \o seqs[i]
  <2> SUFFICES ASSUME NEW i \in 1..n
               PROVE  g[1..i] = IF i = 1 THEN seqs[i] ELSE f[i - 1] \o seqs[i]
    OBVIOUS
  <2>1. /\ 1..i \subseteq 1..n /\ 1 .. i - 1 \subseteq 1..n /\ i \in 1..i
        /\ Max(1..i) = i /\ (1..i) \ {i} = 1 .. i - 1
    BY <1>1, LastIndex
  <2>2. 1..i \in (SUBSET D) \ {{}} /\ 1 .. i - 1 \in SUBSET D
    <3> HIDE DEF step, pick, loop, f
    <3> QED BY <2>1
  <2>3. pick[1..i] = i
    <3> HIDE DEF D
    <3> QED BY <2>1, <2>2
  <2>4. g[1 .. i - 1] \in X
    <3> HIDE DEF D, step, X, loop
    <3> QED BY <2>2
  <2>5. g[1..i] = g[1 .. i - 1] \o seqs[i]
    <3>1. g[1..i] = step[i][g[1 .. i - 1]]
      <4> HIDE DEF pick, step
      <4> QED BY <1>6, <2>1, <2>2, <2>3 DEF IsFold
    <3> QED BY <2>4, <3>1
  <2>6. CASE i = 1
    <3>1. 1 .. i - 1 = {}
      BY <2>6
    <3>2. g[{}] = <<>>
      BY <1>6 DEF IsFold
    <3>3. <<>> \o seqs[i] = seqs[i]
      <4>1. seqs[i] \in Seq(E)
        OBVIOUS
      <4> QED BY <4>1, ConcatEmptySeq
    <3> QED BY <2>5, <2>6, <3>1, <3>2, <3>3
  <2>7. CASE i # 1
    <3>1. i - 1 \in 1..n
      BY <1>1, <2>7
    <3> QED BY <2>5, <2>7, <3>1
  <2> QED BY <2>6, <2>7
<1>8. f \in [1..n -> X]
  <2>1. \A i \in 1..n : 1..i \in SUBSET D
    BY <1>1
  <2> QED BY <2>1
<1>9. IsLoop(f)
  <2> HIDE DEF f
  <2> QED BY <1>7, <1>8
<1>10. IsLoop(loop)
  <2> HIDE DEF IsLoop, f
  <2> QED BY <1>9
<1>11. DOMAIN loop = 1..n /\ Flattens(loop, seqs, n)
  <2> HIDE DEF loop
  <2> QED BY <1>10 DEF Flattens
<1> DEFINE T == {i \in Nat : i \in 1..n => loop[i] \in X}
<1> HIDE DEF loop
<1>12. T = Nat
  <2>1. 0 \in T
    OBVIOUS
  <2>2. ASSUME NEW i \in T PROVE i + 1 \in T
    <3> SUFFICES ASSUME i + 1 \in 1..n PROVE loop[i + 1] \in X
      OBVIOUS
    <3>1. loop[i + 1] = IF i + 1 = 1 THEN seqs[i + 1] ELSE loop[(i + 1) - 1] \o seqs[i + 1]
      BY <1>11 DEF Flattens
    <3>2. (i + 1) - 1 = i /\ (i = 0 \/ i \in 1..n)
      OBVIOUS
    <3>3. seqs[i + 1] \in Seq(E)
      OBVIOUS
    <3>4. CASE i = 0
      BY <3>1, <3>3, <3>4
    <3>5. CASE i # 0
      <4>1. loop[i] \in Seq(E)
        BY <3>2, <3>5
      <4>2. loop[i] \o seqs[i + 1] \in Seq(E)
        BY <3>3, <4>1, ConcatProperties
      <4> QED BY <3>1, <3>2, <3>5, <4>2
    <3> QED BY <3>4, <3>5
  <2> HIDE DEF T
  <2>3. T \subseteq Nat
    BY DEF T
  <2> QED BY <2>1, <2>2, <2>3, NaturalInduction
<1>13. loop \in [1..n -> X]
  <2>1. \A i \in 1..n : loop[i] \in X
    <3> SUFFICES ASSUME NEW i \in 1..n PROVE loop[i] \in X
      OBVIOUS
    <3>1. i \in T
      <4> HIDE DEF T
      <4> QED BY <1>1, <1>12
    <3> HIDE DEF X
    <3> QED BY <3>1
  <2>2. loop = [i \in 1..n |-> loop[i]]
    BY <1>10
  <2> QED BY <2>1, <2>2
<1> QED BY <1>3, <1>11, <1>13

(* What holds of the pieces, and of the whole with a piece more, holds of  *)
(* the whole.                                                              *)
LEMMA FlattenStays ==
    ASSUME NEW E, NEW n \in Nat \ {0}, NEW seqs \in [1..n -> Seq(E)],
           NEW Q, \A i \in 1..n : seqs[i] \in Q,
           \A s \in Q : \A i \in 1..n : s \o seqs[i] \in Q
    PROVE  FlattenSeq(seqs) \in Q
<1>1. PICK f \in [1..n -> Seq(E)] : Flattens(f, seqs, n) /\ FlattenSeq(seqs) = f[n]
  BY FlattenIsDefined
<1> DEFINE T == {i \in Nat : i \in 1..n => f[i] \in Q}
<1>2. T = Nat
  <2>1. 0 \in T /\ T \subseteq Nat
    <3>1. 0 \notin 1..n
      OBVIOUS
    <3> QED BY <3>1
  <2>2. ASSUME NEW i \in T PROVE i + 1 \in T
    <3> SUFFICES ASSUME i + 1 \in 1..n PROVE f[i + 1] \in Q
      OBVIOUS
    <3>1. f[i + 1] = IF i + 1 = 1 THEN seqs[i + 1] ELSE f[(i + 1) - 1] \o seqs[i + 1]
      BY <1>1 DEF Flattens
    <3>2. (i + 1) - 1 = i /\ (i = 0 \/ i \in 1..n)
      OBVIOUS
    <3> QED BY <3>1, <3>2
  <2> HIDE DEF T
  <2> QED BY <2>1, <2>2, NaturalInduction
<1>3. n \in T /\ n \in 1..n
  <2> HIDE DEF T
  <2> QED BY <1>2
<1> QED BY <1>1, <1>3

-----------------------------------------------------------------------------
(* Lines, byte by byte.                                                   *)

(* w is s, and then u.                                                     *)
Joins(w, s, u) ==
    /\ Len(s) \in Nat /\ Len(u) \in Nat /\ Len(w) = Len(s) + Len(u)
    /\ \A i \in 1 .. Len(s) : w[i] = s[i]
    /\ \A i \in 1 .. Len(u) : w[Len(s) + i] = u[i]

(* What is at each index of a concatenation.                              *)
LEMMA Joined ==
    ASSUME NEW S, NEW s \in Seq(S), NEW u \in Seq(S)
    PROVE  s \o u \in Seq(S) /\ Joins(s \o u, s, u)
<1>1. Len(s) \in Nat /\ Len(u) \in Nat
  BY LenProperties
<1> QED BY <1>1, ConcatProperties DEF Joins

(* A line of a header and its end.                                         *)
LEMMA OneLine ==
    ASSUME NEW S, CR \in S, LF \in S, NEW b \in S
    PROVE  /\ LINE_ENDING \in Seq(S) /\ Len(LINE_ENDING) = 2
           /\ <<b>> \o LINE_ENDING \in Seq(S) /\ Len(<<b>> \o LINE_ENDING) = 3
           /\ (<<b>> \o LINE_ENDING)[1] = b
           /\ (<<b>> \o LINE_ENDING)[2] = CR /\ (<<b>> \o LINE_ENDING)[3] = LF
<1>1. LINE_ENDING \in Seq(S) /\ Len(LINE_ENDING) = 2 /\ LINE_ENDING[1] = CR /\ LINE_ENDING[2] = LF
  <2> HIDE DEF CR, LF
  <2> QED BY DEF LINE_ENDING
<1>2. <<b>> \in Seq(S) /\ Len(<<b>>) = 1 /\ <<b>>[1] = b
  OBVIOUS
<1> DEFINE one == <<b>>
           both == one \o LINE_ENDING
<1> HIDE DEF one
<1>3. one \in Seq(S) /\ Len(one) = 1 /\ one[1] = b
  BY <1>2 DEF one
<1> HIDE DEF both
<1>4. both \in Seq(S) /\ Joins(both, one, LINE_ENDING)
  BY <1>1, <1>3, Joined DEF both
<1>5. Len(both) = 3
  BY <1>1, <1>3, <1>4 DEF Joins
<1>6. both[1] = one[1] /\ both[2] = LINE_ENDING[1] /\ both[3] = LINE_ENDING[2]
  BY <1>1, <1>3, <1>4 DEF Joins
<1> QED BY <1>1, <1>3, <1>4, <1>5, <1>6 DEF one, both

(* The lines of a header, one after the other.                             *)
HasLines(t, n, lines) ==
    /\ Len(t) = 3 * n
    /\ \A i \in 1..n : t[3 * i - 2] = lines[i] /\ t[3 * i - 1] = CR /\ t[3 * i] = LF

(* The lines of an answer, put together by the fold, take three bytes     *)
(* each.                                                                  *)
LEMMA LinesInOrder ==
    ASSUME NEW S, CR \in S, LF \in S, NEW n \in Nat \ {0}, NEW lines \in [1..n -> S],
           NEW t, t = FlattenSeq([i \in 1..n |-> <<lines[i]>> \o LINE_ENDING])
    PROVE  t \in Seq(S) /\ HasLines(t, n, lines)
<1> DEFINE seqs == [i \in 1..n |-> <<lines[i]>> \o LINE_ENDING]
           HasLine(s, i) == s[3 * i - 2] = lines[i] /\ s[3 * i - 1] = CR /\ s[3 * i] = LF
<1>1. \A i \in 1..n : /\ seqs[i] \in Seq(S) /\ Len(seqs[i]) = 3
                      /\ seqs[i][1] = lines[i] /\ seqs[i][2] = CR /\ seqs[i][3] = LF
  <2> SUFFICES ASSUME NEW i \in 1..n
               PROVE  /\ seqs[i] \in Seq(S) /\ Len(seqs[i]) = 3
                      /\ seqs[i][1] = lines[i] /\ seqs[i][2] = CR /\ seqs[i][3] = LF
    OBVIOUS
  <2>1. lines[i] \in S /\ seqs[i] = <<lines[i]>> \o LINE_ENDING
    OBVIOUS
  <2> HIDE DEF seqs
  <2> QED BY <2>1, OneLine
<1>2. seqs \in [1..n -> Seq(S)]
  BY <1>1
<1> HIDE DEF seqs
<1>3. PICK f \in [1..n -> Seq(S)] : Flattens(f, seqs, n) /\ FlattenSeq(seqs) = f[n]
  BY <1>2, FlattenIsDefined
<1> DEFINE T == {i \in Nat : i \in 1..n => Len(f[i]) = 3 * i /\ \A j \in 1..i : HasLine(f[i], j)}
<1>4. T = Nat
  <2>1. 0 \in T
    <3>1. 0 \notin 1..n
      OBVIOUS
    <3> QED BY <3>1
  <2>2. ASSUME NEW i \in T PROVE i + 1 \in T
    <3>0. i \in Nat
      OBVIOUS
    <3> SUFFICES ASSUME i + 1 \in 1..n
                 PROVE  Len(f[i + 1]) = 3 * (i + 1) /\ \A j \in 1 .. i + 1 : HasLine(f[i + 1], j)
      BY <3>0
    <3>1. f[i + 1] = IF i + 1 = 1 THEN seqs[i + 1] ELSE f[(i + 1) - 1] \o seqs[i + 1]
      BY <1>3 DEF Flattens
    <3>2. (i + 1) - 1 = i /\ (i = 0 \/ i \in 1..n)
      BY <3>0
    <3>3. CASE i = 0
      <4>1. f[i + 1] = seqs[1] /\ 1 \in 1..n
        BY <3>1, <3>3
      <4>2. \A j \in 1 .. i + 1 : j = 1
        BY <3>3
      <4> QED BY <1>1, <3>3, <4>1, <4>2
    <3>4. CASE i # 0
      <4>1. /\ f[i] \in Seq(S) /\ Len(f[i]) = 3 * i /\ \A j \in 1..i : HasLine(f[i], j)
            /\ f[i + 1] = f[i] \o seqs[i + 1]
        <5>1. i \in 1..n /\ i + 1 # 1
          BY <3>0, <3>2, <3>4
        <5>2. f[i] \in Seq(S)
          <6> HIDE DEF T
          <6> QED BY <5>1
        <5>3. f[i + 1] = f[i] \o seqs[i + 1]
          <6> HIDE DEF T
          <6> QED BY <3>1, <3>2, <5>1
        <5>4. Len(f[i]) = 3 * i /\ \A j \in 1..i : HasLine(f[i], j)
          <6> HIDE DEF HasLine
          <6> QED BY <5>1
        <5> QED BY <5>2, <5>3, <5>4
      <4> DEFINE g == f[i]  q == seqs[i + 1]  w == f[i + 1]
      <4>2. g \in Seq(S) /\ q \in Seq(S) /\ w = g \o q /\ Len(g) = 3 * i /\ Len(q) = 3
        BY <1>1, <4>1
      <4>3. q[1] = lines[i + 1] /\ q[2] = CR /\ q[3] = LF
        BY <1>1
      <4>4. \A j \in 1..i : HasLine(g, j)
        BY <4>1
      <4> HIDE DEF g, q, w, T
      <4>5. /\ Len(w) = 3 * i + 3
            /\ \A k \in 1 .. 3 * i : w[k] = g[k]
            /\ \A k \in 1 .. 3 : w[3 * i + k] = q[k]
        <5> DEFINE m == 3 * i
        <5>1. m \in Nat /\ Len(g) = m /\ 3 * i = m
          BY <3>0, <4>2
        <5> HIDE DEF m
        <5>2. Joins(w, g, q)
          BY <4>2, Joined
        <5>3. Len(w) = m + 3 /\ (\A k \in 1..m : w[k] = g[k]) /\ \A k \in 1..3 : w[m + k] = q[k]
          BY <4>2, <5>1, <5>2 DEF Joins
        <5> QED BY <5>1, <5>3
      <4>6. ASSUME NEW j \in 1 .. i + 1 PROVE HasLine(w, j)
        <5>1. j \in 1..i \/ j = i + 1
          BY <3>0
        <5>3. CASE j \in 1..i
          <6>1. /\ 3 * j - 2 \in 1 .. 3 * i /\ 3 * j - 1 \in 1 .. 3 * i
                /\ 3 * j \in 1 .. 3 * i
            BY <3>0, <5>3
          <6> QED BY <4>4, <4>5, <5>3, <6>1
        <5>4. CASE j = i + 1
          <6>1. 3 * j - 2 = 3 * i + 1 /\ 3 * j - 1 = 3 * i + 2 /\ 3 * j = 3 * i + 3
            BY <3>0, <5>4
          <6>2. 1 \in 1..3 /\ 2 \in 1..3 /\ 3 \in 1..3
            OBVIOUS
          <6>3. w[3 * j - 2] = q[1] /\ w[3 * j - 1] = q[2] /\ w[3 * j] = q[3]
            BY <4>5, <6>1, <6>2
          <6> QED BY <4>3, <5>4, <6>3
        <5> QED BY <5>1, <5>3, <5>4
      <4> QED BY <3>0, <4>5, <4>6 DEF w
    <3> QED BY <3>3, <3>4
  <2> HIDE DEF T
  <2>3. T \subseteq Nat
    BY DEF T
  <2> QED BY <2>1, <2>2, <2>3, NaturalInduction
<1>5. n \in T /\ n \in 1..n
  <2> HIDE DEF T
  <2> QED BY <1>4
<1>6. t = f[n]
  BY <1>3 DEF seqs
<1> QED BY <1>3, <1>5, <1>6 DEF HasLines

(* A line end that is part of a longer text.                               *)
LEMMA LineEnding ==
    ASSUME NEW S, CR \in S, LF \in S
    PROVE  /\ LINE_ENDING \in Seq(S) /\ Len(LINE_ENDING) = 2
           /\ LINE_ENDING[1] = CR /\ LINE_ENDING[2] = LF
<1> HIDE DEF CR, LF
<1> QED BY DEF LINE_ENDING

-----------------------------------------------------------------------------
(* What is read, wherever it is cut.                                      *)

(* A part of a text.                                                       *)
LEMMA PartOf ==
    ASSUME NEW S, NEW s \in Seq(S), NEW m \in Nat \ {0}, NEW n \in Int, n <= Len(s)
    PROVE  /\ SubSeq(s, m, n) \in Seq(S)
           /\ Len(SubSeq(s, m, n)) = IF m <= n THEN n - m + 1 ELSE 0
           /\ \A i \in 1 .. n - m + 1 : SubSeq(s, m, n)[i] = s[m + i - 1]
<1>1. Len(s) \in Nat
  BY LenProperties
<1>2. \A i \in m .. n : s[i] \in S
  <2> SUFFICES ASSUME NEW i \in m .. n PROVE s[i] \in S
    OBVIOUS
  <2>1. i \in 1 .. Len(s)
    BY <1>1
  <2> QED BY <2>1, ElementOfSeq
<1> QED BY <1>2, SubSeqProperties

(* A line ends where the bytes of a line end are side by side.            *)
LEMMA LineEndsAre ==
    ASSUME NEW S, NEW text \in Seq(S)
    PROVE  /\ Len(text) \in Nat
           /\ LineEnds(text) = {i \in 1 .. Len(text) - 1 : text[i] = CR /\ text[i + 1] = LF}
<1>1. Len(text) \in Nat
  BY LenProperties
<1>2. ASSUME NEW i \in 1 .. Len(text) - 1
      PROVE  SubSeq(text, i, i + 1) = LINE_ENDING <=> text[i] = CR /\ text[i + 1] = LF
  <2> DEFINE u == SubSeq(text, i, i + 1)
  <2>1. i \in Nat \ {0} /\ i + 1 \in Int /\ i + 1 <= Len(text) /\ i <= i + 1
    BY <1>1
  <2>2. u \in Seq(S) /\ Len(u) = 2
    BY <2>1, PartOf
  <2>3. \A j \in 1 .. (i + 1) - i + 1 : u[j] = text[i + j - 1]
    BY <2>1, PartOf
  <2>4. (i + 1) - i + 1 = 2 /\ i + 1 - 1 = i /\ i + 2 - 1 = i + 1 /\ 1 \in 1..2 /\ 2 \in 1..2
    BY <1>1
  <2>5. u[1] = text[i] /\ u[2] = text[i + 1]
    BY <2>3, <2>4
  <2> HIDE DEF u
  <2>6. /\ LINE_ENDING \in Seq({CR, LF}) /\ Len(LINE_ENDING) = 2
        /\ LINE_ENDING[1] = CR /\ LINE_ENDING[2] = LF
    BY LineEnding
  <2>7. u = LINE_ENDING <=> u[1] = CR /\ u[2] = LF
    <3>1. ASSUME u[1] = CR, u[2] = LF PROVE u = LINE_ENDING
      <4> DEFINE T == S \cup {CR, LF}
      <4>1. S \subseteq T /\ {CR, LF} \subseteq T
        OBVIOUS
      <4> HIDE DEF T, CR, LF
      <4>2. u \in Seq(T) /\ LINE_ENDING \in Seq(T)
        BY <2>2, <2>6, <4>1, SeqMonotonic
      <4>3. \A j \in 1 .. Len(u) : u[j] = LINE_ENDING[j]
        <5>1. \A j \in 1 .. Len(u) : j = 1 \/ j = 2
          BY <2>2
        <5> QED BY <2>6, <3>1, <5>1
      <4> QED BY <2>2, <2>6, <4>2, <4>3, SeqEqual
    <3> QED BY <2>6, <3>1
  <2> QED BY <2>5, <2>7 DEF u
<1> QED BY <1>1, <1>2 DEF LineEnds

(* The loop stops, at a line or behind the text, and keeps lines of it.    *)
LEMMA HeaderParts ==
    ASSUME NEW S, NEW text \in Seq(S)
    PROVE  /\ HeaderEnd(text) \in LineStarts(text) /\ LineStarts(text) \subseteq 1 .. Len(text) + 1
           /\ \/ HeaderEnd(text) \in LineEnds(text) \cup {Len(text) + 1}
              \/ \A j \in LineEnds(text) : j < HeaderEnd(text)
           /\ \A i \in LineStarts(text) :
                 (i \in LineEnds(text) \cup {Len(text) + 1} \/ \A j \in LineEnds(text) : j < i)
                    => HeaderEnd(text) <= i
           /\ HeaderLines(text) \subseteq 1 .. Len(text)
<1>1. Len(text) \in Nat /\ LineEnds(text) \subseteq 1 .. Len(text) - 1
  BY LineEndsAre
<1>2. LineStarts(text) \subseteq 1 .. Len(text) + 1
  BY <1>1 DEF LineStarts
<1> DEFINE Stops == {i \in LineStarts(text) : i \in LineEnds(text) \cup {Len(text) + 1}
                                              \/ \A j \in LineEnds(text) : j < i}
<1>3. Stops # {}
  <2>1. CASE LineEnds(text) = {}
    BY <2>1 DEF LineStarts
  <2>2. CASE LineEnds(text) # {}
    <3>1. LineEnds(text) \subseteq 0 .. Len(text)
      BY <1>1
    <3>2. PICK k \in LineEnds(text) : \A j \in LineEnds(text) : k >= j
      BY <1>1, <2>2, <3>1, GreatestNatural
    <3>3. k + 2 \in LineStarts(text) /\ \A j \in LineEnds(text) : j < k + 2
      BY <1>1, <3>2 DEF LineStarts
    <3> QED BY <3>3
  <2> QED BY <2>1, <2>2
<1>4. HeaderEnd(text) = Min(Stops)
  BY DEF HeaderEnd
<1>5. Stops \subseteq Nat
  BY <1>1, <1>2
<1>6. HeaderEnd(text) \in Stops /\ \A i \in Stops : HeaderEnd(text) <= i
  <2> HIDE DEF Stops
  <2> QED BY <1>3, <1>4, <1>5, MinOfNaturals
<1>7. HeaderLines(text) \subseteq 1 .. Len(text)
  <2>1. \A i \in LineStarts(text) : i < HeaderEnd(text) => i \in 1 .. Len(text)
    BY <1>1, <1>2, <1>6
  <2> QED BY <2>1 DEF HeaderLines
<1> QED BY <1>2, <1>6, <1>7

(* The value of a key is a byte of the text, or missing.                  *)
LEMMA ValueIsThere ==
    ASSUME NEW S, NEW text \in Seq(S), NEW keys
    PROVE  Value(text, keys) \in S \cup {Missing}
<1> DEFINE lines == {i \in HeaderLines(text) : text[i].is \in keys}
<1>1. Len(text) \in Nat /\ lines \subseteq 1 .. Len(text) /\ lines \subseteq 0 .. Len(text)
  BY LineEndsAre, HeaderParts
<1>2. Value(text, keys) = IF lines = {} THEN Missing ELSE text[Max(lines)]
  BY DEF Value
<1> HIDE DEF lines
<1>3. ASSUME lines # {} PROVE text[Max(lines)] \in S
  <2>1. Max(lines) \in lines
    BY <1>1, <1>3, MaxOfNaturals
  <2>2. Max(lines) \in 1 .. Len(text)
    BY <1>1, <2>1
  <2> QED BY <2>2, ElementOfSeq
<1> QED BY <1>2, <1>3

(* The header that is kept has a cookie and a rest out of what was read.   *)
HeaderFrom(head, S) ==
    /\ head.cookie \in S \cup {Missing} /\ head.length \in S \cup {Missing}
    /\ head.rest \in Seq(S)

(* What deserialize_response takes from the first recv, wherever that is  *)
(* cut, comes from the bytes read.                                        *)
LEMMA HeaderOfBytes ==
    ASSUME NEW S, NEW bytes \in Seq(S)
    PROVE  HeaderFrom(Header(bytes), S)
<1> DEFINE text == AfterLine(bytes)
<1>1. text \in Seq(S)
  <2>1. CASE LineEnds(bytes) = {}
    BY <2>1, EmptySeq DEF AfterLine
  <2>2. CASE LineEnds(bytes) # {}
    <3>1. Len(bytes) \in Nat /\ LineEnds(bytes) \subseteq Nat
      BY LineEndsAre
    <3>2. Min(LineEnds(bytes)) \in Nat
      BY <2>2, <3>1, MinOfNaturals
    <3>3. /\ Min(LineEnds(bytes)) + 2 \in Nat \ {0} /\ Len(bytes) \in Int
          /\ Len(bytes) <= Len(bytes)
      BY <3>1, <3>2
    <3>4. SubSeq(bytes, Min(LineEnds(bytes)) + 2, Len(bytes)) \in Seq(S)
      BY <3>3, PartOf
    <3> QED BY <2>2, <3>4 DEF AfterLine
  <2> QED BY <2>1, <2>2
<1>2. /\ Header(bytes).cookie = Value(text, LOGIN_COOKIE_KEY)
      /\ Header(bytes).length = Value(text, HEADER_CONTENT_LENGTH_KEY)
      /\ Header(bytes).rest = SubSeq(text, HeaderEnd(text), Len(text))
  BY DEF Header
<1> HIDE DEF text
<1>3. Len(text) \in Nat /\ HeaderEnd(text) \in 1 .. Len(text) + 1
  BY <1>1, LineEndsAre, HeaderParts
<1>4. HeaderEnd(text) \in Nat \ {0} /\ Len(text) \in Int /\ Len(text) <= Len(text)
  BY <1>3
<1>5. Header(bytes).rest \in Seq(S)
  BY <1>1, <1>2, <1>4, PartOf
<1>6. Header(bytes).cookie \in S \cup {Missing} /\ Header(bytes).length \in S \cup {Missing}
  BY <1>1, <1>2, ValueIsThere
<1> QED BY <1>5, <1>6 DEF HeaderFrom

-----------------------------------------------------------------------------
(* An answer that is read whole.                                          *)

(* Every index of the header is the first, the second or the third of a   *)
(* line.                                                                  *)
LEMMA Thirds ==
    ASSUME NEW n \in Nat, NEW j \in 1 .. 3 * n
    PROVE  \E i \in 1..n : j = 3 * i - 2 \/ j = 3 * i - 1 \/ j = 3 * i
<1> DEFINE i == (j + 2) \div 3
<1>1. i \in Int /\ j + 2 >= 3 * i /\ j + 2 < 3 * i + 3
  OBVIOUS
<1> HIDE DEF i
<1>2. i \in 1..n /\ (j = 3 * i - 2 \/ j = 3 * i - 1 \/ j = 3 * i)
  BY <1>1
<1> QED BY <1>2

(* An answer, byte by byte: the status line, n lines, an empty line, and   *)
(* the body.                                                               *)
IsAnswer(a, code, n, lines, body) ==
    /\ Len(a) = 3 * n + 7 + Len(body)
    /\ a[1] = VERSION /\ a[2] = SPACE /\ a[3] = Byte("code", code) /\ a[4] = CR /\ a[5] = LF
    /\ \A i \in 1..n : a[3 * i + 3] = lines[i] /\ a[3 * i + 4] = CR /\ a[3 * i + 5] = LF
    /\ a[3 * n + 6] = CR /\ a[3 * n + 7] = LF
    /\ \A k \in 1 .. Len(body) : a[3 * n + 7 + k] = body[k]

(* The header of an answer without its status line, and the body.          *)
IsText(t, n, lines, body) ==
    /\ Len(t) = 3 * n + 2 + Len(body)
    /\ \A i \in 1..n : t[3 * i - 2] = lines[i] /\ t[3 * i - 1] = CR /\ t[3 * i] = LF
    /\ t[3 * n + 1] = CR /\ t[3 * n + 2] = LF
    /\ \A k \in 1 .. Len(body) : t[3 * n + 2 + k] = body[k]

(* No line and no byte of the body is taken for a line end.                *)
Plain(n, lines, body) ==
    /\ \A i \in 1..n : lines[i] # CR
    /\ \A k \in 1 .. Len(body) : body[k] # CR

(* Its line ends are those of its lines and of the empty line.            *)
LEMMA LineEndsOfText ==
    ASSUME NEW S, NEW t \in Seq(S), NEW n \in Nat \ {0}, NEW lines, NEW body, Len(body) \in Nat,
           IsText(t, n, lines, body), Plain(n, lines, body)
    PROVE  LineEnds(t) = {3 * i - 1 : i \in 1..n} \cup {3 * n + 1}
<1>1. Len(t) = 3 * n + 2 + Len(body) /\ n \in Nat /\ n >= 1
  BY DEF IsText
<1>2. LineEnds(t) = {j \in 1 .. Len(t) - 1 : t[j] = CR /\ t[j + 1] = LF}
  BY LineEndsAre
<1>3. ASSUME NEW i \in 1..n PROVE 3 * i - 1 \in LineEnds(t)
  <2>1. 3 * i - 1 \in 1 .. Len(t) - 1 /\ (3 * i - 1) + 1 = 3 * i
    BY <1>1
  <2>2. t[3 * i - 1] = CR /\ t[3 * i] = LF
    BY DEF IsText
  <2> QED BY <1>2, <2>1, <2>2
<1>4. 3 * n + 1 \in LineEnds(t)
  <2>1. 3 * n + 1 \in 1 .. Len(t) - 1 /\ (3 * n + 1) + 1 = 3 * n + 2
    BY <1>1
  <2>2. t[3 * n + 1] = CR /\ t[3 * n + 2] = LF
    BY DEF IsText
  <2> QED BY <1>2, <2>1, <2>2
<1>5. LF # CR
  BY DEF LF, CR, Byte
<1>6. ASSUME NEW j \in LineEnds(t), j # 3 * n + 1 PROVE \E i \in 1..n : j = 3 * i - 1
  <2>1. j \in 1 .. Len(t) - 1 /\ t[j] = CR
    BY <1>2
  <2>2. CASE j <= 3 * n
    <3>1. j \in 1 .. 3 * n
      BY <1>1, <2>1, <2>2
    <3>2. PICK i \in 1..n : j = 3 * i - 2 \/ j = 3 * i - 1 \/ j = 3 * i
      BY <1>1, <3>1, Thirds
    <3>3. t[3 * i - 2] = lines[i] /\ lines[i] # CR /\ t[3 * i] = LF
      BY DEF IsText, Plain
    <3>4. j # 3 * i - 2 /\ j # 3 * i
      BY <1>5, <2>1, <3>3
    <3> QED BY <3>2, <3>4
  <2>3. CASE j > 3 * n
    <3>1. j = 3 * n + 2 \/ j - (3 * n + 2) \in 1 .. Len(body)
      BY <1>1, <1>6, <2>1, <2>3
    <3>2. j # 3 * n + 2
      BY <1>5, <2>1 DEF IsText
    <3> DEFINE k == j - (3 * n + 2)
    <3>3. k \in 1 .. Len(body) /\ 3 * n + 2 + k = j
      BY <1>1, <2>1, <3>1, <3>2
    <3> HIDE DEF k
    <3>4. t[j] = body[k]
      BY <3>3 DEF IsText
    <3> QED BY <2>1, <3>3, <3>4 DEF Plain
  <2> QED BY <1>1, <2>1, <2>2, <2>3
<1> QED BY <1>3, <1>4, <1>6

(* The loop over the lines stops at the empty one.                         *)
LEMMA HeaderOfText ==
    ASSUME NEW S, NEW t \in Seq(S), NEW n \in Nat \ {0}, NEW lines, NEW body, Len(body) \in Nat,
           IsText(t, n, lines, body), Plain(n, lines, body)
    PROVE  /\ HeaderEnd(t) = 3 * n + 1
           /\ HeaderLines(t) = {3 * i - 2 : i \in 1..n}
<1>1. Len(t) = 3 * n + 2 + Len(body) /\ n \in Nat /\ n >= 1
  BY DEF IsText
<1>2. LineEnds(t) = {3 * i - 1 : i \in 1..n} \cup {3 * n + 1}
  BY LineEndsOfText
<1>3. LineStarts(t) = {1} \cup {3 * i + 1 : i \in 1..n} \cup {3 * n + 3}
  <2>1. \A i \in 1..n : (3 * i - 1) + 2 = 3 * i + 1
    OBVIOUS
  <2>2. (3 * n + 1) + 2 = 3 * n + 3
    OBVIOUS
  <2>3. LineStarts(t) \subseteq {1} \cup {3 * i + 1 : i \in 1..n} \cup {3 * n + 3}
    BY <1>2, <2>1, <2>2 DEF LineStarts
  <2>4. 1 \in LineStarts(t) /\ 3 * n + 3 \in LineStarts(t)
    BY <1>2, <2>2 DEF LineStarts
  <2>5. ASSUME NEW i \in 1..n PROVE 3 * i + 1 \in LineStarts(t)
    <3>1. 3 * i - 1 \in LineEnds(t)
      BY <1>2
    <3> QED BY <2>1, <3>1 DEF LineStarts
  <2> QED BY <2>3, <2>4, <2>5
<1> DEFINE h == HeaderEnd(t)
<1>4. /\ h \in LineStarts(t)
      /\ h \in LineEnds(t) \cup {Len(t) + 1} \/ \A j \in LineEnds(t) : j < h
      /\ \A i \in LineStarts(t) :
            (i \in LineEnds(t) \cup {Len(t) + 1} \/ \A j \in LineEnds(t) : j < i) => h <= i
  BY HeaderParts
<1> HIDE DEF h
<1>5. 3 * n + 1 \in LineStarts(t) /\ 3 * n + 1 \in LineEnds(t)
  BY <1>1, <1>2, <1>3
<1>6. h <= 3 * n + 1
  BY <1>4, <1>5
<1>7. h = 1 \/ (\E i \in 1..n : h = 3 * i + 1) \/ h = 3 * n + 3
  BY <1>3, <1>4
<1>8. h \in Nat /\ \A i \in 1..n : h # 3 * i - 1
  BY <1>1, <1>7
<1>9. h \in LineEnds(t) \cup {Len(t) + 1}
  <2>1. ~ \A j \in LineEnds(t) : j < h
    BY <1>1, <1>5, <1>6, <1>8
  <2> QED BY <1>4, <2>1
<1>10. h = 3 * n + 1
  BY <1>1, <1>2, <1>6, <1>8, <1>9
<1>11. LineEnds(t) # {Len(t) - 1}
  <2>1. 1 \in 1..n /\ 3 * 1 - 1 = 2
    BY <1>1
  <2>2. 2 \in LineEnds(t)
    BY <1>2, <2>1
  <2> QED BY <1>1, <1>5, <2>2
<1>12. HeaderLines(t) = {i \in LineStarts(t) : i < h}
  BY <1>11 DEF HeaderLines, h
<1>13. ASSUME NEW j \in HeaderLines(t) PROVE \E i \in 1..n : j = 3 * i - 2
  <2>1. j < 3 * n + 1 /\ (j = 1 \/ (\E i \in 1..n : j = 3 * i + 1) \/ j = 3 * n + 3)
    BY <1>3, <1>10, <1>12
  <2>2. CASE j = 1
    <3>1. 1 \in 1..n /\ j = 3 * 1 - 2
      BY <1>1, <2>2
    <3> QED BY <3>1
  <2>3. CASE \E i \in 1..n : j = 3 * i + 1
    <3>1. PICK i \in 1..n : j = 3 * i + 1
      BY <2>3
    <3>2. i + 1 \in 1..n /\ j = 3 * (i + 1) - 2
      BY <1>1, <2>1, <3>1
    <3> QED BY <3>2
  <2> QED BY <1>1, <2>1, <2>2, <2>3
<1>14. ASSUME NEW i \in 1..n PROVE 3 * i - 2 \in HeaderLines(t)
  <2>1. 3 * i - 2 < 3 * n + 1
    BY <1>1
  <2>2. 3 * i - 2 \in LineStarts(t)
    <3>1. CASE i = 1
      BY <1>3, <3>1
    <3>2. CASE i # 1
      <4>1. i - 1 \in 1..n /\ 3 * i - 2 = 3 * (i - 1) + 1
        BY <1>1, <3>2
      <4> QED BY <1>3, <4>1
    <3> QED BY <3>1, <3>2
  <2> QED BY <1>10, <1>12, <2>1, <2>2
<1> QED BY <1>10, <1>13, <1>14 DEF h

(* The last line of a key counts.                                          *)
IsLastOf(i, n, lines, keys) ==
    /\ i \in 1..n /\ lines[i].is \in keys
    /\ \A j \in 1..n : j > i => lines[j].is \notin keys

(* The loop overwrites a value: the last line of a key counts.            *)
LEMMA LastLineCounts ==
    ASSUME NEW S, NEW t \in Seq(S), NEW n \in Nat \ {0}, NEW lines, NEW body, Len(body) \in Nat,
           IsText(t, n, lines, body), Plain(n, lines, body),
           NEW keys, NEW i, IsLastOf(i, n, lines, keys)
    PROVE  Value(t, keys) = lines[i]
<1>0. i \in 1..n /\ lines[i].is \in keys /\ \A j \in 1..n : j > i => lines[j].is \notin keys
  BY DEF IsLastOf
<1> DEFINE found == {j \in HeaderLines(t) : t[j].is \in keys}
<1>1. Len(t) = 3 * n + 2 + Len(body) /\ n \in Nat /\ n >= 1
  BY DEF IsText
<1>2. HeaderLines(t) = {3 * j - 2 : j \in 1..n}
  BY HeaderOfText
<1>3. \A j \in 1..n : t[3 * j - 2] = lines[j]
  BY DEF IsText
<1>4. 3 * i - 2 \in found
  BY <1>0, <1>2, <1>3
<1>5. ASSUME NEW k \in found PROVE k <= 3 * i - 2 /\ k \in 0 .. 3 * n
  <2>1. PICK j \in 1..n : k = 3 * j - 2
    BY <1>2
  <2>2. lines[j].is \in keys
    BY <1>3, <2>1
  <2>3. j <= i
    BY <1>0, <2>2
  <2> QED BY <1>0, <1>1, <2>1, <2>3
<1>6. Value(t, keys) = IF found = {} THEN Missing ELSE t[Max(found)]
  BY DEF Value
<1> HIDE DEF found
<1>7. found \subseteq 0 .. 3 * n /\ found # {} /\ 3 * n \in Nat
  BY <1>1, <1>4, <1>5
<1>8. Max(found) \in found /\ Max(found) >= 3 * i - 2
  BY <1>4, <1>7, MaxOfNaturals
<1>9. Max(found) = 3 * i - 2
  <2> DEFINE m == Max(found)
  <2>1. m \in 0 .. 3 * n /\ m <= 3 * i - 2 /\ m >= 3 * i - 2
    BY <1>5, <1>8
  <2> HIDE DEF m
  <2>2. m = 3 * i - 2
    BY <1>0, <1>1, <2>1
  <2> QED BY <2>2 DEF m
<1> QED BY <1>0, <1>3, <1>6, <1>7, <1>9

(* An answer that has been read whole: it decodes, it has a status, and    *)
(* its header has the last line of each key and the empty line and the     *)
(* body for its rest.                                                      *)
IsReadWhole(a, n, lines, body, S) ==
    /\ Decodes(a) /\ HasStatus(Line(a))
    /\ IsText(AfterLine(a), n, lines, body) /\ AfterLine(a) \in Seq(S)
    /\ Header(a).rest \in Seq(S) /\ Len(Header(a).rest) = 2 + Len(body)
    /\ Header(a).rest[1] = CR /\ Header(a).rest[2] = LF
    /\ \A k \in 1 .. Len(body) : Header(a).rest[2 + k] = body[k]

(* Such an answer is read without an error, and its body is all there.    *)
LEMMA WholeAnswer ==
    ASSUME NEW S, NEW a \in Seq(S), NEW code, NEW n \in Nat \ {0}, NEW lines,
           NEW body, Len(body) \in Nat,
           IsAnswer(a, code, n, lines, body), Plain(n, lines, body),
           body # <<>> => Len(body) > 0 /\ body[Len(body)] # LEAD
    PROVE  IsReadWhole(a, n, lines, body, S)
<1>1. Len(a) = 3 * n + 7 + Len(body) /\ n \in Nat /\ n >= 1
  BY DEF IsAnswer
<1>2. VERSION # TRAIL /\ LF # LEAD /\ VERSION # CR /\ SPACE # CR /\ Byte("code", code) # CR
  BY DEF VERSION, TRAIL, LF, LEAD, CR, SPACE, Byte
<1>3. Decodes(a)
  <2>1. Head(a) = a[1] /\ a[1] = VERSION
    BY <1>1 DEF IsAnswer
  <2>2. Last(a) # LEAD
    <3>1. CASE Len(body) = 0
      <4>1. Last(a) = a[3 * n + 7]
        BY <1>1, <3>1 DEF Last
      <4> QED BY <1>2, <4>1 DEF IsAnswer
    <3>2. CASE Len(body) # 0
      <4>1. body # <<>> /\ Len(body) \in 1 .. Len(body)
        BY <3>2
      <4>2. Last(a) = body[Len(body)]
        BY <1>1, <4>1 DEF IsAnswer, Last
      <4> QED BY <4>1, <4>2
    <3> QED BY <3>1, <3>2
  <2> QED BY <1>2, <2>1, <2>2 DEF Decodes
<1>4. Min(LineEnds(a)) = 4 /\ LineEnds(a) # {}
  <2>1. LineEnds(a) = {i \in 1 .. Len(a) - 1 : a[i] = CR /\ a[i + 1] = LF}
    BY LineEndsAre
  <2>2. 4 \in 1 .. Len(a) - 1 /\ 4 + 1 = 5
    BY <1>1
  <2>3. a[4] = CR /\ a[5] = LF
    BY DEF IsAnswer
  <2>4. 4 \in LineEnds(a)
    BY <2>1, <2>2, <2>3
  <2>5. a[1] # CR /\ a[2] # CR /\ a[3] # CR
    BY <1>2 DEF IsAnswer
  <2>6. ASSUME NEW i \in LineEnds(a) PROVE i >= 4 /\ i \in Nat
    <3>1. i \in 1 .. Len(a) - 1 /\ a[i] = CR
      BY <2>1
    <3>2. i # 1 /\ i # 2 /\ i # 3
      BY <2>5, <3>1
    <3> QED BY <1>1, <3>1, <3>2
  <2> DEFINE m == Min(LineEnds(a))
  <2>7. m \in LineEnds(a) /\ m <= 4
    BY <2>4, <2>6, MinOfNaturals
  <2>8. m >= 4 /\ m \in Nat
    BY <2>6, <2>7
  <2> HIDE DEF m
  <2>9. m = 4
    BY <2>7, <2>8
  <2> QED BY <2>4, <2>9 DEF m
<1>5. HasStatus(Line(a))
  <2> DEFINE l == Line(a)
  <2>1. l = SubSeq(a, 1, 3)
    BY <1>4 DEF Line
  <2>2. 1 \in Nat \ {0} /\ 3 \in Int /\ 3 <= Len(a) /\ 3 - 1 + 1 = 3 /\ 1 <= 3 /\ 2 \in 1..3 /\ 1 + 2 - 1 = 2
    BY <1>1
  <2> HIDE DEF l
  <2>3. l \in Seq(S) /\ Len(l) = 3
    BY <2>1, <2>2, PartOf
  <2>4. \A i \in 1 .. 3 - 1 + 1 : l[i] = a[1 + i - 1]
    BY <2>1, <2>2, PartOf
  <2>5. l[2] = SPACE
    <3>1. l[2] = a[1 + 2 - 1]
      BY <2>2, <2>4
    <3> QED BY <2>2, <3>1 DEF IsAnswer
  <2>6. 2 \in DOMAIN l
    BY <2>2, <2>3, LenProperties
  <2>7. 2 \in Spaces(l)
    BY <2>5, <2>6 DEF Spaces
  <2> QED BY <2>7 DEF HasStatus, l
<1> DEFINE t == AfterLine(a)
<1>6. t = SubSeq(a, 6, Len(a))
  BY <1>4 DEF AfterLine
<1> HIDE DEF t
<1>7. /\ t \in Seq(S) /\ Len(t) = 3 * n + 2 + Len(body)
      /\ \A k \in 1 .. Len(t) : t[k] = a[k + 5]
  <2>1. 6 \in Nat \ {0} /\ Len(a) \in Int /\ 6 <= Len(a)
    BY <1>1
  <2>2. t \in Seq(S)
    BY <1>6, <2>1, PartOf
  <2>3. Len(t) = Len(a) - 6 + 1
    BY <1>6, <2>1, PartOf
  <2>4. \A k \in 1 .. Len(a) - 6 + 1 : t[k] = a[6 + k - 1]
    BY <1>6, <2>1, PartOf
  <2>5. ASSUME NEW k \in 1 .. Len(t) PROVE t[k] = a[k + 5]
    <3>1. k \in 1 .. Len(a) - 6 + 1 /\ 6 + k - 1 = k + 5
      BY <1>1, <2>3
    <3> QED BY <2>4, <3>1
  <2> QED BY <1>1, <2>2, <2>3, <2>5
<1>8. IsText(t, n, lines, body)
  <2>1. ASSUME NEW i \in 1..n
        PROVE  t[3 * i - 2] = lines[i] /\ t[3 * i - 1] = CR /\ t[3 * i] = LF
    <3>1. /\ 3 * i - 2 \in 1 .. Len(t) /\ 3 * i - 1 \in 1 .. Len(t) /\ 3 * i \in 1 .. Len(t)
          /\ (3 * i - 2) + 5 = 3 * i + 3 /\ (3 * i - 1) + 5 = 3 * i + 4
      BY <1>1, <1>7
    <3>2. /\ t[3 * i - 2] = a[(3 * i - 2) + 5] /\ t[3 * i - 1] = a[(3 * i - 1) + 5]
          /\ t[3 * i] = a[3 * i + 5]
      BY <1>7, <3>1
    <3>3. a[3 * i + 3] = lines[i] /\ a[3 * i + 4] = CR /\ a[3 * i + 5] = LF
      BY DEF IsAnswer
    <3> QED BY <3>1, <3>2, <3>3
  <2>2. t[3 * n + 1] = CR /\ t[3 * n + 2] = LF
    <3>1. /\ 3 * n + 1 \in 1 .. Len(t) /\ 3 * n + 2 \in 1 .. Len(t)
          /\ (3 * n + 1) + 5 = 3 * n + 6 /\ (3 * n + 2) + 5 = 3 * n + 7
      BY <1>1, <1>7
    <3>2. t[3 * n + 1] = a[(3 * n + 1) + 5] /\ t[3 * n + 2] = a[(3 * n + 2) + 5]
      BY <1>7, <3>1
    <3>3. a[3 * n + 6] = CR /\ a[3 * n + 7] = LF
      BY DEF IsAnswer
    <3> QED BY <3>1, <3>2, <3>3
  <2>3. ASSUME NEW k \in 1 .. Len(body) PROVE t[3 * n + 2 + k] = body[k]
    <3>1. 3 * n + 2 + k \in 1 .. Len(t) /\ (3 * n + 2 + k) + 5 = 3 * n + 7 + k
      BY <1>1, <1>7
    <3>2. t[3 * n + 2 + k] = a[(3 * n + 2 + k) + 5]
      BY <1>7, <3>1
    <3>3. a[3 * n + 7 + k] = body[k]
      BY DEF IsAnswer
    <3> QED BY <3>1, <3>2, <3>3
  <2> QED BY <1>7, <2>1, <2>2, <2>3 DEF IsText
<1>9. HeaderEnd(t) = 3 * n + 1
  BY <1>7, <1>8, HeaderOfText
<1> DEFINE r == Header(a).rest
<1>10. r = SubSeq(t, 3 * n + 1, Len(t))
  BY <1>9 DEF Header, t
<1> HIDE DEF r
<1>11. /\ r \in Seq(S) /\ Len(r) = 2 + Len(body)
       /\ \A k \in 1 .. 2 + Len(body) : r[k] = t[3 * n + k]
  <2>1. 3 * n + 1 \in Nat \ {0} /\ Len(t) \in Int /\ Len(t) <= Len(t) /\ 3 * n + 1 <= Len(t)
    BY <1>1, <1>7
  <2>2. r \in Seq(S)
    BY <1>7, <1>10, <2>1, PartOf
  <2>3. Len(r) = Len(t) - (3 * n + 1) + 1
    BY <1>7, <1>10, <2>1, PartOf
  <2>4. \A k \in 1 .. Len(t) - (3 * n + 1) + 1 : r[k] = t[(3 * n + 1) + k - 1]
    BY <1>7, <1>10, <2>1, PartOf
  <2>5. ASSUME NEW k \in 1 .. 2 + Len(body) PROVE r[k] = t[3 * n + k]
    <3>1. k \in 1 .. Len(t) - (3 * n + 1) + 1 /\ (3 * n + 1) + k - 1 = 3 * n + k
      BY <1>1, <1>7
    <3> QED BY <2>4, <3>1
  <2>6. Len(r) = 2 + Len(body)
    <3>1. Len(t) = 3 * n + 2 + Len(body) /\ Len(body) \in Nat /\ 3 * n \in Nat
      BY <1>1, <1>7
    <3> QED BY <2>3, <3>1
  <2> QED BY <2>2, <2>5, <2>6
<1>12. r[1] = CR /\ r[2] = LF
  <2>1. 1 \in 1 .. 2 + Len(body) /\ 2 \in 1 .. 2 + Len(body)
    OBVIOUS
  <2>2. r[1] = t[3 * n + 1] /\ r[2] = t[3 * n + 2]
    BY <1>11, <2>1
  <2> QED BY <1>8, <2>2 DEF IsText
<1>13. ASSUME NEW k \in 1 .. Len(body) PROVE r[2 + k] = body[k]
  <2>1. 2 + k \in 1 .. 2 + Len(body) /\ 3 * n + (2 + k) = 3 * n + 2 + k
    BY <1>1
  <2>2. r[2 + k] = t[3 * n + 2 + k]
    BY <1>11, <2>1
  <2> QED BY <1>8, <2>2 DEF IsText
<1> QED BY <1>3, <1>5, <1>7, <1>8, <1>11, <1>12, <1>13 DEF IsReadWhole, t, r


-----------------------------------------------------------------------------
(* The answers of the server.                                             *)

(* The answers of the server are spelled this way.                        *)
LEMMA AnswerByByte ==
    ASSUME NEW S, CR \in S, LF \in S, VERSION \in S, SPACE \in S,
           NEW code, Byte("code", code) \in S,
           NEW n \in Nat \ {0}, NEW lines \in [1..n -> S], NEW body \in Seq(S)
    PROVE  Answer(code, lines, body) \in Seq(S) /\ IsAnswer(Answer(code, lines, body), code, n, lines, body)
<1> DEFINE status == <<VERSION, SPACE, Byte("code", code)>>
           rows == FlattenSeq([i \in 1..n |-> <<lines[i]>> \o LINE_ENDING])
           a1 == status \o LINE_ENDING
           a2 == a1 \o rows
           a3 == a2 \o LINE_ENDING
           a4 == a3 \o body
<1>1. /\ status \in Seq(S) /\ Len(status) = 3
      /\ status[1] = VERSION /\ status[2] = SPACE /\ status[3] = Byte("code", code)
  <2> DEFINE c == Byte("code", code)
  <2>1. c \in S
    OBVIOUS
  <2> HIDE DEF c, VERSION, SPACE
  <2>2. /\ <<VERSION, SPACE, c>> \in Seq(S) /\ Len(<<VERSION, SPACE, c>>) = 3
        /\ <<VERSION, SPACE, c>>[1] = VERSION /\ <<VERSION, SPACE, c>>[2] = SPACE
        /\ <<VERSION, SPACE, c>>[3] = c
    BY <2>1
  <2> QED BY <2>2 DEF c
<1>2. Answer(code, lines, body) = a4
  <2>1. DOMAIN lines = 1..n
    OBVIOUS
  <2> QED BY <2>1 DEF Answer
<1> HIDE DEF status
<1>3. /\ LINE_ENDING \in Seq(S) /\ Len(LINE_ENDING) = 2
      /\ LINE_ENDING[1] = CR /\ LINE_ENDING[2] = LF
  BY LineEnding
<1>4. /\ rows \in Seq(S) /\ Len(rows) = 3 * n
      /\ \A i \in 1..n : rows[3 * i - 2] = lines[i] /\ rows[3 * i - 1] = CR /\ rows[3 * i] = LF
  <2>1. rows \in Seq(S) /\ HasLines(rows, n, lines)
    BY LinesInOrder
  <2> HIDE DEF rows
  <2> QED BY <2>1 DEF HasLines
<1> HIDE DEF rows, a1
<1>5. a1 \in Seq(S) /\ Joins(a1, status, LINE_ENDING)
  BY <1>1, <1>3, Joined DEF a1
<1> HIDE DEF a2
<1>6. a2 \in Seq(S) /\ Joins(a2, a1, rows)
  BY <1>4, <1>5, Joined DEF a2
<1> HIDE DEF a3
<1>7. a3 \in Seq(S) /\ Joins(a3, a2, LINE_ENDING)
  BY <1>3, <1>6, Joined DEF a3
<1> HIDE DEF a4
<1>8. a4 \in Seq(S) /\ Joins(a4, a3, body)
  BY <1>7, Joined DEF a4
<1>9. n \in Nat /\ n >= 1
  OBVIOUS
<1>10. Len(a1) = 5 /\ Len(a2) = 3 * n + 5 /\ Len(a3) = 3 * n + 7 /\ Len(a4) = 3 * n + 7 + Len(body)
  BY <1>1, <1>3, <1>4, <1>5, <1>6, <1>7, <1>8, <1>9 DEF Joins
<1>11. /\ a1[1] = VERSION /\ a1[2] = SPACE /\ a1[3] = Byte("code", code)
       /\ a1[4] = CR /\ a1[5] = LF
  BY <1>1, <1>3, <1>5 DEF Joins
<1>12. \A k \in 1 .. 5 : a4[k] = a1[k]
  <2>1. \A k \in 1..5 : a2[k] = a1[k]
    BY <1>6, <1>10 DEF Joins
  <2>2. \A k \in 1 .. 3 * n + 5 : a3[k] = a2[k]
    BY <1>7, <1>10 DEF Joins
  <2>3. \A k \in 1 .. 3 * n + 7 : a4[k] = a3[k]
    BY <1>8, <1>10 DEF Joins
  <2>4. \A k \in 1..5 : k \in 1 .. 3 * n + 5 /\ k \in 1 .. 3 * n + 7
    BY <1>9
  <2> QED BY <2>1, <2>2, <2>3, <2>4
<1>13. ASSUME NEW k \in 1 .. 3 * n PROVE a4[5 + k] = rows[k]
  <2>1. a2[5 + k] = rows[k]
    BY <1>4, <1>6, <1>10 DEF Joins
  <2>2. 5 + k \in 1 .. 3 * n + 5 /\ 5 + k \in 1 .. 3 * n + 7
    BY <1>9
  <2>3. a3[5 + k] = a2[5 + k]
    BY <1>7, <1>10, <2>2 DEF Joins
  <2>4. a4[5 + k] = a3[5 + k]
    BY <1>8, <1>10, <2>2 DEF Joins
  <2> QED BY <2>1, <2>3, <2>4
<1>14. ASSUME NEW i \in 1..n
       PROVE  a4[3 * i + 3] = lines[i] /\ a4[3 * i + 4] = CR /\ a4[3 * i + 5] = LF
  <2>1. /\ 3 * i - 2 \in 1 .. 3 * n /\ 3 * i - 1 \in 1 .. 3 * n /\ 3 * i \in 1 .. 3 * n
        /\ 5 + (3 * i - 2) = 3 * i + 3 /\ 5 + (3 * i - 1) = 3 * i + 4 /\ 5 + 3 * i = 3 * i + 5
    BY <1>9
  <2>2. /\ a4[5 + (3 * i - 2)] = rows[3 * i - 2]
        /\ a4[5 + (3 * i - 1)] = rows[3 * i - 1]
        /\ a4[5 + 3 * i] = rows[3 * i]
    BY <1>13, <2>1
  <2> QED BY <1>4, <2>1, <2>2
<1>15. a4[3 * n + 6] = CR /\ a4[3 * n + 7] = LF
  <2>1. a3[(3 * n + 5) + 1] = CR /\ a3[(3 * n + 5) + 2] = LF
    BY <1>3, <1>7, <1>10 DEF Joins
  <2>2. /\ (3 * n + 5) + 1 = 3 * n + 6 /\ (3 * n + 5) + 2 = 3 * n + 7
        /\ 3 * n + 6 \in 1 .. 3 * n + 7 /\ 3 * n + 7 \in 1 .. 3 * n + 7
    BY <1>9
  <2>3. \A k \in 1 .. 3 * n + 7 : a4[k] = a3[k]
    BY <1>8, <1>10 DEF Joins
  <2> QED BY <2>1, <2>2, <2>3
<1>16. \A k \in 1 .. Len(body) : a4[3 * n + 7 + k] = body[k]
  BY <1>8, <1>10 DEF Joins
<1>17. a4[1] = VERSION /\ a4[2] = SPACE /\ a4[3] = Byte("code", code) /\ a4[4] = CR /\ a4[5] = LF
  BY <1>11, <1>12
<1>18. IsAnswer(a4, code, n, lines, body)
  BY <1>10, <1>14, <1>15, <1>16, <1>17 DEF IsAnswer
<1> QED BY <1>2, <1>8, <1>18

-----------------------------------------------------------------------------
(* What the answers may carry.                                             *)
Kinds == {"version", "code", "space", "cr", "lf", "length", "location", "csrftoken", "sessionid",
          "other", "text", "lead", "trail", "token"}

Bytes == [is : Kinds, n : Nat]

(* A page has no session, and one cookie and one token.                    *)
PageBytes == {b \in Bytes : /\ b.is # "sessionid"
                            /\ b.is \in {"token", "csrftoken"} => b.n = PageToken}

(* To a user it knows the server sends the session and the next token.     *)
Allowed(known) ==
    IF known THEN PageBytes \cup {Byte("csrftoken", NextToken), Byte("sessionid", Session)}
    ELSE PageBytes

(* The bytes that the server writes.                                      *)
LEMMA SomePageBytes ==
    /\ CR \in PageBytes /\ LF \in PageBytes /\ VERSION \in PageBytes /\ SPACE \in PageBytes
    /\ TEXT \in PageBytes /\ LEAD \in PageBytes /\ TRAIL \in PageBytes
    /\ Byte("token", PageToken) \in PageBytes /\ Byte("csrftoken", PageToken) \in PageBytes
    /\ Byte("other", 0) \in PageBytes /\ Byte("location", 0) \in PageBytes
    /\ \A n \in Nat : Byte("code", n) \in PageBytes /\ Byte("length", n) \in PageBytes
<1>1. CR \in PageBytes
  BY DEF PageBytes, Bytes, Kinds, Byte, CR
<1>2. LF \in PageBytes
  BY DEF PageBytes, Bytes, Kinds, Byte, LF
<1>3. VERSION \in PageBytes
  BY DEF PageBytes, Bytes, Kinds, Byte, VERSION
<1>4. SPACE \in PageBytes
  BY DEF PageBytes, Bytes, Kinds, Byte, SPACE
<1>5. TEXT \in PageBytes
  BY DEF PageBytes, Bytes, Kinds, Byte, TEXT
<1>6. LEAD \in PageBytes
  BY DEF PageBytes, Bytes, Kinds, Byte, LEAD
<1>7. TRAIL \in PageBytes
  BY DEF PageBytes, Bytes, Kinds, Byte, TRAIL
<1>8. Byte("token", PageToken) \in PageBytes
  BY DEF PageBytes, Bytes, Kinds, Byte, PageToken
<1>9. Byte("csrftoken", PageToken) \in PageBytes
  BY DEF PageBytes, Bytes, Kinds, Byte, PageToken
<1>10. Byte("other", 0) \in PageBytes
  BY DEF PageBytes, Bytes, Kinds, Byte
<1>11. Byte("location", 0) \in PageBytes
  BY DEF PageBytes, Bytes, Kinds, Byte
<1>12. ASSUME NEW n \in Nat PROVE Byte("code", n) \in PageBytes
  BY DEF PageBytes, Bytes, Kinds, Byte
<1>13. ASSUME NEW n \in Nat PROVE Byte("length", n) \in PageBytes
  BY DEF PageBytes, Bytes, Kinds, Byte
<1> QED BY <1>1, <1>2, <1>3, <1>4, <1>5, <1>6, <1>7, <1>8, <1>9, <1>10, <1>11, <1>12, <1>13

(* The characters of two bytes: no byte else, and the last is whole.       *)
LEMMA WideText ==
    /\ Wide \in Seq({LEAD, TRAIL})
    /\ Wide # <<>> => Len(Wide) > 0 /\ Wide[Len(Wide)] = TRAIL
<1> DEFINE E == {LEAD, TRAIL}
           pair == <<LEAD, TRAIL>>
           seqs == [i \in 1 .. WideChars |-> pair]
           Q == {s \in Seq(E) : Len(s) > 0 /\ s[Len(s)] = TRAIL}
<1>1. pair \in Seq(E) /\ Len(pair) = 2 /\ pair[2] = TRAIL
  <2> HIDE DEF LEAD, TRAIL
  <2> QED OBVIOUS
<1>2. WideChars \in Nat /\ Wide = FlattenSeq(seqs)
  BY CrawlerAssumption DEF Wide
<1> HIDE DEF E, pair
<1>3. CASE WideChars = 0
  <2>1. seqs = <<>>
    BY <1>3
  <2>2. FlattenSeq(<<>>) = <<>>
    BY DEF FlattenSeq
  <2> HIDE DEF seqs
  <2> QED BY <1>2, <2>1, <2>2, EmptySeq DEF E
<1>4. CASE WideChars # 0
  <2>1. pair \in Q
    <3>1. Len(pair) > 0 /\ pair[Len(pair)] = TRAIL
      BY <1>1
    <3> QED BY <1>1, <3>1
  <2>2. \A s \in Q : s \o pair \in Q
    <3> SUFFICES ASSUME NEW s \in Seq(E), Len(s) > 0 PROVE s \o pair \in Q
      OBVIOUS
    <3>1. s \o pair \in Seq(E) /\ Joins(s \o pair, s, pair)
      BY <1>1, Joined
    <3> DEFINE w == s \o pair
    <3> HIDE DEF w
    <3>2. Len(w) = Len(s) + 2 /\ w[Len(s) + 2] = TRAIL /\ Len(w) > 0
      BY <1>1, <3>1 DEF Joins, w
    <3> QED BY <3>1, <3>2 DEF w
  <2>3. seqs \in [1 .. WideChars -> Seq(E)] /\ \A i \in 1 .. WideChars : seqs[i] = pair
    BY <1>1
  <2>4. WideChars \in Nat \ {0}
    BY <1>2, <1>4
  <2> HIDE DEF seqs, Q
  <2>5. FlattenSeq(seqs) \in Q
    <3>1. \A i \in 1 .. WideChars : seqs[i] \in Q
      BY <2>1, <2>3
    <3>2. \A s \in Q : \A i \in 1 .. WideChars : s \o seqs[i] \in Q
      BY <2>2, <2>3
    <3> QED BY <2>3, <2>4, <3>1, <3>2, FlattenStays
  <2> QED BY <1>2, <2>5 DEF Q, E
<1> QED BY <1>3, <1>4

(* The body of a page: its token is the second byte, what follows is text. *)
LEMMA BodyByByte ==
    /\ Body \in Seq(PageBytes) /\ Len(Body) \in Nat /\ Len(Body) >= 3
    /\ Body[1] = TEXT /\ Body[2] = Byte("token", PageToken) /\ Body[3] = SPACE
    /\ \A k \in 4 .. Len(Body) : Body[k] \in {LEAD, TRAIL, TEXT}
    /\ Body[Len(Body)] # LEAD
<1> DEFINE first == <<TEXT, Byte("token", PageToken), SPACE>>
           last == [i \in 1 .. Filler |-> TEXT]
           b1 == first \o Wide
           b2 == b1 \o last
<1>1. /\ first \in Seq(PageBytes) /\ Len(first) = 3
      /\ first[1] = TEXT /\ first[2] = Byte("token", PageToken) /\ first[3] = SPACE
  <2> DEFINE t == Byte("token", PageToken)
  <2>1. t \in PageBytes /\ TEXT \in PageBytes /\ SPACE \in PageBytes
    BY SomePageBytes
  <2> HIDE DEF t, TEXT, SPACE, PageBytes
  <2>2. /\ <<TEXT, t, SPACE>> \in Seq(PageBytes) /\ Len(<<TEXT, t, SPACE>>) = 3
        /\ <<TEXT, t, SPACE>>[1] = TEXT /\ <<TEXT, t, SPACE>>[2] = t
        /\ <<TEXT, t, SPACE>>[3] = SPACE
    BY <2>1
  <2> QED BY <2>2 DEF t
<1>2. Filler \in Nat
  BY CrawlerAssumption
<1>3. last \in Seq(PageBytes) /\ Len(last) = Filler /\ \A k \in 1 .. Filler : last[k] = TEXT
  <2> HIDE DEF TEXT, PageBytes
  <2>1. TEXT \in PageBytes
    BY SomePageBytes
  <2> QED BY <1>2, <2>1
<1>4. Wide \in Seq(PageBytes)
  <2>1. {LEAD, TRAIL} \subseteq PageBytes
    BY SomePageBytes
  <2> HIDE DEF LEAD, TRAIL, PageBytes
  <2> QED BY <2>1, WideText, SeqMonotonic
<1>5. Body = b2
  BY DEF Body
<1> HIDE DEF first, last
<1> HIDE DEF b1
<1>6. b1 \in Seq(PageBytes) /\ Joins(b1, first, Wide)
  BY <1>1, <1>4, Joined DEF b1
<1> HIDE DEF b2
<1>7. b2 \in Seq(PageBytes) /\ Joins(b2, b1, last)
  BY <1>3, <1>6, Joined DEF b2
<1>8. Len(Wide) \in Nat /\ Len(b1) = 3 + Len(Wide) /\ Len(b2) = 3 + Len(Wide) + Filler
  BY <1>1, <1>3, <1>6, <1>7 DEF Joins
<1>9. \A k \in 1 .. 3 : b2[k] = first[k]
  <2>1. \A k \in 1 .. 3 : b1[k] = first[k] /\ k \in 1 .. Len(b1)
    BY <1>1, <1>6, <1>8 DEF Joins
  <2> QED BY <1>7, <2>1 DEF Joins
<1>10. ASSUME NEW k \in 1 .. Len(Wide) PROVE b2[3 + k] = Wide[k] /\ Wide[k] \in {LEAD, TRAIL}
  <2>1. b1[3 + k] = Wide[k] /\ 3 + k \in 1 .. Len(b1)
    BY <1>1, <1>6, <1>8 DEF Joins
  <2>2. b2[3 + k] = b1[3 + k]
    BY <1>7, <2>1 DEF Joins
  <2>3. Wide[k] \in {LEAD, TRAIL}
    <3> HIDE DEF LEAD, TRAIL
    <3> QED BY WideText, ElementOfSeq
  <2> QED BY <2>1, <2>2, <2>3
<1>11. ASSUME NEW k \in 1 .. Filler PROVE b2[3 + Len(Wide) + k] = TEXT
  BY <1>3, <1>7, <1>8 DEF Joins
<1>12. ASSUME NEW k \in 4 .. Len(b2) PROVE b2[k] \in {LEAD, TRAIL, TEXT}
  <2>1. CASE k <= 3 + Len(Wide)
    <3>1. k - 3 \in 1 .. Len(Wide) /\ 3 + (k - 3) = k
      BY <1>8, <2>1
    <3> QED BY <1>10, <3>1
  <2>2. CASE k > 3 + Len(Wide)
    <3> DEFINE j == k - (3 + Len(Wide))
    <3>1. j \in 1 .. Filler /\ 3 + Len(Wide) + j = k
      BY <1>2, <1>8, <2>2
    <3> HIDE DEF j
    <3> QED BY <1>11, <3>1
  <2> QED BY <1>8, <2>1, <2>2
<1>13. b2[Len(b2)] # LEAD
  <2>1. CASE Filler > 0
    <3>1. Filler \in 1 .. Filler
      BY <1>2, <2>1
    <3>2. b2[Len(b2)] = TEXT
      BY <1>8, <1>11, <3>1
    <3>3. TEXT # LEAD
      BY DEF TEXT, LEAD, Byte
    <3> QED BY <3>2, <3>3
  <2>2. CASE Filler = 0 /\ Wide # <<>>
    <3>1. Len(Wide) \in 1 .. Len(Wide) /\ Wide[Len(Wide)] = TRAIL
      BY <1>8, <2>2, WideText
    <3>2. b2[Len(b2)] = TRAIL
      BY <1>8, <1>10, <2>2, <3>1
    <3>3. TRAIL # LEAD
      BY DEF TRAIL, LEAD, Byte
    <3> QED BY <3>2, <3>3
  <2>3. CASE Filler = 0 /\ Wide = <<>>
    <3>1. Len(b2) = 3
      BY <1>8, <2>3, EmptySeq
    <3>2. b2[Len(b2)] = SPACE
      BY <1>1, <1>9, <3>1
    <3>3. SPACE # LEAD
      BY DEF SPACE, LEAD, Byte
    <3> QED BY <3>2, <3>3
  <2> QED BY <1>2, <2>1, <2>2, <2>3
<1>14. b2[1] = TEXT /\ b2[2] = Byte("token", PageToken) /\ b2[3] = SPACE
  BY <1>1, <1>9
<1>15. Len(b2) \in Nat /\ Len(b2) >= 3
  BY <1>2, <1>8
<1> QED BY <1>5, <1>7, <1>12, <1>13, <1>14, <1>15

(* The header of a page has three lines.                                   *)
LEMMA ThreePageLines ==
    /\ PageLines \subseteq PageBytes /\ Cardinality(PageLines) = 3
    /\ SetToSeq(PageLines) \in [1..3 -> PageLines]
<1> DEFINE a == Byte("length", Len(Body))
           b == Byte("csrftoken", PageToken)
           c == Byte("other", 0)
<1>1. a \in PageBytes /\ b \in PageBytes /\ c \in PageBytes
  BY BodyByByte, SomePageBytes
<1>2. a # b /\ a # c /\ b # c
  BY DEF Byte
<1>3. PageLines = {a, b, c}
  BY DEF PageLines
<1> HIDE DEF a, b, c
<1>4. IsFiniteSet({a}) /\ Cardinality({a}) = 1
  BY FS_Singleton
<1>5. IsFiniteSet({a} \cup {b}) /\ Cardinality({a} \cup {b}) = 2
  <2>1. b \notin {a}
    BY <1>2
  <2> QED BY <1>4, <2>1, FS_AddElement
<1>6. IsFiniteSet(({a} \cup {b}) \cup {c}) /\ Cardinality(({a} \cup {b}) \cup {c}) = 3
  <2>1. c \notin {a} \cup {b}
    BY <1>2
  <2> QED BY <1>5, <2>1, FS_AddElement
<1>7. PageLines = ({a} \cup {b}) \cup {c}
  BY <1>3
<1>8. IsFiniteSet(PageLines) /\ Cardinality(PageLines) = 3
  BY <1>6, <1>7
<1>9. \E f \in [1 .. Cardinality(PageLines) -> PageLines] : IsInjective(f)
  <2> DEFINE f == [i \in 1..3 |-> IF i = 1 THEN a ELSE IF i = 2 THEN b ELSE c]
  <2>1. f \in [1..3 -> PageLines]
    BY <1>3
  <2>2. IsInjective(f)
    BY <1>2 DEF IsInjective
  <2> HIDE DEF f
  <2> QED BY <1>8, <2>1, <2>2
<1>10. SetToSeq(PageLines) \in [1 .. Cardinality(PageLines) -> PageLines]
  BY <1>9 DEF SetToSeq
<1> QED BY <1>1, <1>3, <1>8, <1>10

(* An answer with three lines of a page and its body.                      *)
IsPage(p, lines) ==
    p = Answer(200, lines, Body) /\ p \in Seq(PageBytes) /\ IsAnswer(p, 200, 3, lines, Body)

(* A page with its lines in any order is spelled this way.                *)
LEMMA PageByByte ==
    ASSUME NEW lines \in [1..3 -> PageLines]
    PROVE  IsPage(Answer(200, lines, Body), lines)
<1>1. lines \in [1..3 -> PageBytes]
  BY ThreePageLines
<1>2. Byte("code", 200) \in PageBytes /\ 3 \in Nat \ {0}
  BY SomePageBytes
<1>3. Answer(200, lines, Body) \in Seq(PageBytes) /\ IsAnswer(Answer(200, lines, Body), 200, 3, lines, Body)
  <2>1. CR \in PageBytes /\ LF \in PageBytes /\ VERSION \in PageBytes /\ SPACE \in PageBytes
    BY SomePageBytes
  <2>2. Body \in Seq(PageBytes)
    BY BodyByByte
  <2>3. ASSUME NEW n \in Nat \ {0}, NEW rows \in [1..n -> PageBytes], NEW body \in Seq(PageBytes)
        PROVE  /\ Answer(200, rows, body) \in Seq(PageBytes)
               /\ IsAnswer(Answer(200, rows, body), 200, n, rows, body)
    BY <1>2, <2>1, AnswerByByte
  <2> QED BY <1>1, <1>2, <2>2, <2>3
<1> QED BY <1>3 DEF IsPage

(* Every page has its three lines, in some order.                         *)
LEMMA PagesByByte ==
    ASSUME NEW p \in Pages
    PROVE  \E lines \in [1..3 -> PageLines] :
              IsPage(p, lines) /\ \A i, j \in 1..3 : i # j => lines[i] # lines[j]
<1>1. PICK lines \in SetToSeqs(PageLines) : p = Answer(200, lines, Body)
  BY DEF Pages
<1>2. lines \in [1..3 -> PageLines] /\ \A i, j \in 1..3 : i # j => lines[i] # lines[j]
  BY ThreePageLines DEF SetToSeqs
<1> QED BY <1>1, <1>2, PageByByte

(* The redirection after a login.                                          *)
RedirectLines == <<Byte("length", 0), Byte("location", 0)>> \o NewCookies

(* The redirection is spelled this way; if the session is set last, its   *)
(* line is the last.                                                      *)
LEMMA RedirectByByte ==
    /\ RedirectLines \in [1..4 -> Allowed(TRUE)]
    /\ RedirectLines[1] = Byte("length", 0) /\ RedirectLines[2] = Byte("location", 0)
    /\ SessionLast => /\ RedirectLines[3] = Byte("csrftoken", NextToken)
                      /\ RedirectLines[4] = Byte("sessionid", Session)
    /\ Redirect \in Seq(Allowed(TRUE)) /\ IsAnswer(Redirect, 302, 4, RedirectLines, <<>>)
<1> DEFINE a == Byte("length", 0)
           b == Byte("location", 0)
           c == Byte("csrftoken", NextToken)
           d == Byte("sessionid", Session)
           S == Allowed(TRUE)
<1>1. a \in S /\ b \in S /\ c \in S /\ d \in S
  BY SomePageBytes DEF Allowed
<1>2. SessionLast \in BOOLEAN
  BY CrawlerAssumption
<1>3. NewCookies = IF SessionLast THEN <<c, d>> ELSE <<d, c>>
  BY DEF NewCookies
<1>4. RedirectLines = <<a, b>> \o NewCookies
  BY DEF RedirectLines
<1> HIDE DEF a, b, c, d
<1>5. PageBytes \subseteq S
  BY DEF Allowed
<1> HIDE DEF S
<1>6. <<a, b>> \in Seq(S) /\ Len(<<a, b>>) = 2 /\ <<a, b>>[1] = a /\ <<a, b>>[2] = b
  BY <1>1
<1>7. NewCookies \in Seq(S) /\ Len(NewCookies) = 2
  BY <1>1, <1>2, <1>3
<1>8. SessionLast => NewCookies[1] = c /\ NewCookies[2] = d
  BY <1>3
<1> DEFINE e == <<a, b>>
<1>9. e \in Seq(S) /\ Len(e) = 2 /\ e[1] = a /\ e[2] = b /\ RedirectLines = e \o NewCookies
  BY <1>4, <1>6
<1> HIDE DEF e
<1>10. RedirectLines \in Seq(S) /\ Joins(RedirectLines, e, NewCookies)
  BY <1>7, <1>9, Joined
<1>11. Len(RedirectLines) = 4 /\ RedirectLines[1] = a /\ RedirectLines[2] = b
  BY <1>7, <1>9, <1>10 DEF Joins
<1>12. RedirectLines[3] = NewCookies[1] /\ RedirectLines[4] = NewCookies[2]
  BY <1>7, <1>9, <1>10 DEF Joins
<1>13. RedirectLines \in [1..4 -> S]
  BY <1>10, <1>11
<1>14. /\ CR \in S /\ LF \in S /\ VERSION \in S /\ SPACE \in S /\ Byte("code", 302) \in S
       /\ <<>> \in Seq(S) /\ 4 \in Nat \ {0}
  BY <1>5, SomePageBytes, EmptySeq
<1>15. Redirect = Answer(302, RedirectLines, <<>>)
  BY DEF Redirect, RedirectLines
<1>16. Redirect \in Seq(S) /\ IsAnswer(Redirect, 302, 4, RedirectLines, <<>>)
  <2> DEFINE n == 4
             none == <<>>
  <2>1. n \in Nat \ {0} /\ RedirectLines \in [1..n -> S] /\ none \in Seq(S)
        /\ Redirect = Answer(302, RedirectLines, none)
    BY <1>13, <1>14, <1>15
  <2> HIDE DEF n, none
  <2>2. Redirect \in Seq(S) /\ IsAnswer(Redirect, 302, n, RedirectLines, none)
    BY <1>14, <2>1, AnswerByByte
  <2> QED BY <2>2 DEF n, none
<1> QED BY <1>8, <1>11, <1>12, <1>13, <1>16 DEF a, b, c, d, S

(* The answer to an unknown user has no cookie and no token.              *)
LEMMA ForbiddenByByte == Forbidden \in Seq(PageBytes) /\ Len(Forbidden) = 10
<1> DEFINE lines == <<Byte("length", 0)>>
<1>1. lines \in [1..1 -> PageBytes]
  <2>1. Byte("length", 0) \in PageBytes
    BY SomePageBytes
  <2> HIDE DEF PageBytes
  <2> QED BY <2>1
<1>2. Forbidden = Answer(403, lines, <<>>)
  BY DEF Forbidden
<1> HIDE DEF lines
<1>3. Byte("code", 403) \in PageBytes /\ 1 \in Nat \ {0} /\ <<>> \in Seq(PageBytes)
  BY SomePageBytes, EmptySeq
<1>4. Forbidden \in Seq(PageBytes) /\ IsAnswer(Forbidden, 403, 1, lines, <<>>)
  <2> DEFINE n == 1
             none == <<>>
  <2>1. n \in Nat \ {0} /\ lines \in [1..n -> PageBytes] /\ none \in Seq(PageBytes)
        /\ Forbidden = Answer(403, lines, none)
    BY <1>1, <1>2, <1>3
  <2> HIDE DEF n, none
  <2>2. Forbidden \in Seq(PageBytes) /\ IsAnswer(Forbidden, 403, n, lines, none)
    BY <1>3, <2>1, SomePageBytes, AnswerByByte
  <2> QED BY <2>2 DEF n, none
<1>5. Len(<<>>) = 0
  OBVIOUS
<1> QED BY <1>4, <1>5 DEF IsAnswer

(* How long the answers are: the reply of a login is no longer than a page.*)
PageLength == 16 + Len(Body)

(* A page has the length of its body and of its header; the replies of a  *)
(* login have 19 and 10 bytes.                                            *)
LEMMA AnswerLengths ==
    /\ PageLength \in Nat /\ PageLength >= 19
    /\ Len(Answer(200, SetToSeq(PageLines), Body)) = PageLength
    /\ \A p \in Pages : p \in Seq(PageBytes) /\ Len(p) = PageLength
    /\ Len(Redirect) = 19 /\ Len(Forbidden) = 10
<1>1. PageLength \in Nat /\ PageLength >= 19
  BY BodyByByte DEF PageLength
<1>2. ASSUME NEW p, NEW lines, IsPage(p, lines) PROVE p \in Seq(PageBytes) /\ Len(p) = PageLength
  BY <1>2, BodyByByte DEF IsPage, IsAnswer, PageLength
<1>3. Len(Answer(200, SetToSeq(PageLines), Body)) = PageLength
  BY <1>2, ThreePageLines, PageByByte
<1>4. \A p \in Pages : p \in Seq(PageBytes) /\ Len(p) = PageLength
  BY <1>2, PagesByByte
<1>5. Len(<<>>) = 0
  OBVIOUS
<1>6. Len(Redirect) = 19
  BY <1>5, RedirectByByte DEF IsAnswer
<1> QED BY <1>1, <1>3, <1>4, <1>6, ForbiddenByByte

-----------------------------------------------------------------------------
(* The cookies and the tokens that can be read.                           *)

(* The session is in the answers to a known user only, and the tokens of  *)
(* a page are the page's own.                                             *)
LEMMA WhatBytesSay ==
    /\ \A b \in PageBytes \cup {Missing} :
          /\ b.is # "sessionid" /\ b.n \in Nat
          /\ b.is \in {"token", "csrftoken"} => b.n = PageToken
    /\ \A known \in BOOLEAN : \A b \in Allowed(known) \cup {Missing} :
          /\ b.is = "sessionid" => known /\ b.n = Session
          /\ b.n \in Nat
    /\ PageBytes \subseteq Allowed(TRUE) /\ PageBytes = Allowed(FALSE)
<1>1. \A b \in PageBytes \cup {Missing} :
         /\ b.is # "sessionid" /\ b.n \in Nat
         /\ b.is \in {"token", "csrftoken"} => b.n = PageToken
  BY DEF PageBytes, Bytes, Kinds, Missing, Byte
<1>2. ASSUME NEW known \in BOOLEAN, NEW b \in Allowed(known) \cup {Missing}
      PROVE  (b.is = "sessionid" => known /\ b.n = Session) /\ b.n \in Nat
  <2>1. CASE b \in PageBytes \cup {Missing}
    BY <1>1, <2>1
  <2>2. CASE b \notin PageBytes \cup {Missing}
    <3>1. known /\ b \in {Byte("csrftoken", NextToken), Byte("sessionid", Session)}
      BY <2>2 DEF Allowed
    <3> QED BY <3>1 DEF Byte, NextToken, Session
  <2> QED BY <2>1, <2>2
<1>3. PageBytes \subseteq Allowed(TRUE) /\ PageBytes = Allowed(FALSE)
  BY DEF Allowed
<1> QED BY <1>1, <1>2, <1>3

(* What is still to be read is a number, whatever the header that was     *)
(* read.                                                                  *)
LEMMA RemainingIsANumber ==
    ASSUME NEW known \in BOOLEAN, NEW head, HeaderFrom(head, Allowed(known))
    PROVE  RemainingContentSize(head) \in Int
<1> DEFINE counted == {i \in DOMAIN head.rest : head.rest[i] # TRAIL}
<1>1. Len(head.rest) \in Nat /\ DOMAIN head.rest = 1 .. Len(head.rest)
  BY LenProperties DEF HeaderFrom
<1>2. IsFiniteSet(DOMAIN head.rest) /\ counted \in SUBSET DOMAIN head.rest
  BY <1>1, FS_Interval
<1>3. Cardinality(counted) \in Nat
  <2> HIDE DEF counted
  <2> QED BY <1>2, FS_Subset, FS_CardinalityType
<1>4. Chars(head.rest) \in Nat
  BY <1>3 DEF Chars
<1>5. head.length.n \in Nat
  BY WhatBytesSay DEF HeaderFrom
<1> QED BY <1>4, <1>5 DEF RemainingContentSize

(* What recv returns, and what it leaves.                                  *)
IsCut(bytes, left, text, S) ==
    \E k \in 0 .. Len(text) :
        /\ bytes = SubSeq(text, 1, k) /\ bytes \in Seq(S) /\ Len(bytes) = k
        /\ left = SubSeq(text, k + 1, Len(text)) /\ left \in Seq(S) /\ Len(left) = Len(text) - k
        /\ k = 0 => text = <<>> /\ closed

(* recv returns a part of what is under way, and nothing only if there is *)
(* nothing and the connection is closed.                                  *)
LEMMA ReceivedIsCut ==
    ASSUME NEW S, incoming \in Seq(S), NEW size \in Int, size > 0, NEW bytes \in Received(size)
    PROVE  IsCut(bytes, SubSeq(incoming, Len(bytes) + 1, Len(incoming)), incoming, S)
<1>1. Len(incoming) \in Nat
  BY LenProperties
<1>2. PICK k \in 0 .. Len(incoming) : /\ bytes = SubSeq(incoming, 1, k)
                                      /\ k = 0 => incoming = <<>> /\ closed
  <2>1. CASE \E k \in 1 .. Min({size, Len(incoming)}) : bytes = SubSeq(incoming, 1, k)
    <3>1. PICK k \in 1 .. Min({size, Len(incoming)}) : bytes = SubSeq(incoming, 1, k)
      BY <2>1
    <3>2. Min({size, Len(incoming)}) \in Nat /\ Min({size, Len(incoming)}) <= Len(incoming)
      <4> DEFINE two == {size, Len(incoming)}
      <4>1. two \subseteq Nat /\ two # {} /\ Len(incoming) \in two
        BY <1>1
      <4> HIDE DEF two
      <4>2. Min(two) \in two /\ Min(two) <= Len(incoming)
        BY <4>1, MinOfNaturals
      <4>3. Min(two) \in Nat /\ Min(two) <= Len(incoming)
        BY <4>1, <4>2
      <4> QED BY <4>3 DEF two
    <3>3. k \in 0 .. Len(incoming) /\ k # 0
      BY <1>1, <3>2
    <3> QED BY <3>1, <3>3
  <2>2. CASE bytes = <<>> /\ closed /\ incoming = <<>>
    <3>1. 0 \in 0 .. Len(incoming)
      BY <1>1
    <3>2. SubSeq(incoming, 1, 0) = <<>>
      BY SubSeqEmpty
    <3> QED BY <2>2, <3>1, <3>2
  <2>3. ASSUME bytes \in {<<>> : c \in {c \in {closed} : c /\ incoming = <<>>}}
        PROVE  bytes = <<>> /\ closed /\ incoming = <<>>
    <3>1. PICK c \in {c \in {closed} : c /\ incoming = <<>>} : bytes = <<>>
      BY <2>3, Zenon
    <3>2. c \in {closed} /\ c /\ incoming = <<>>
      BY Zenon
    <3>3. c = closed
      BY <3>2, Zenon
    <3> QED BY <3>1, <3>2, <3>3, Zenon
  <2>4. \/ \E k \in 1 .. Min({size, Len(incoming)}) : bytes = SubSeq(incoming, 1, k)
        \/ bytes \in {<<>> : c \in {c \in {closed} : c /\ incoming = <<>>}}
    BY DEF Received
  <2> QED BY <2>1, <2>2, <2>3, <2>4
<1>3. k \in Int /\ k >= 0 /\ k <= Len(incoming) /\ 1 \in Nat \ {0} /\ k + 1 \in Nat \ {0}
  BY <1>1
<1>4. bytes \in Seq(S) /\ Len(bytes) = k
  <2>1. SubSeq(incoming, 1, k) \in Seq(S)
        /\ Len(SubSeq(incoming, 1, k)) = IF 1 <= k THEN k - 1 + 1 ELSE 0
    BY <1>3, PartOf
  <2> QED BY <1>2, <1>3, <2>1
<1> DEFINE left == SubSeq(incoming, k + 1, Len(incoming))
<1>5. left \in Seq(S) /\ Len(left) = Len(incoming) - k
  <2>1. /\ left \in Seq(S)
        /\ Len(left) = IF k + 1 <= Len(incoming) THEN Len(incoming) - (k + 1) + 1 ELSE 0
    BY <1>1, <1>3, PartOf
  <2> HIDE DEF left
  <2> QED BY <1>1, <1>3, <2>1
<1> QED BY <1>2, <1>4, <1>5 DEF IsCut

(* The page is used: it puts its own cookie and its own token in the POST. *)
LEMMA UsingPage ==
    ASSUME NEW head, NEW component \in Seq(PageBytes), HeaderFrom(head, PageBytes),
           UsePage(head, component)
    PROVE  \/ Raise
           \/ /\ pc' = "reply" /\ csrf' = PageToken /\ header' = NoHeader /\ session' = session
              /\ request' = PostLogin(PageToken, PageToken)
<1>1. ASSUME NEW i \in TokensIn(component) PROVE component[i].n = PageToken
  <2>1. i \in 1 .. Len(component) /\ component[i].is = "token"
    BY LenProperties DEF TokensIn
  <2>2. component[i] \in PageBytes
    BY <2>1, ElementOfSeq
  <2> QED BY <2>1, <2>2, WhatBytesSay
<1>2. head.cookie.is = "csrftoken" => head.cookie.n = PageToken
  BY WhatBytesSay DEF HeaderFrom
<1> QED BY <1>1, <1>2 DEF UsePage

(* The reply is used: only a reply to a known user has a session.          *)
LEMMA UsingReply ==
    ASSUME valid \in BOOLEAN, NEW head, HeaderFrom(head, Allowed(valid)), UseReply(head)
    PROVE  \/ Raise
           \/ /\ pc' = "logged in" /\ session' = Session /\ valid /\ header' = NoHeader
              /\ csrf' = csrf /\ request' = request
<1>1. head.cookie.is = "sessionid" => valid /\ head.cookie.n = Session
  BY WhatBytesSay DEF HeaderFrom
<1> QED BY <1>1 DEF UseReply

-----------------------------------------------------------------------------
(* The invariant: what may be on its way at every stage of the login.      *)
TypesInv ==
    /\ pc \in {"start", "page", "page rest", "reply", "reply rest", "logged in", "raised"}
    /\ csrf \in {0, PageToken} /\ session \in {0, Session}
    /\ request \in {NoRequest, GetPage, PostLogin(PageToken, PageToken)}
    /\ closed \in BOOLEAN /\ valid \in BOOLEAN /\ whole \in BOOLEAN
    /\ incoming \in Seq(Allowed(valid)) /\ HeaderFrom(header, Allowed(valid))
    /\ pc \in {"page rest", "reply rest"} => RemainingContentSize(header) > 0

(* Until the login is sent there is nothing but the page; the session of   *)
(* the header is the one of the server.                                    *)
StagesInv ==
    /\ pc \in {"start", "page", "page rest"} =>
          /\ incoming \in Seq(PageBytes) /\ HeaderFrom(header, PageBytes)
          /\ request \in {NoRequest, GetPage} /\ session = 0
    /\ pc \in {"reply", "reply rest", "logged in"} => csrf = PageToken
    /\ pc = "logged in" => valid /\ session = Session

(* At most one page is left when the reply to the login comes.             *)
LengthsInv ==
    /\ Len(incoming) <= 2 * PageLength
    /\ pc = "start" => request = NoRequest
    /\ pc = "start" \/ request = GetPage => incoming = <<>>
    /\ pc \in {"page", "page rest"} \/ request = PostLogin(PageToken, PageToken)
          => Len(incoming) <= PageLength

(* The inductive invariant of the login.                                  *)
CInv == TypesInv /\ StagesInv /\ LengthsInv

(* The requests can be told apart.                                        *)
LEMMA RequestsDiffer ==
    /\ NoRequest # GetPage /\ NoRequest # PostLogin(PageToken, PageToken)
    /\ GetPage # PostLogin(PageToken, PageToken)
    /\ NoRequest.type = "none" /\ GetPage.type = "GET"
    /\ PostLogin(PageToken, PageToken).type = "POST"
BY DEF NoRequest, GetPage, PostLogin

(* Nothing is under way before the login.                                 *)
LEMMA InitCInv == Init => CInv
<1> SUFFICES ASSUME Init PROVE CInv
  OBVIOUS
<1>1. /\ incoming = <<>> /\ pc = "start" /\ request = NoRequest /\ csrf = 0 /\ session = 0
      /\ closed = FALSE /\ valid \in BOOLEAN /\ whole = TRUE /\ header = NoHeader
  BY DEF Init
<1>2. \A S : HeaderFrom(NoHeader, S) /\ <<>> \in Seq(S)
  BY EmptySeq DEF HeaderFrom, NoHeader
<1>3. TypesInv
  BY <1>1, <1>2 DEF TypesInv
<1>4. StagesInv
  BY <1>1, <1>2 DEF StagesInv
<1>5. Len(<<>>) = 0 /\ PageLength \in Nat
  BY AnswerLengths
<1>6. LengthsInv
  BY <1>1, <1>5, RequestsDiffer DEF LengthsInv
<1> QED BY <1>3, <1>4, <1>6 DEF CInv

(* The server answers.                                                     *)
LEMMA ServePageCInv ==
    ASSUME CInv, ServePage PROVE CInv'
<1>1. /\ request.type = "GET" /\ ~closed /\ request' = NoRequest
      /\ pc' = pc /\ header' = header /\ csrf' = csrf /\ session' = session
      /\ closed' = closed /\ valid' = valid /\ whole' = whole
  BY DEF ServePage, Serve, client
<1>2. PICK p \in Pages : incoming' = incoming \o p
  BY DEF ServePage, Serve
<1>3. request = GetPage /\ incoming = <<>> /\ valid \in BOOLEAN
  BY <1>1, RequestsDiffer DEF CInv, TypesInv, LengthsInv
<1>4. p \in Seq(PageBytes) /\ Len(p) = PageLength /\ PageLength \in Nat
  BY AnswerLengths
<1>5. incoming' = p
  BY <1>2, <1>3, <1>4, ConcatEmptySeq
<1>6. p \in Seq(Allowed(valid))
  <2>1. PageBytes \subseteq Allowed(valid)
    BY <1>3, WhatBytesSay
  <2> QED BY <1>4, <2>1, SeqMonotonic
<1>7. TypesInv'
  BY <1>1, <1>5, <1>6 DEF CInv, TypesInv, Allowed, HeaderFrom, RemainingContentSize, Chars
<1>8. StagesInv'
  BY <1>1, <1>4, <1>5 DEF CInv, StagesInv, HeaderFrom
<1>9. pc # "start"
  BY <1>3, RequestsDiffer DEF CInv, LengthsInv
<1>10. LengthsInv'
  <2>1. Len(incoming') <= PageLength /\ Len(incoming') <= 2 * PageLength
    BY <1>4, <1>5
  <2>2. pc' # "start" /\ request' # GetPage
    BY <1>1, <1>9, RequestsDiffer
  <2> QED BY <2>1, <2>2 DEF LengthsInv
<1> QED BY <1>7, <1>8, <1>10 DEF CInv

(* The server answers the login: it may add its reply to a page that has  *)
(* not been read to its end.                                              *)
LEMMA ServeLoginCInv ==
    ASSUME CInv, ServeLogin PROVE CInv'
<1>1. /\ request.type = "POST" /\ ~closed /\ request' = NoRequest
      /\ pc' = pc /\ header' = header /\ csrf' = csrf /\ session' = session
      /\ closed' = closed /\ valid' = valid /\ whole' = whole
  BY DEF ServeLogin, Serve, client
<1>2. PICK p \in Replies : incoming' = incoming \o p
  BY DEF ServeLogin, Serve
<1>3. request = PostLogin(PageToken, PageToken) /\ valid \in BOOLEAN
  BY <1>1, RequestsDiffer DEF CInv, TypesInv
<1>4. incoming \in Seq(Allowed(valid)) /\ Len(incoming) <= PageLength
  BY <1>3 DEF CInv, TypesInv, LengthsInv
<1>5. p \in Seq(Allowed(valid)) /\ Len(p) <= PageLength
  <2>1. (p = Redirect /\ valid) \/ p \in Pages \/ p = Forbidden
    BY DEF Replies
  <2>2. PageBytes \subseteq Allowed(valid)
    BY <1>3, WhatBytesSay
  <2>3. p \in Seq(PageBytes) => p \in Seq(Allowed(valid))
    BY <2>2, SeqMonotonic
  <2>4. CASE p = Redirect /\ valid
    <3>1. valid = TRUE
      BY <1>3, <2>4
    <3> QED BY <2>4, <3>1, RedirectByByte, AnswerLengths
  <2>5. CASE p \in Pages
    BY <2>3, <2>5, AnswerLengths
  <2>6. CASE p = Forbidden
    BY <2>3, <2>6, ForbiddenByByte, AnswerLengths
  <2> QED BY <2>1, <2>4, <2>5, <2>6
<1>6. incoming' \in Seq(Allowed(valid)) /\ Len(incoming') <= 2 * PageLength
  <2>1. incoming' \in Seq(Allowed(valid)) /\ Joins(incoming', incoming, p)
    BY <1>2, <1>4, <1>5, Joined
  <2> QED BY <1>4, <1>5, <2>1, AnswerLengths DEF Joins
<1>7. TypesInv'
  BY <1>1, <1>6 DEF CInv, TypesInv, Allowed, HeaderFrom, RemainingContentSize, Chars
<1>8. pc \notin {"start", "page", "page rest"}
  BY <1>3, RequestsDiffer DEF CInv, StagesInv
<1>9. StagesInv'
  BY <1>1, <1>8 DEF CInv, StagesInv
<1>10. LengthsInv'
  BY <1>1, <1>6, <1>8, RequestsDiffer DEF CInv, LengthsInv
<1> QED BY <1>7, <1>9, <1>10 DEF CInv

(* The client waits for an answer: what it has used of the answer, or      *)
(* raises, or keeps the header of it.                                      *)
Kept(head) == /\ header' = head /\ RemainingContentSize(head) > 0
              /\ UNCHANGED <<csrf, session, request>>

(* The first recv of deserialize_response: the answer is used, or waits   *)
(* for its rest, or is an error.                                          *)
LEMMA ReadsACut ==
    ASSUME NEW S, incoming \in Seq(S), NEW stage \in Stages, ReadHeader(stage)
    PROVE  /\ pc = stage /\ closed' = closed /\ valid' = valid /\ whole' \in BOOLEAN
           /\ \E bytes : IsCut(bytes, incoming', incoming, S)
                 /\ whole' = (whole /\ bytes = incoming)
                 /\ \/ Raise
                    \/ pc' = RestOf[stage] /\ Kept(Header(bytes))
                    \/ /\ Use(stage, Header(bytes), Header(bytes).rest)
                       /\ ~(RemainingContentSize(Header(bytes)) > 0)
<1>1. pc = stage /\ closed' = closed /\ valid' = valid
  BY DEF ReadHeader
<1>2. PICK bytes \in Received(ASSUMED_MAX_PACKAGE_SIZE) :
         /\ Consume(bytes) /\ whole' = (whole /\ bytes = incoming)
         /\ IF ~Decodes(bytes) \/ ~HasStatus(Line(bytes)) THEN Raise
            ELSE LET head == Header(bytes)
                 IN  IF RemainingContentSize(head) > 0
                     THEN /\ pc' = RestOf[stage]
                          /\ header' = head
                          /\ UNCHANGED <<csrf, session, request>>
                     ELSE Use(stage, head, head.rest)
  BY DEF ReadHeader
<1>3. ASSUMED_MAX_PACKAGE_SIZE \in Int /\ ASSUMED_MAX_PACKAGE_SIZE > 0
  BY CrawlerAssumption
<1>4. IsCut(bytes, SubSeq(incoming, Len(bytes) + 1, Len(incoming)), incoming, S)
  BY <1>3, ReceivedIsCut
<1>5. IsCut(bytes, incoming', incoming, S)
  BY <1>2, <1>4 DEF Consume
<1>6. whole' \in BOOLEAN
  BY <1>2
<1>7. \/ Raise
      \/ pc' = RestOf[stage] /\ Kept(Header(bytes))
      \/ /\ Use(stage, Header(bytes), Header(bytes).rest)
         /\ ~(RemainingContentSize(Header(bytes)) > 0)
  BY <1>2, Zenon DEF Kept
<1> QED BY <1>1, <1>2, <1>5, <1>6, <1>7

(* The second recv: the answer is used with what has come, be it all or   *)
(* not.                                                                   *)
LEMMA ReadsTheRest ==
    ASSUME NEW S, incoming \in Seq(S), RemainingContentSize(header) \in Int,
           RemainingContentSize(header) > 0,
           NEW stage \in Stages, ReadRest(stage)
    PROVE  /\ pc = RestOf[stage] /\ closed' = closed /\ valid' = valid /\ whole' = whole
           /\ \E bytes : /\ IsCut(bytes, incoming', incoming, S)
                         /\ \/ Raise
                            \/ Use(stage, header, header.rest \o bytes)
<1>1. pc = RestOf[stage] /\ closed' = closed /\ valid' = valid /\ whole' = whole
  BY DEF ReadRest
<1>2. PICK bytes \in Received(RemainingContentSize(header)) :
         /\ Consume(bytes)
         /\ IF Decodes(bytes) THEN Use(stage, header, header.rest \o bytes) ELSE Raise
  BY DEF ReadRest
<1>3. IsCut(bytes, SubSeq(incoming, Len(bytes) + 1, Len(incoming)), incoming, S)
  BY ReceivedIsCut
<1>4. IsCut(bytes, incoming', incoming, S)
  BY <1>2, <1>3 DEF Consume
<1> QED BY <1>1, <1>2, <1>4

(* A part of what was under way is no longer than that.                    *)
LEMMA CutsShorten ==
    ASSUME NEW S, incoming \in Seq(S), NEW bytes, IsCut(bytes, incoming', incoming, S)
    PROVE  /\ bytes \in Seq(S) /\ incoming' \in Seq(S)
           /\ Len(incoming) \in Nat /\ Len(incoming') \in Nat /\ Len(incoming') <= Len(incoming)
           /\ incoming = <<>> => incoming' = <<>>
<1>1. Len(incoming) \in Nat /\ Len(<<>>) = 0
  BY LenProperties
<1>2. bytes \in Seq(S) /\ incoming' \in Seq(S) /\ Len(incoming') \in Nat /\ Len(incoming') <= Len(incoming)
  BY <1>1 DEF IsCut
<1>3. ASSUME incoming = <<>> PROVE incoming' = <<>>
  <2>1. Len(incoming') = 0
    BY <1>1, <1>2, <1>3
  <2> QED BY <1>2, <2>1, EmptySeq
<1> QED BY <1>1, <1>2, <1>3

(* Less than what is less is less.                                        *)
LEMMA NoLonger == \A m, n \in Nat : m <= n => \A p \in Int : n <= p => m <= p
OBVIOUS

(* The bound of what is under way is a number.                            *)
LEMMA TwoPages == PageLength \in Int /\ 2 * PageLength \in Int
<1>1. PageLength \in Nat
  BY AnswerLengths
<1> QED BY <1>1

(* Whatever has been read, the lengths are those of before.                *)
LEMMA LengthsStay ==
    ASSUME TypesInv, LengthsInv, Len(incoming) \in Nat, Len(incoming') \in Nat,
           Len(incoming') <= Len(incoming),
           incoming = <<>> => incoming' = <<>>, pc # "start", pc' # "start",
           \/ request' = request
           \/ pc \in {"page", "page rest"} /\ request' = PostLogin(PageToken, PageToken),
           pc' \in {"page", "page rest"} => pc \in {"page", "page rest"}
    PROVE  LengthsInv'
<1>1. \A p \in Int : Len(incoming) <= p => Len(incoming') <= p
  BY NoLonger
<1>2. PageLength \in Int /\ 2 * PageLength \in Int
  BY TwoPages
<1>3. Len(incoming') <= 2 * PageLength
  BY <1>1, <1>2 DEF LengthsInv
<1>4. request' = GetPage => incoming' = <<>>
  BY RequestsDiffer DEF LengthsInv
<1>5. pc' \in {"page", "page rest"} \/ request' = PostLogin(PageToken, PageToken)
         => Len(incoming) <= PageLength
  BY DEF LengthsInv
<1>6. pc' \in {"page", "page rest"} \/ request' = PostLogin(PageToken, PageToken)
         => Len(incoming') <= PageLength
  BY <1>1, <1>2, <1>5
<1> QED BY <1>3, <1>4, <1>6 DEF LengthsInv

(* What the page and the reply lead to, under the invariant.               *)
LEMMA AfterRaise ==
    ASSUME CInv, Raise, incoming' \in Seq(Allowed(valid)), closed' = closed, valid' = valid,
           whole' \in BOOLEAN
    PROVE  TypesInv' /\ StagesInv'
<1>1. pc' = "raised" /\ header' = header /\ csrf' = csrf /\ session' = session /\ request' = request
  BY DEF Raise
<1>2. HeaderFrom(header', Allowed(valid'))
  BY <1>1 DEF CInv, TypesInv, HeaderFrom
<1>3. incoming' \in Seq(Allowed(valid'))
  OBVIOUS
<1>4. TypesInv'
  BY <1>1, <1>2, <1>3 DEF CInv, TypesInv
<1>5. StagesInv'
  BY <1>1 DEF StagesInv
<1> QED BY <1>4, <1>5

(* The page leads to the login with its own cookie and token.             *)
LEMMA PageUsedCInv ==
    ASSUME CInv, NEW head, NEW component \in Seq(PageBytes), HeaderFrom(head, PageBytes),
           UsePage(head, component), incoming' \in Seq(Allowed(valid)),
           closed' = closed, valid' = valid, whole' \in BOOLEAN
    PROVE  /\ TypesInv' /\ StagesInv' /\ pc' \in {"reply", "raised"}
           /\ request' = request \/ request' = PostLogin(PageToken, PageToken)
<1>1. CASE Raise
  BY <1>1, AfterRaise DEF Raise
<1>2. CASE /\ pc' = "reply" /\ csrf' = PageToken /\ header' = NoHeader /\ session' = session
           /\ request' = PostLogin(PageToken, PageToken)
  <2>1. HeaderFrom(NoHeader, Allowed(valid'))
    BY EmptySeq DEF HeaderFrom, NoHeader
  <2>2. incoming' \in Seq(Allowed(valid'))
    OBVIOUS
  <2>3. TypesInv'
    BY <1>2, <2>1, <2>2 DEF CInv, TypesInv
  <2>4. StagesInv'
    BY <1>2 DEF StagesInv
  <2> QED BY <1>2, <2>3, <2>4
<1> QED BY <1>1, <1>2, UsingPage

(* The reply leads out of the login with the session of the server.       *)
LEMMA ReplyUsedCInv ==
    ASSUME CInv, NEW head, HeaderFrom(head, Allowed(valid)), UseReply(head),
           pc \in {"reply", "reply rest"}, incoming' \in Seq(Allowed(valid)),
           closed' = closed, valid' = valid, whole' \in BOOLEAN
    PROVE  TypesInv' /\ StagesInv' /\ pc' \in {"logged in", "raised"} /\ request' = request
<1>1. CASE Raise
  BY <1>1, AfterRaise DEF Raise
<1>2. CASE /\ pc' = "logged in" /\ session' = Session /\ valid /\ header' = NoHeader
           /\ csrf' = csrf /\ request' = request
  <2>1. HeaderFrom(NoHeader, Allowed(valid'))
    BY EmptySeq DEF HeaderFrom, NoHeader
  <2>2. incoming' \in Seq(Allowed(valid'))
    OBVIOUS
  <2>3. TypesInv'
    BY <1>2, <2>1, <2>2 DEF CInv, TypesInv
  <2>4. StagesInv'
    BY <1>2 DEF CInv, StagesInv
  <2> QED BY <1>2, <2>3, <2>4
<1>3. valid \in BOOLEAN
  BY DEF CInv, TypesInv
<1> QED BY <1>1, <1>2, <1>3, UsingReply

(* The first recv preserves the invariant, for the page and for the       *)
(* reply.                                                                 *)
LEMMA ReadHeaderCInv ==
    ASSUME CInv, NEW stage \in Stages, ReadHeader(stage) PROVE CInv'
<1>1. stage \in {"page", "reply"} /\ RestOf["page"] = "page rest" /\ RestOf["reply"] = "reply rest"
  BY DEF Stages, RestOf
<1>2. valid \in BOOLEAN /\ incoming \in Seq(Allowed(valid))
  BY DEF CInv, TypesInv
<1>3. CASE stage = "page"
  <2>1. incoming \in Seq(PageBytes)
    <3>1. pc = "page"
      BY <1>3 DEF ReadHeader
    <3> QED BY <3>1 DEF CInv, StagesInv
  <2>2. PICK bytes :
           /\ IsCut(bytes, incoming', incoming, PageBytes)
           /\ whole' = (whole /\ bytes = incoming)
           /\ \/ Raise
              \/ pc' = RestOf[stage] /\ Kept(Header(bytes))
              \/ Use(stage, Header(bytes), Header(bytes).rest)
    BY <2>1, ReadsACut
  <2>3. pc = "page" /\ closed' = closed /\ valid' = valid /\ whole' \in BOOLEAN
    BY <1>3, <2>1, ReadsACut
  <2>4. /\ bytes \in Seq(PageBytes) /\ incoming' \in Seq(PageBytes)
        /\ Len(incoming) \in Nat /\ Len(incoming') \in Nat /\ Len(incoming') <= Len(incoming)
        /\ incoming = <<>> => incoming' = <<>>
    BY <2>1, <2>2, CutsShorten
  <2>5. HeaderFrom(Header(bytes), PageBytes) /\ PageBytes \subseteq Allowed(valid)
    BY <1>2, <2>4, HeaderOfBytes, WhatBytesSay
  <2>6. incoming' \in Seq(Allowed(valid))
    BY <2>4, <2>5, SeqMonotonic
  <2>7. /\ TypesInv' /\ StagesInv' /\ pc' \in {"page rest", "reply", "raised"}
        /\ request' = request \/ request' = PostLogin(PageToken, PageToken)
    <3>1. CASE Raise
      BY <2>3, <2>6, <3>1, AfterRaise DEF Raise
    <3>2. CASE pc' = RestOf[stage] /\ Kept(Header(bytes))
      <4>1. pc' = "page rest"
        BY <1>1, <1>3, <3>2
      <4>2. header' = Header(bytes) /\ RemainingContentSize(header') > 0
        BY <3>2 DEF Kept
      <4>3. HeaderFrom(header', Allowed(valid')) /\ HeaderFrom(header', PageBytes)
        <5>1. Header(bytes).rest \in Seq(Allowed(valid))
          BY <2>5, SeqMonotonic DEF HeaderFrom
        <5> QED BY <2>3, <2>5, <4>2, <5>1 DEF HeaderFrom
      <4>4. csrf' = csrf /\ session' = session /\ request' = request
        BY <3>2 DEF Kept
      <4>5. incoming' \in Seq(Allowed(valid'))
        BY <2>3, <2>6
      <4>6. TypesInv'
        <5>1. (RemainingContentSize(header) > 0)'
          BY <4>2
        <5> QED BY <2>3, <4>1, <4>3, <4>4, <4>5, <5>1 DEF CInv, TypesInv
      <4>7. StagesInv'
        BY <2>3, <2>4, <4>1, <4>3, <4>4 DEF CInv, StagesInv
      <4> QED BY <4>1, <4>4, <4>6, <4>7
    <3>3. CASE Use(stage, Header(bytes), Header(bytes).rest)
      <4>1. UsePage(Header(bytes), Header(bytes).rest)
        BY <1>3, <3>3 DEF Use
      <4>2. Header(bytes).rest \in Seq(PageBytes)
        BY <2>5 DEF HeaderFrom
      <4> QED BY <2>3, <2>5, <2>6, <4>1, <4>2, PageUsedCInv
    <3> QED BY <2>2, <3>1, <3>2, <3>3
  <2>8. LengthsInv'
    BY <2>3, <2>4, <2>7, LengthsStay DEF CInv
  <2> QED BY <2>7, <2>8 DEF CInv
<1>4. CASE stage = "reply"
  <2>2. PICK bytes :
           /\ IsCut(bytes, incoming', incoming, Allowed(valid))
           /\ whole' = (whole /\ bytes = incoming)
           /\ \/ Raise
              \/ pc' = RestOf[stage] /\ Kept(Header(bytes))
              \/ Use(stage, Header(bytes), Header(bytes).rest)
    BY <1>2, ReadsACut
  <2>3. pc = "reply" /\ closed' = closed /\ valid' = valid /\ whole' \in BOOLEAN
    BY <1>2, <1>4, ReadsACut
  <2>4. /\ bytes \in Seq(Allowed(valid)) /\ incoming' \in Seq(Allowed(valid))
        /\ Len(incoming) \in Nat /\ Len(incoming') \in Nat /\ Len(incoming') <= Len(incoming)
        /\ incoming = <<>> => incoming' = <<>>
    BY <1>2, <2>2, CutsShorten
  <2>5. HeaderFrom(Header(bytes), Allowed(valid))
    BY <2>4, HeaderOfBytes
  <2>7. TypesInv' /\ StagesInv' /\ pc' \in {"reply rest", "logged in", "raised"} /\ request' = request
    <3>1. CASE Raise
      BY <2>3, <2>4, <3>1, AfterRaise DEF Raise
    <3>2. CASE pc' = RestOf[stage] /\ Kept(Header(bytes))
      <4>1. pc' = "reply rest"
        BY <1>1, <1>4, <3>2
      <4>2. header' = Header(bytes) /\ RemainingContentSize(header') > 0
        BY <3>2 DEF Kept
      <4>3. HeaderFrom(header', Allowed(valid'))
        BY <2>3, <2>5, <4>2
      <4>4. csrf' = csrf /\ session' = session /\ request' = request
        BY <3>2 DEF Kept
      <4>5. incoming' \in Seq(Allowed(valid'))
        BY <2>3, <2>4
      <4>6. TypesInv'
        <5>1. (RemainingContentSize(header) > 0)'
          BY <4>2
        <5> QED BY <2>3, <4>1, <4>3, <4>4, <4>5, <5>1 DEF CInv, TypesInv
      <4>7. StagesInv'
        BY <2>3, <4>1, <4>4 DEF CInv, StagesInv
      <4> QED BY <4>1, <4>4, <4>6, <4>7
    <3>3. CASE Use(stage, Header(bytes), Header(bytes).rest)
      <4>1. UseReply(Header(bytes))
        BY <1>4, <3>3 DEF Use
      <4> QED BY <2>3, <2>4, <2>5, <4>1, ReplyUsedCInv
    <3> QED BY <2>2, <3>1, <3>2, <3>3
  <2>8. LengthsInv'
    BY <2>3, <2>4, <2>7, LengthsStay DEF CInv
  <2> QED BY <2>7, <2>8 DEF CInv
<1> QED BY <1>1, <1>3, <1>4

(* The second recv preserves the invariant.                               *)
LEMMA ReadRestCInv ==
    ASSUME CInv, NEW stage \in Stages, ReadRest(stage) PROVE CInv'
<1>1. stage \in {"page", "reply"} /\ RestOf["page"] = "page rest" /\ RestOf["reply"] = "reply rest"
  BY DEF Stages, RestOf
<1>2. /\ valid \in BOOLEAN /\ whole \in BOOLEAN /\ incoming \in Seq(Allowed(valid))
      /\ HeaderFrom(header, Allowed(valid)) /\ RemainingContentSize(header) \in Int
  BY RemainingIsANumber DEF CInv, TypesInv
<1>3. pc = RestOf[stage] /\ RemainingContentSize(header) > 0
  BY <1>1 DEF ReadRest, CInv, TypesInv
<1>4. CASE stage = "page"
  <2>1. pc = "page rest" /\ incoming \in Seq(PageBytes) /\ HeaderFrom(header, PageBytes)
    BY <1>1, <1>3, <1>4 DEF CInv, StagesInv
  <2>2. PICK bytes : /\ IsCut(bytes, incoming', incoming, PageBytes)
                     /\ Raise \/ Use(stage, header, header.rest \o bytes)
    BY <1>2, <1>3, <2>1, ReadsTheRest
  <2>3. closed' = closed /\ valid' = valid /\ whole' \in BOOLEAN
    BY <1>2, <1>3, <2>1, ReadsTheRest
  <2>4. /\ bytes \in Seq(PageBytes) /\ incoming' \in Seq(PageBytes)
        /\ Len(incoming) \in Nat /\ Len(incoming') \in Nat /\ Len(incoming') <= Len(incoming)
        /\ incoming = <<>> => incoming' = <<>>
    BY <2>1, <2>2, CutsShorten
  <2>5. PageBytes \subseteq Allowed(valid)
    BY <1>2, WhatBytesSay
  <2>6. incoming' \in Seq(Allowed(valid))
    BY <2>4, <2>5, SeqMonotonic
  <2>7. /\ TypesInv' /\ StagesInv' /\ pc' \in {"reply", "raised"}
        /\ request' = request \/ request' = PostLogin(PageToken, PageToken)
    <3>1. CASE Raise
      BY <2>3, <2>6, <3>1, AfterRaise DEF Raise
    <3>2. CASE Use(stage, header, header.rest \o bytes)
      <4>1. UsePage(header, header.rest \o bytes)
        BY <1>4, <3>2 DEF Use
      <4>2. header.rest \o bytes \in Seq(PageBytes)
        BY <2>1, <2>4, ConcatProperties DEF HeaderFrom
      <4> QED BY <2>1, <2>3, <2>6, <4>1, <4>2, PageUsedCInv
    <3> QED BY <2>2, <3>1, <3>2
  <2>8. LengthsInv'
    BY <2>1, <2>4, <2>7, LengthsStay DEF CInv
  <2> QED BY <2>7, <2>8 DEF CInv
<1>5. CASE stage = "reply"
  <2>1. pc = "reply rest"
    BY <1>1, <1>3, <1>5
  <2>2. PICK bytes : /\ IsCut(bytes, incoming', incoming, Allowed(valid))
                     /\ Raise \/ Use(stage, header, header.rest \o bytes)
    BY <1>2, <1>3, ReadsTheRest
  <2>3. closed' = closed /\ valid' = valid /\ whole' \in BOOLEAN
    BY <1>2, <1>3, ReadsTheRest
  <2>4. /\ bytes \in Seq(Allowed(valid)) /\ incoming' \in Seq(Allowed(valid))
        /\ Len(incoming) \in Nat /\ Len(incoming') \in Nat /\ Len(incoming') <= Len(incoming)
        /\ incoming = <<>> => incoming' = <<>>
    BY <1>2, <2>2, CutsShorten
  <2>7. TypesInv' /\ StagesInv' /\ pc' \in {"logged in", "raised"} /\ request' = request
    <3>1. CASE Raise
      BY <2>3, <2>4, <3>1, AfterRaise DEF Raise
    <3>2. CASE Use(stage, header, header.rest \o bytes)
      <4>1. UseReply(header)
        BY <1>5, <3>2 DEF Use
      <4> QED BY <1>2, <2>1, <2>3, <2>4, <4>1, ReplyUsedCInv
    <3> QED BY <2>2, <3>1, <3>2
  <2>8. LengthsInv'
    BY <2>1, <2>4, <2>7, LengthsStay DEF CInv
  <2> QED BY <2>7, <2>8 DEF CInv
<1> QED BY <1>1, <1>4, <1>5

(* The other steps, and those that change nothing.                         *)
LEMMA OtherStepsCInv ==
    ASSUME CInv, GetLoginPage \/ ExtractResponseData \/ CloseConnection \/ UNCHANGED vars
    PROVE  CInv'
<1>1. CASE GetLoginPage
  <2>1. /\ pc = "start" /\ pc' = "page" /\ request' = GetPage /\ header' = header /\ csrf' = csrf
        /\ session' = session /\ incoming' = incoming /\ closed' = closed /\ valid' = valid
        /\ whole' = whole
    BY <1>1 DEF GetLoginPage
  <2>2. TypesInv'
    <3>1. /\ incoming' \in Seq(Allowed(valid)') /\ closed' \in BOOLEAN
          /\ Allowed(valid)' = Allowed(valid)
      BY <2>1 DEF CInv, TypesInv, Allowed
    <3>2. HeaderFrom(header', Allowed(valid)')
      BY <2>1, <3>1 DEF CInv, TypesInv
    <3>3. RemainingContentSize(header)' = RemainingContentSize(header)
      BY <2>1 DEF RemainingContentSize, Chars
    <3> QED BY <2>1, <3>1, <3>2, <3>3 DEF CInv, TypesInv, HeaderFrom
  <2>3. StagesInv'
    BY <2>1 DEF CInv, StagesInv, HeaderFrom
  <2>4. incoming = <<>> /\ Len(<<>>) = 0 /\ PageLength \in Nat
    BY <2>1, AnswerLengths DEF CInv, LengthsInv
  <2>5. LengthsInv'
    BY <2>1, <2>4, RequestsDiffer DEF LengthsInv
  <2> QED BY <2>2, <2>3, <2>5 DEF CInv
<1>2. CASE ExtractResponseData
  <2>1. /\ pc = "logged in" /\ Raise /\ incoming' = incoming /\ closed' = closed /\ valid' = valid
        /\ whole' = whole
    BY <1>2 DEF ExtractResponseData
  <2>2. TypesInv' /\ StagesInv'
    BY <2>1, AfterRaise DEF CInv, TypesInv
  <2>3. LengthsInv'
    BY <2>1 DEF CInv, LengthsInv, Raise
  <2> QED BY <2>2, <2>3 DEF CInv
<1>3. CASE CloseConnection
  <2>1. /\ closed' = TRUE /\ pc' = pc /\ header' = header /\ csrf' = csrf /\ session' = session
        /\ request' = request /\ incoming' = incoming /\ valid' = valid /\ whole' = whole
    BY <1>3 DEF CloseConnection, client
  <2>2. TypesInv'
    <3>1. /\ incoming' \in Seq(Allowed(valid)') /\ closed' \in BOOLEAN
          /\ Allowed(valid)' = Allowed(valid)
      BY <2>1 DEF CInv, TypesInv, Allowed
    <3>2. HeaderFrom(header', Allowed(valid)')
      BY <2>1, <3>1 DEF CInv, TypesInv
    <3>3. RemainingContentSize(header)' = RemainingContentSize(header)
      BY <2>1 DEF RemainingContentSize, Chars
    <3> QED BY <2>1, <3>1, <3>2, <3>3 DEF CInv, TypesInv, HeaderFrom
  <2>3. StagesInv' /\ LengthsInv'
    BY <2>1 DEF CInv, StagesInv, LengthsInv, HeaderFrom
  <2> QED BY <2>2, <2>3 DEF CInv
<1>4. CASE UNCHANGED vars
  <2>1. /\ closed' = closed /\ pc' = pc /\ header' = header /\ csrf' = csrf /\ session' = session
        /\ request' = request /\ incoming' = incoming /\ valid' = valid /\ whole' = whole
    BY <1>4 DEF vars, client
  <2>2. TypesInv'
    <3>1. /\ incoming' \in Seq(Allowed(valid)') /\ closed' \in BOOLEAN
          /\ Allowed(valid)' = Allowed(valid)
      BY <2>1 DEF CInv, TypesInv, Allowed
    <3>2. HeaderFrom(header', Allowed(valid)')
      BY <2>1, <3>1 DEF CInv, TypesInv
    <3>3. RemainingContentSize(header)' = RemainingContentSize(header)
      BY <2>1 DEF RemainingContentSize, Chars
    <3> QED BY <2>1, <3>1, <3>2, <3>3 DEF CInv, TypesInv, HeaderFrom
  <2>3. StagesInv' /\ LengthsInv'
    BY <2>1 DEF CInv, StagesInv, LengthsInv, HeaderFrom
  <2> QED BY <2>2, <2>3 DEF CInv
<1> QED BY <1>1, <1>2, <1>3, <1>4

(* Every step preserves the invariant.                                    *)
LEMMA NextCInv == CInv /\ [Next]_vars => CInv'
<1> SUFFICES ASSUME CInv, [Next]_vars PROVE CInv'
  OBVIOUS
<1>1. ASSUME NEW s \in Stages, ReadHeader(s) \/ ReadRest(s) PROVE CInv'
  BY <1>1, ReadHeaderCInv, ReadRestCInv
<1>2. CASE GetLoginPage \/ ExtractResponseData \/ CloseConnection \/ UNCHANGED vars
  BY <1>2, OtherStepsCInv
<1>3. CASE ServePage \/ ServeLogin
  BY <1>3, ServePageCInv, ServeLoginCInv
<1> QED BY <1>1, <1>2, <1>3 DEF Next, ClientStep, Ended

(* The invariant holds for every size of the page and of the first recv,   *)
(* wherever recv cuts.                                                     *)
THEOREM CrawlerInvariance == Spec => []CInv
BY InitCInv, NextCInv, PTL DEF Spec

(* Crawler's type invariant: the credentials go out with the cookie and    *)
(* the token of the page, never more than two answers are under way, and   *)
(* deserialize_response calls recv again only for something.               *)
THEOREM CrawlerTypeCorrect == Spec => []CrawlerTypeOK
<1>1. CInv => CrawlerTypeOK
  <2> SUFFICES ASSUME CInv PROVE CrawlerTypeOK
    OBVIOUS
  <2>1. Stages = {"page", "reply"}
    BY DEF Stages, RestOf
  <2>2. RestOf["page"] = "page rest" /\ RestOf["reply"] = "reply rest"
    BY DEF RestOf
  <2>3. pc \in {"start", "logged in", "raised"} \cup Stages \cup {RestOf[s] : s \in Stages}
    BY <2>1, <2>2 DEF CInv, TypesInv
  <2>4. Len(incoming) <= 2 * Len(Answer(200, SetToSeq(PageLines), Body))
    BY AnswerLengths DEF CInv, LengthsInv
  <2>5. (\E s \in Stages : pc = RestOf[s]) => RemainingContentSize(header) > 0
    BY <2>1, <2>2 DEF CInv, TypesInv
  <2> QED BY <2>3, <2>4, <2>5 DEF CInv, TypesInv, CrawlerTypeOK
<1> QED BY <1>1, CrawlerInvariance, PTL

(* login returns only with the session that the server has issued to this  *)
(* user (Crawler.login, HttpResponse.deserialize_response).                *)
THEOREM LoginIsIssued == Spec => []SessionIsIssued
<1>1. CInv => SessionIsIssued
  BY DEF CInv, StagesInv, SessionIsIssued
<1> QED BY <1>1, CrawlerInvariance, PTL

-----------------------------------------------------------------------------
(* How a whole answer is read.                                            *)

(* A page read whole: its cookie is the one that is set, and its rest has  *)
(* one token, whatever the order of its lines.                             *)
LEMMA PageRead ==
    ASSUME NEW p \in Pages
    PROVE  /\ Decodes(p) /\ HasStatus(Line(p))
           /\ Header(p).cookie.is = "csrftoken"
           /\ Cardinality(TokensIn(Header(p).rest)) = 1
<1>1. PICK lines \in [1..3 -> PageLines] :
         IsPage(p, lines) /\ \A i, j \in 1..3 : i # j => lines[i] # lines[j]
  BY PagesByByte
<1>2. p \in Seq(PageBytes) /\ IsAnswer(p, 200, 3, lines, Body)
  BY <1>1 DEF IsPage
<1>3. \A k \in 1 .. Len(Body) : k = 1 \/ k = 2 \/ k = 3 \/ k \in 4 .. Len(Body)
  BY BodyByByte
<1>4. \A k \in 1 .. Len(Body) : Body[k] # CR /\ (Body[k].is = "token" <=> k = 2)
  <2> SUFFICES ASSUME NEW k \in 1 .. Len(Body)
               PROVE  Body[k] # CR /\ (Body[k].is = "token" <=> k = 2)
    OBVIOUS
  <2>1. CASE k = 2
    <3>1. Body[k] = Byte("token", PageToken)
      BY <2>1, BodyByByte
    <3> QED BY <2>1, <3>1 DEF CR, Byte
  <2>2. CASE k # 2
    <3>1. Body[k] \in {TEXT, SPACE, LEAD, TRAIL}
      BY <1>3, <2>2, BodyByByte
    <3> QED BY <2>2, <3>1 DEF TEXT, SPACE, LEAD, TRAIL, CR, Byte
  <2> QED BY <2>1, <2>2
<1>5. \A l \in PageLines : l # CR
  BY DEF PageLines, Byte, CR
<1>6. Plain(3, lines, Body)
  BY <1>4, <1>5 DEF Plain
<1>7. Body # <<>> => Len(Body) > 0 /\ Body[Len(Body)] # LEAD
  BY BodyByByte
<1>8. 3 \in Nat \ {0} /\ Len(Body) \in Nat
  BY BodyByByte
<1> DEFINE t == AfterLine(p)
           r == Header(p).rest
           n == 3
<1>9. n \in Nat \ {0} /\ n = 3 /\ IsAnswer(p, 200, n, lines, Body) /\ Plain(n, lines, Body)
  BY <1>2, <1>6
<1> HIDE DEF n
<1>10. /\ Decodes(p) /\ HasStatus(Line(p))
       /\ IsText(t, n, lines, Body) /\ t \in Seq(PageBytes)
       /\ r \in Seq(PageBytes) /\ Len(r) = 2 + Len(Body)
       /\ r[1] = CR /\ r[2] = LF /\ \A k \in 1 .. Len(Body) : r[2 + k] = Body[k]
  <2>1. IsReadWhole(p, n, lines, Body, PageBytes)
    <3> HIDE DEF t, r
    <3> QED BY <1>2, <1>7, <1>8, <1>9, WholeAnswer
  <2> QED BY <2>1 DEF IsReadWhole
<1>11. \E i \in 1..n : /\ lines[i].is = "csrftoken"
                       /\ \A j \in 1..n : j > i => lines[j].is \notin LOGIN_COOKIE_KEY
  <2> DEFINE b == Byte("csrftoken", PageToken)
             a == Byte("length", Len(Body))
             c == Byte("other", 0)
  <2>1. PageLines = {a, b, c}
    BY DEF PageLines
  <2>2. /\ b.is = "csrftoken" /\ a.is \notin LOGIN_COOKIE_KEY /\ c.is \notin LOGIN_COOKIE_KEY
    BY DEF Byte, LOGIN_COOKIE_KEY
  <2> HIDE DEF a, b, c
  <2>3. /\ lines[1] \in {a, b, c} /\ lines[2] \in {a, b, c} /\ lines[3] \in {a, b, c}
        /\ lines[1] # lines[2] /\ lines[1] # lines[3] /\ lines[2] # lines[3]
    BY <1>1, <2>1
  <2>4. lines[1] = b \/ lines[2] = b \/ lines[3] = b
    BY <2>3
  <2>5. PICK i \in 1..3 : lines[i] = b
    BY <2>4
  <2>6. \A j \in 1..3 : j > i => lines[j] \in {a, c}
    BY <1>1, <2>1, <2>5
  <2>7. \A j \in 1..3 : j > i => lines[j].is \notin LOGIN_COOKIE_KEY
    BY <2>2, <2>6
  <2> QED BY <1>9, <2>2, <2>5, <2>7
<1>12. Header(p).cookie.is = "csrftoken"
  <2>1. PICK i \in 1..n : /\ lines[i].is = "csrftoken"
                          /\ \A j \in 1..n : j > i => lines[j].is \notin LOGIN_COOKIE_KEY
    BY <1>11
  <2>2. IsLastOf(i, n, lines, LOGIN_COOKIE_KEY)
    <3>1. lines[i].is \in LOGIN_COOKIE_KEY
      BY <2>1 DEF LOGIN_COOKIE_KEY
    <3> QED BY <2>1, <3>1 DEF IsLastOf
  <2>3. Value(t, LOGIN_COOKIE_KEY) = lines[i]
    <3> HIDE DEF t, r
    <3> QED BY <1>8, <1>9, <1>10, <2>2, LastLineCounts
  <2>4. Header(p).cookie = Value(t, LOGIN_COOKIE_KEY)
    BY DEF Header
  <2> QED BY <2>1, <2>3, <2>4
<1>13. TokensIn(r) = {4}
  <2>1. DOMAIN r = 1 .. 2 + Len(Body) /\ Len(Body) >= 3 /\ Len(Body) \in Nat
    BY <1>10, LenProperties, BodyByByte
  <2>2. 4 \in DOMAIN r /\ r[4].is = "token"
    <3>1. 2 \in 1 .. Len(Body) /\ 2 + 2 = 4 /\ 4 \in DOMAIN r
      BY <2>1
    <3>2. r[4] = Body[2]
      BY <1>10, <3>1
    <3> QED BY <1>4, <3>1, <3>2
  <2>3. ASSUME NEW i \in DOMAIN r, r[i].is = "token" PROVE i = 4
    <3>1. i # 1 /\ i # 2
      BY <1>10, <2>3 DEF CR, LF, Byte
    <3> DEFINE k == i - 2
    <3>2. k \in 1 .. Len(Body) /\ 2 + k = i
      BY <2>1, <3>1
    <3> HIDE DEF k
    <3>3. r[i] = Body[k]
      BY <1>10, <3>2
    <3>4. k = 2
      BY <1>4, <2>3, <3>2, <3>3
    <3> QED BY <3>2, <3>4
  <2> HIDE DEF r
  <2> QED BY <2>2, <2>3 DEF TokensIn
<1>14. Cardinality(TokensIn(r)) = 1
  BY <1>13, FS_Singleton
<1> QED BY <1>10, <1>12, <1>14

(* The redirection read whole: there is nothing more to wait for, and the  *)
(* cookie is the session, since it is set last.                            *)
LEMMA RedirectRead ==
    ASSUME SessionLast
    PROVE  /\ Decodes(Redirect) /\ HasStatus(Line(Redirect))
           /\ Header(Redirect).cookie.is = "sessionid"
           /\ ~(RemainingContentSize(Header(Redirect)) > 0)
<1> DEFINE a == Redirect
           none == <<>>
           n == 4
           lines == RedirectLines
           S == Allowed(TRUE)
           t == AfterLine(a)
           r == Header(a).rest
<1>1. /\ lines[1] = Byte("length", 0) /\ lines[2] = Byte("location", 0)
      /\ lines[3] = Byte("csrftoken", NextToken) /\ lines[4] = Byte("sessionid", Session)
  BY RedirectByByte
<1>2. a \in Seq(S) /\ IsAnswer(a, 302, n, lines, none)
  BY RedirectByByte
<1>3. n \in Nat \ {0} /\ n = 4 /\ none = <<>> /\ Len(none) = 0 /\ Len(none) \in Nat
  OBVIOUS
<1>4. \A i \in 1..n : i = 1 \/ i = 2 \/ i = 3 \/ i = 4
  BY <1>3
<1>5. lines[1] # CR /\ lines[2] # CR /\ lines[3] # CR /\ lines[4] # CR
  BY <1>1 DEF CR, Byte
<1>6. Plain(n, lines, none)
  <2>1. \A i \in 1..n : lines[i] # CR
    BY <1>4, <1>5
  <2>2. \A k \in 1 .. Len(none) : FALSE
    BY <1>3
  <2> HIDE DEF n, lines, none
  <2> QED BY <2>1, <2>2 DEF Plain
<1> HIDE DEF n, lines, none, S
<1>7. /\ Decodes(a) /\ HasStatus(Line(a)) /\ IsText(t, n, lines, none) /\ t \in Seq(S)
      /\ r \in Seq(S)
  <2>1. none # <<>> => Len(none) > 0 /\ none[Len(none)] # LEAD
    BY <1>3
  <2>2. IsReadWhole(a, n, lines, none, S)
    <3> HIDE DEF a, t, r
    <3> QED BY <1>2, <1>3, <1>6, <2>1, WholeAnswer
  <2> QED BY <2>2 DEF IsReadWhole
<1> HIDE DEF a
<1>8. Header(a).cookie.is = "sessionid"
  <2>1. 4 \in 1..n /\ \A j \in 1..n : ~(j > 4)
    BY <1>3
  <2>2. lines[4].is = "sessionid" /\ lines[4].is \in LOGIN_COOKIE_KEY
    BY <1>1 DEF Byte, LOGIN_COOKIE_KEY
  <2>3. Value(t, LOGIN_COOKIE_KEY) = lines[4]
    <3>1. IsLastOf(4, n, lines, LOGIN_COOKIE_KEY)
      BY <2>1, <2>2 DEF IsLastOf
    <3> HIDE DEF t, r
    <3> QED BY <1>3, <1>6, <1>7, <3>1, LastLineCounts
  <2>4. Header(a).cookie = Value(t, LOGIN_COOKIE_KEY)
    BY DEF Header
  <2> QED BY <2>2, <2>3, <2>4
<1>9. Header(a).length = Byte("length", 0)
  <2>1. 1 \in 1..n /\ \A j \in 1..n : j > 1 => j = 2 \/ j = 3 \/ j = 4
    BY <1>3, <1>4
  <2>2. /\ lines[1].is \in HEADER_CONTENT_LENGTH_KEY /\ lines[2].is \notin HEADER_CONTENT_LENGTH_KEY
        /\ lines[3].is \notin HEADER_CONTENT_LENGTH_KEY
        /\ lines[4].is \notin HEADER_CONTENT_LENGTH_KEY
    BY <1>1 DEF Byte, HEADER_CONTENT_LENGTH_KEY
  <2>3. \A j \in 1..n : j > 1 => lines[j].is \notin HEADER_CONTENT_LENGTH_KEY
    BY <2>1, <2>2
  <2>4. Value(t, HEADER_CONTENT_LENGTH_KEY) = lines[1]
    <3>1. IsLastOf(1, n, lines, HEADER_CONTENT_LENGTH_KEY)
      BY <2>1, <2>2, <2>3 DEF IsLastOf
    <3> HIDE DEF t, r
    <3> QED BY <1>3, <1>6, <1>7, <3>1, LastLineCounts
  <2>5. Header(a).length = Value(t, HEADER_CONTENT_LENGTH_KEY)
    BY DEF Header
  <2> QED BY <1>1, <2>4, <2>5
<1>10. Chars(r) \in Nat
  <2> DEFINE counted == {i \in DOMAIN r : r[i] # TRAIL}
  <2>1. Len(r) \in Nat /\ DOMAIN r = 1 .. Len(r)
    BY <1>7, LenProperties
  <2>2. IsFiniteSet(DOMAIN r) /\ counted \in SUBSET DOMAIN r
    BY <2>1, FS_Interval
  <2>3. Cardinality(counted) \in Nat
    <3> HIDE DEF counted
    <3> QED BY <2>2, FS_Subset, FS_CardinalityType
  <2> QED BY <2>3 DEF Chars
<1>11. RemainingContentSize(Header(a)) = 0 - Chars(r)
  BY <1>9 DEF RemainingContentSize, Byte, Missing
<1>12. ~(RemainingContentSize(Header(a)) > 0)
  <2> HIDE DEF r
  <2> QED BY <1>10, <1>11
<1> QED BY <1>7, <1>8, <1>12 DEF a

-----------------------------------------------------------------------------
(* Why the login raises.                                                   *)

(* As long as no answer has been cut, the user is known and the connection *)
(* is open, what is under way is one whole answer or nothing.              *)
Undisturbed == whole /\ valid /\ ~closed

(* What the client can find while it is undisturbed.                      *)
WholeInv ==
    Undisturbed =>
      /\ pc = "page" => \/ request = GetPage /\ incoming = <<>>
                        \/ request = NoRequest /\ incoming \in Pages
      /\ pc = "page rest" => request = NoRequest /\ incoming = <<>>
      /\ pc = "reply" => \/ request = PostLogin(PageToken, PageToken) /\ incoming = <<>>
                         \/ request = NoRequest /\ incoming = Redirect
      /\ pc # "reply rest"
      /\ pc = "raised" => session # 0

(* Before the login nothing has been cut.                                 *)
LEMMA InitWhole == Init => WholeInv
<1> SUFFICES ASSUME Init PROVE WholeInv
  OBVIOUS
<1>1. pc = "start"
  BY DEF Init
<1> QED BY <1>1 DEF WholeInv

(* The page is under way as a whole.                                      *)
LEMMA ServePageWhole ==
    ASSUME CInv, WholeInv, ServePage PROVE WholeInv'
<1> SUFFICES ASSUME Undisturbed' PROVE WholeInv'
  BY DEF WholeInv
<1>1. /\ request.type = "GET" /\ request' = NoRequest
      /\ pc' = pc /\ session' = session /\ closed' = closed /\ valid' = valid /\ whole' = whole
  BY DEF ServePage, Serve, client
<1>2. PICK p \in Pages : incoming' = incoming \o p
  BY DEF ServePage, Serve
<1>3. request = GetPage /\ incoming = <<>> /\ Undisturbed
  BY <1>1, RequestsDiffer DEF CInv, TypesInv, LengthsInv, Undisturbed
<1>4. incoming' = p
  <2>1. p \in Seq(PageBytes)
    BY AnswerLengths
  <2> QED BY <1>2, <1>3, <2>1, ConcatEmptySeq
<1>5. pc \notin {"page rest", "reply", "reply rest"} /\ (pc = "raised" => session # 0)
  BY <1>3, RequestsDiffer DEF WholeInv
<1> QED BY <1>1, <1>4, <1>5 DEF WholeInv

(* So is the reply, and nothing is left of the page.                      *)
LEMMA ServeLoginWhole ==
    ASSUME CInv, WholeInv, ServeLogin PROVE WholeInv'
<1> SUFFICES ASSUME Undisturbed' PROVE WholeInv'
  BY DEF WholeInv
<1>1. /\ request.type = "POST" /\ request' = NoRequest
      /\ pc' = pc /\ session' = session /\ closed' = closed /\ valid' = valid /\ whole' = whole
  BY DEF ServeLogin, Serve, client
<1>2. PICK p \in Replies : incoming' = incoming \o p
  BY DEF ServeLogin, Serve
<1>3. request = PostLogin(PageToken, PageToken) /\ Undisturbed
  BY <1>1, RequestsDiffer DEF CInv, TypesInv, Undisturbed
<1>4. pc \notin {"page", "page rest", "reply rest"} /\ (pc = "raised" => session # 0)
  BY <1>3, RequestsDiffer DEF WholeInv
<1>5. ASSUME pc = "reply" PROVE incoming' = Redirect
  <2>1. incoming = <<>>
    BY <1>3, <1>5, RequestsDiffer DEF WholeInv
  <2>2. p = Redirect
    <3>1. request.cookie = PageToken /\ request.token = PageToken /\ valid
      BY <1>3 DEF PostLogin, Undisturbed
    <3> QED BY <3>1 DEF Replies
  <2>3. p \in Seq(Allowed(TRUE))
    BY <2>2, RedirectByByte
  <2> QED BY <1>2, <2>1, <2>2, <2>3, ConcatEmptySeq
<1> QED BY <1>1, <1>4, <1>5 DEF WholeInv

(* The whole answer is read.                                               *)
LEMMA ReadsItWhole ==
    ASSUME NEW S, incoming \in Seq(S), NEW stage \in Stages, ReadHeader(stage), Undisturbed'
    PROVE  /\ pc = stage /\ Undisturbed /\ incoming # <<>> /\ incoming' = <<>>
           /\ \/ (~Decodes(incoming) \/ ~HasStatus(Line(incoming))) /\ Raise
              \/ pc' = RestOf[stage] /\ Kept(Header(incoming))
              \/ /\ Use(stage, Header(incoming), Header(incoming).rest)
                 /\ ~(RemainingContentSize(Header(incoming)) > 0)
<1>1. PICK bytes \in Received(ASSUMED_MAX_PACKAGE_SIZE) :
         /\ Consume(bytes) /\ whole' = (whole /\ bytes = incoming)
         /\ IF ~Decodes(bytes) \/ ~HasStatus(Line(bytes)) THEN Raise
            ELSE LET head == Header(bytes)
                 IN  IF RemainingContentSize(head) > 0
                     THEN /\ pc' = RestOf[stage]
                          /\ header' = head
                          /\ UNCHANGED <<csrf, session, request>>
                     ELSE Use(stage, head, head.rest)
  BY DEF ReadHeader
<1>2. pc = stage /\ closed' = closed /\ valid' = valid
  BY DEF ReadHeader
<1>3. bytes = incoming /\ Undisturbed
  BY <1>1, <1>2 DEF Undisturbed
<1>4. IsCut(bytes, SubSeq(incoming, Len(bytes) + 1, Len(incoming)), incoming, S)
  <2>1. ASSUMED_MAX_PACKAGE_SIZE \in Int /\ ASSUMED_MAX_PACKAGE_SIZE > 0
    BY CrawlerAssumption
  <2> QED BY <2>1, ReceivedIsCut
<1>5. IsCut(incoming, incoming', incoming, S)
  BY <1>1, <1>3, <1>4 DEF Consume
<1>6. PICK k \in 0 .. Len(incoming) : /\ Len(incoming) = k /\ incoming' \in Seq(S)
                                      /\ Len(incoming') = Len(incoming) - k
                                      /\ k = 0 => incoming = <<>> /\ closed
  BY <1>5 DEF IsCut
<1>7. Len(incoming) # 0 /\ Len(incoming') = 0
  BY <1>3, <1>6 DEF Undisturbed
<1>8. incoming # <<>> /\ incoming' = <<>>
  BY <1>6, <1>7, EmptySeq
<1>9. \/ (~Decodes(incoming) \/ ~HasStatus(Line(incoming))) /\ Raise
      \/ pc' = RestOf[stage] /\ Kept(Header(incoming))
      \/ /\ Use(stage, Header(incoming), Header(incoming).rest)
         /\ ~(RemainingContentSize(Header(incoming)) > 0)
  BY <1>1, <1>3, Zenon DEF Kept
<1> QED BY <1>2, <1>3, <1>8, <1>9

(* A whole page is used or waits for its rest; a whole redirection is     *)
(* used. Neither is an error.                                             *)
LEMMA ReadHeaderWhole ==
    ASSUME CInv, WholeInv, SessionLast, NEW stage \in Stages, ReadHeader(stage) PROVE WholeInv'
<1> SUFFICES ASSUME Undisturbed' PROVE WholeInv'
  BY DEF WholeInv
<1>1. stage \in {"page", "reply"} /\ RestOf["page"] = "page rest"
  BY DEF Stages, RestOf
<1>2. incoming \in Seq(Allowed(valid))
  BY DEF CInv, TypesInv
<1>3. /\ pc = stage /\ Undisturbed /\ incoming # <<>> /\ incoming' = <<>>
      /\ \/ (~Decodes(incoming) \/ ~HasStatus(Line(incoming))) /\ Raise
         \/ pc' = RestOf[stage] /\ Kept(Header(incoming))
         \/ /\ Use(stage, Header(incoming), Header(incoming).rest)
            /\ ~(RemainingContentSize(Header(incoming)) > 0)
  BY <1>2, ReadsItWhole
<1>4. CASE stage = "page"
  <2>1. incoming \in Pages /\ request = NoRequest
    BY <1>3, <1>4 DEF WholeInv
  <2>2. /\ Decodes(incoming) /\ HasStatus(Line(incoming))
        /\ Header(incoming).cookie.is = "csrftoken"
        /\ Cardinality(TokensIn(Header(incoming).rest)) = 1
    BY <2>1, PageRead
  <2>3. CASE pc' = RestOf[stage] /\ Kept(Header(incoming))
    <3>1. pc' = "page rest" /\ request' = NoRequest
      BY <1>1, <1>4, <2>1, <2>3 DEF Kept
    <3> QED BY <1>3, <3>1 DEF WholeInv
  <2>4. CASE Use(stage, Header(incoming), Header(incoming).rest)
    <3>1. UsePage(Header(incoming), Header(incoming).rest)
      BY <1>4, <2>4 DEF Use
    <3>2. pc' = "reply"
      BY <2>2, <3>1 DEF UsePage
    <3>3. request' = PostLogin(PageToken, PageToken)
      <4>1. pc = "page" /\ incoming \in Seq(PageBytes)
        BY <1>3, <1>4 DEF CInv, StagesInv
      <4>2. HeaderFrom(Header(incoming), PageBytes)
        BY <4>1, HeaderOfBytes
      <4>3. Header(incoming).rest \in Seq(PageBytes)
        BY <4>2 DEF HeaderFrom
      <4>4. ~Raise
        BY <3>2 DEF Raise
      <4> QED BY <3>1, <4>2, <4>3, <4>4, UsingPage
    <3> QED BY <1>3, <3>2, <3>3 DEF WholeInv
  <2> QED BY <1>3, <2>2, <2>3, <2>4
<1>5. CASE stage = "reply"
  <2>1. incoming = Redirect
    BY <1>3, <1>5 DEF WholeInv
  <2>2. /\ Decodes(incoming) /\ HasStatus(Line(incoming))
        /\ Header(incoming).cookie.is = "sessionid"
        /\ ~(RemainingContentSize(Header(incoming)) > 0)
    BY <2>1, RedirectRead
  <2>3. Use(stage, Header(incoming), Header(incoming).rest)
    BY <1>3, <2>2 DEF Kept
  <2>4. UseReply(Header(incoming))
    BY <1>5, <2>3 DEF Use
  <2>5. pc' = "logged in"
    BY <2>2, <2>4 DEF UseReply
  <2> QED BY <2>5 DEF WholeInv
<1> QED BY <1>1, <1>4, <1>5

(* The second recv waits for what does not come, or the connection has    *)
(* been closed.                                                           *)
LEMMA ReadRestWhole ==
    ASSUME CInv, WholeInv, NEW stage \in Stages, ReadRest(stage) PROVE WholeInv'
<1> SUFFICES ASSUME Undisturbed' PROVE FALSE
  BY DEF WholeInv
<1>1. stage \in {"page", "reply"} /\ RestOf["page"] = "page rest" /\ RestOf["reply"] = "reply rest"
  BY DEF Stages, RestOf
<1>2. /\ valid \in BOOLEAN /\ incoming \in Seq(Allowed(valid))
      /\ HeaderFrom(header, Allowed(valid)) /\ RemainingContentSize(header) \in Int
  BY RemainingIsANumber DEF CInv, TypesInv
<1>3. pc = RestOf[stage] /\ RemainingContentSize(header) > 0
  BY <1>1 DEF ReadRest, CInv, TypesInv
<1>4. closed' = closed /\ valid' = valid /\ whole' = whole
  BY DEF ReadRest
<1>5. PICK bytes : IsCut(bytes, incoming', incoming, Allowed(valid))
  BY <1>2, <1>3, ReadsTheRest
<1>6. Undisturbed
  BY <1>4 DEF Undisturbed
<1>7. pc = "page rest" /\ incoming = <<>>
  BY <1>1, <1>3, <1>6 DEF WholeInv
<1>8. Len(incoming) = 0
  BY <1>7
<1>9. closed
  BY <1>5, <1>8 DEF IsCut
<1> QED BY <1>6, <1>9 DEF Undisturbed

(* The other steps, and those that change nothing.                        *)
LEMMA OtherStepsWhole ==
    ASSUME CInv, WholeInv, GetLoginPage \/ ExtractResponseData \/ CloseConnection \/ UNCHANGED vars
    PROVE  WholeInv'
<1>1. CASE GetLoginPage
  <2>1. pc = "start" /\ pc' = "page" /\ request' = GetPage /\ incoming' = incoming
    BY <1>1 DEF GetLoginPage
  <2>2. incoming = <<>>
    BY <2>1 DEF CInv, LengthsInv
  <2> QED BY <2>1, <2>2 DEF WholeInv
<1>2. CASE ExtractResponseData
  <2>1. pc = "logged in" /\ pc' = "raised" /\ session' = session
    BY <1>2 DEF ExtractResponseData, Raise
  <2>2. session # 0
    <3>1. session = Session
      BY <2>1 DEF CInv, StagesInv
    <3>2. Session # 0
      BY DEF Session
    <3> QED BY <3>1, <3>2
  <2> QED BY <2>1, <2>2 DEF WholeInv
<1>3. CASE CloseConnection
  BY <1>3 DEF CloseConnection, WholeInv, Undisturbed
<1>4. CASE UNCHANGED vars
  BY <1>4 DEF vars, client, WholeInv, Undisturbed
<1> QED BY <1>1, <1>2, <1>3, <1>4

(* Every step preserves it, if the session is set last.                   *)
LEMMA NextWhole == SessionLast /\ CInv /\ WholeInv /\ [Next]_vars => WholeInv'
<1> SUFFICES ASSUME SessionLast, CInv, WholeInv, [Next]_vars PROVE WholeInv'
  OBVIOUS
<1>1. ASSUME NEW s \in Stages, ReadHeader(s) \/ ReadRest(s) PROVE WholeInv'
  BY <1>1, ReadHeaderWhole, ReadRestWhole
<1>2. CASE GetLoginPage \/ ExtractResponseData \/ CloseConnection \/ UNCHANGED vars
  BY <1>2, OtherStepsWhole
<1>3. CASE ServePage \/ ServeLogin
  BY <1>3, ServePageWhole, ServeLoginWhole
<1> QED BY <1>1, <1>2, <1>3 DEF Next, ClientStep, Ended

(* The login raises for a cause, for every size of the page and of the     *)
(* first recv: if each answer comes in one piece, the connection lasts and *)
(* the user is known, neither the order of the header lines nor the second *)
(* cookie puts it off.  The session has to be the last cookie that is set: *)
(* this is what the server does, and without it the run crawler_cookies    *)
(* shows the login raise.                                                  *)
THEOREM LoginRaisesForCause ==
    ASSUME SessionLast
    PROVE  Spec => []RaisesForCause
<1>1. CInv /\ WholeInv => RaisesForCause
  BY DEF WholeInv, Undisturbed, RaisesForCause
<1>2. CInv /\ WholeInv /\ [Next]_vars => WholeInv'
  BY NextWhole
<1> QED BY <1>1, <1>2, InitCInv, NextCInv, InitWhole, PTL DEF Spec

=============================================================================
