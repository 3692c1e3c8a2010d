-------------------------- MODULE TCPPacketProofs --------------------------
(***************************************************************************)
(* Theorems about TCPPacket, for every size of bytes and fields, every     *)
(* input, and whatever the emulator drops, overwrites and duplicates.      *)
(***************************************************************************)
EXTENDS TCPPacket, FoldProofs, SequenceTheorems

Byte == 0 .. Base - 1

-----------------------------------------------------------------------------
(* Numbers.                                                                *)

(* Division by a divisor of any size.                                      *)
LEMMA Quotient ==
    ASSUME NEW x \in Nat, NEW p \in Nat \ {0}
    PROVE  /\ x \div p \in Nat /\ x % p \in 0 .. p - 1
           /\ x = (x \div p) * p + (x % p)
OBVIOUS

(* A number written with quotient and remainder has just these.            *)
LEMMA QuotientIs ==
    ASSUME NEW x \in Nat, NEW p \in Nat \ {0}, NEW q \in Nat, NEW r \in 0 .. p - 1,
           x = q * p + r
    PROVE  x \div p = q /\ x % p = r
OBVIOUS

(* What the step of Number makes of natural numbers.                       *)
LEMMA TimesPlus ==
    ASSUME NEW x \in Nat, NEW b \in Nat, NEW y \in Nat
    PROVE  x * b + y \in Nat
OBVIOUS

(* A product grows with its factor.                                        *)
LEMMA TimesKeepsOrder ==
    ASSUME NEW x \in Nat, NEW y \in Nat, NEW b \in Nat, x <= y
    PROVE  x * b <= y * b
OBVIOUS

(* A number below p with one more digit is below b * p.                    *)
LEMMA OneDigitMore ==
    ASSUME NEW x \in Nat, NEW p \in Nat, NEW b \in Nat \ {0}, NEW c \in 0 .. b - 1, x < p
    PROVE  x * b + c < b * p
<1>1. x + 1 \in Nat /\ x + 1 <= p
  OBVIOUS
<1>2. (x + 1) * b <= p * b
  BY <1>1, TimesKeepsOrder
<1>3. x * b + b <= p * b
  BY <1>2
<1> QED BY <1>3

(* To divide by a product is to divide twice.                              *)
LEMMA QuotientTwice ==
    ASSUME NEW x \in Nat, NEW p \in Nat \ {0}, NEW b \in Nat \ {0}
    PROVE  x \div (b * p) = (x \div p) \div b
OBVIOUS

(* Power is what its equation says.                                        *)
LEMMA PowerIs ==
    /\ Power \in [Nat -> Nat] /\ Power[0] = 1
    /\ \A n \in Nat : Power[n + 1] = Base * Power[n]
<1> DEFINE step == [x \in Nat |-> Base * x]
           IsPower(f) == f = [n \in Nat |-> IF n = 0 THEN 1 ELSE Base * f[n - 1]]
<1>1. Base \in Nat
  BY ByteAssumption
<1>2. step \in [Nat -> Nat]
  BY <1>1
<1>3. PICK f \in [Nat -> Nat] : f[0] = 1 /\ \A n \in Nat : f[n + 1] = step[f[n]]
  <2> DEFINE X == Nat
             one == 1
  <2>1. one \in X /\ step \in [X -> X]
    BY <1>2
  <2> HIDE DEF X, one, step
  <2>2. \E f \in [Nat -> X] : f[0] = one /\ \A n \in Nat : f[n + 1] = step[f[n]]
    BY <2>1, RecursionIsDefined
  <2> QED BY <2>2 DEF X, one
<1>4. \A n \in Nat : n # 0 => f[n] = Base * f[n - 1]
  <2> SUFFICES ASSUME NEW n \in Nat, n # 0 PROVE f[n] = Base * f[n - 1]
    OBVIOUS
  <2>1. n - 1 \in Nat /\ (n - 1) + 1 = n
    OBVIOUS
  <2> QED BY <1>3, <2>1
<1>5. IsPower(f)
  BY <1>3, <1>4
<1>6. Power = CHOOSE g : IsPower(g)
  BY DEF Power
<1>7. IsPower(Power)
  <2> HIDE DEF IsPower
  <2> QED BY <1>5, <1>6
<1>8. Power \in [Nat -> Nat]
  <2> DEFINE T == {n \in Nat : Power[n] \in Nat}
  <2>1. 0 \in T
    BY <1>7
  <2>2. ASSUME NEW n \in T PROVE n + 1 \in T
    BY <1>1, <1>7
  <2>3. T = Nat
    <3> HIDE DEF T
    <3>1. T \subseteq Nat
      BY DEF T
    <3> QED BY <2>1, <2>2, <3>1, NaturalInduction
  <2> QED BY <1>7, <2>3
<1> QED BY <1>7, <1>8

(* Powers are positive.                                                    *)
LEMMA PowerIsPositive ==
    \A n \in Nat : Power[n] \in Nat \ {0}
<1> DEFINE T == {n \in Nat : Power[n] \in Nat \ {0}}
<1>1. 0 \in T /\ \A n \in T : n + 1 \in T
  BY PowerIs, ByteAssumption
<1>2. T = Nat
  <2> HIDE DEF T
  <2>1. T \subseteq Nat
    BY DEF T
  <2> QED BY <1>1, <2>1, NaturalInduction
<1> QED BY <1>2

-----------------------------------------------------------------------------
(* Numbers as bytes.                                                       *)

(* The number that the first bytes are, one more byte at a time.           *)
Reads(N, s) ==
    /\ N \in [0..Len(s) -> Nat]
    /\ N[0] = 0
    /\ \A i \in 1..Len(s) : N[i] = N[i - 1] * Base + s[i]

(* Number reads all of them.                                               *)
LEMMA NumberReads ==
    ASSUME NEW s \in Seq(Byte)
    PROVE  \E N : Reads(N, s) /\ Number(s) = N[Len(s)]
<1> DEFINE n == Len(s)
           D == 1..n
           pick == [S \in (SUBSET D) \ {{}} |-> Max(S)]
           step == [i \in D |-> [x \in Nat |-> x * Base + s[i]]]
           IsLoop(g) == g = [S \in SUBSET D |->
                               IF S = {} THEN 0 ELSE g[S \ {Max(S)}] * Base + s[Max(S)]]
           loop == CHOOSE g : IsLoop(g)
<1>1. n \in Nat /\ DOMAIN s = D /\ \A i \in D : s[i] \in Nat
  BY LenProperties, ElementOfSeq, ByteAssumption DEF Byte
<1>2. Base \in Nat
  BY ByteAssumption
<1>3. Number(s) = loop[D]
  BY <1>1 DEF Number, FoldLeft, MapThenFoldSet
<1>4. IsFiniteSet(D) /\ Picks(pick, D) /\ \A S \in (SUBSET D) \ {{}} : Max(S) \in S
  BY <1>1, MaxPicks
<1>5. step \in [D -> [Nat -> Nat]]
  BY <1>1, <1>2
<1>6. IsLoop(loop) /\ loop \in [SUBSET D -> Nat]
  <2>1. PICK g \in [SUBSET D -> Nat] : IsFold(g, D, 0, step, pick)
    <3> DEFINE X == Nat
               zero == 0
    <3>1. zero \in X /\ step \in [D -> [X -> X]]
      BY <1>5
    <3> HIDE DEF D, X, pick, step, zero
    <3>2. \E g \in [SUBSET D -> X] : IsFold(g, D, zero, step, pick)
      BY <1>4, <3>1, FoldIsDefined
    <3> QED BY <3>2 DEF X, zero
  <2>2. \A S \in (SUBSET D) \ {{}} :
           step[pick[S]][g[S \ {pick[S]}]] = g[S \ {Max(S)}] * Base + s[Max(S)]
    <3> SUFFICES ASSUME NEW S \in (SUBSET D) \ {{}}
                 PROVE  step[pick[S]][g[S \ {pick[S]}]] = g[S \ {Max(S)}] * Base + s[Max(S)]
      OBVIOUS
    <3>1. pick[S] = Max(S) /\ Max(S) \in D /\ g[S \ {Max(S)}] \in Nat
      BY <1>4
    <3> QED BY <3>1
  <2>3. IsLoop(g)
    <3> HIDE DEF step, pick
    <3> QED BY <2>1, <2>2 DEF IsFold
  <2>4. IsLoop(loop)
    <3> HIDE DEF IsLoop
    <3> QED BY <2>3
  <2> HIDE DEF loop
  <2>5. \A S \in SUBSET D : loop[S] \in Nat
    <3> DEFINE T == {S \in SUBSET D : loop[S] \in Nat}
    <3>1. {} \in T
      BY <2>4
    <3>2. \A S \in (SUBSET D) \ {{}} : S \ {pick[S]} \in T => S \in T
      <4> SUFFICES ASSUME NEW S \in (SUBSET D) \ {{}}, S \ {pick[S]} \in T PROVE S \in T
        OBVIOUS
      <4>1. pick[S] = Max(S) /\ Max(S) \in D /\ loop[S \ {Max(S)}] \in Nat
        BY <1>4
      <4>2. loop[S] = loop[S \ {Max(S)}] * Base + s[Max(S)]
        BY <2>4
      <4>3. s[Max(S)] \in Nat
        BY <4>1, <1>1
      <4>4. loop[S] \in Nat
        BY <4>1, <4>2, <4>3, <1>2, TimesPlus
      <4> QED BY <4>4
    <3> HIDE DEF T, D, pick, step, IsLoop, n
    <3>3. IsFiniteSet(D) /\ Picks(pick, D)
      BY <1>4
    <3>4. SUBSET D \subseteq T
      BY <3>1, <3>2, <3>3, SubsetInduction
    <3> QED BY <3>4 DEF T
  <2> QED BY <2>4, <2>5
<1> HIDE DEF loop
<1> DEFINE N == [i \in 0..n |-> loop[1..i]]
<1>7. N \in [0..n -> Nat] /\ N[0] = 0
  <2>1. \A i \in 0..n : 1..i \in SUBSET D
    BY <1>1
  <2>2. 1..0 = {} /\ 0 \in 0..n /\ {} \in SUBSET D
    BY <1>1
  <2>3. loop[{}] = 0
    BY <1>6, <2>2
  <2> HIDE DEF D
  <2> QED BY <1>6, <2>1, <2>2, <2>3
<1>8. ASSUME NEW i \in 1..n PROVE N[i] = N[i - 1] * Base + s[i]
  <2>1. /\ 1..i \in SUBSET D /\ 1..i # {} /\ 1 .. i - 1 \in SUBSET D
        /\ Max(1..i) = i /\ (1..i) \ {i} = 1 .. i - 1
    BY <1>1, LastIndex
  <2>2. loop[1..i] = loop[1 .. i - 1] * Base + s[i]
    BY <1>6, <2>1
  <2>3. i \in 0..n /\ i - 1 \in 0..n
    BY <1>1
  <2> QED BY <2>2, <2>3
<1>9. N[n] = loop[D]
  BY <1>1
<1> HIDE DEF N
<1> QED BY <1>3, <1>7, <1>8, <1>9 DEF Reads

(* A number of n bytes fits a field of n bytes.                            *)
LEMMA NumberFits ==
    ASSUME NEW s \in Seq(Byte)
    PROVE  Number(s) \in Nat /\ Fits(Number(s), Len(s))
<1>1. PICK N : Reads(N, s) /\ Number(s) = N[Len(s)]
  BY NumberReads
<1> DEFINE n == Len(s)
           T == {i \in 0..n : N[i] < Power[i]}
<1>2. n \in Nat /\ \A i \in 1..n : s[i] \in Byte
  BY LenProperties, ElementOfSeq
<1>3. 0 \in T
  BY <1>1, <1>2, PowerIs DEF Reads
<1>4. ASSUME NEW i \in 1..n, i - 1 \in T PROVE i \in T
  <2>0. i \in 0..n /\ i - 1 \in 0..n /\ i - 1 \in Nat
    BY <1>2
  <2>1. N[i - 1] \in Nat /\ N[i] = N[i - 1] * Base + s[i]
    BY <1>1, <2>0 DEF Reads
  <2>2. N[i - 1] < Power[i - 1] /\ s[i] \in 0 .. Base - 1
    BY <1>2, <1>4 DEF Byte
  <2>3. Power[i] = Base * Power[i - 1] /\ Power[i - 1] \in Nat
    <3>1. (i - 1) + 1 = i
      BY <2>0
    <3> QED BY <2>0, <3>1, PowerIs
  <2>4. Base \in Nat \ {0}
    BY ByteAssumption
  <2>5. N[i] < Power[i]
    BY <2>1, <2>2, <2>3, <2>4, OneDigitMore
  <2> QED BY <2>0, <2>5
<1>5. T = 0..n
  <2> HIDE DEF T
  <2>1. T \subseteq 0..n
    BY DEF T
  <2> QED BY <1>2, <1>3, <1>4, <2>1, RangeInduction
<1> QED BY <1>1, <1>2, <1>5 DEF Reads, Fits

(* A field has the bytes it has room for.                                  *)
LEMMA BytesAre ==
    ASSUME NEW x \in Nat, NEW w \in Nat
    PROVE  Bytes(x, w) \in Seq(Byte) /\ Len(Bytes(x, w)) = w
<1>1. ASSUME NEW i \in 1..w PROVE (x \div Power[w - i]) % Base \in Byte
  <2>1. w - i \in Nat
    OBVIOUS
  <2>2. x \div Power[w - i] \in Nat
    BY <2>1, PowerIsPositive, Quotient
  <2> QED BY <2>2, Quotient, ByteAssumption DEF Byte
<1>2. Bytes(x, w) \in [1..w -> Byte]
  BY <1>1 DEF Bytes
<1> QED BY <1>2

(* The powers on both sides of a byte.                                     *)
LEMMA NextPower ==
    ASSUME NEW w \in Nat, NEW i \in 1..w
    PROVE  /\ w - i \in Nat /\ w - (i - 1) \in Nat
           /\ Power[w - (i - 1)] = Base * Power[w - i]
           /\ Power[w - i] \in Nat \ {0}
<1>1. w - i \in Nat /\ (w - i) + 1 = w - (i - 1)
  OBVIOUS
<1>2. Power[(w - i) + 1] = Base * Power[w - i]
  BY <1>1, PowerIs
<1> QED BY <1>1, <1>2, PowerIsPositive

(* A number that fits its field is read as it was written.                 *)
LEMMA NumberOfBytes ==
    ASSUME NEW x \in Nat, NEW w \in Nat, Fits(x, w)
    PROVE  Number(Bytes(x, w)) = x
<1> DEFINE s == Bytes(x, w)
<1>1. s \in Seq(Byte) /\ Len(s) = w /\ \A i \in 1..w : s[i] = (x \div Power[w - i]) % Base
  BY BytesAre DEF Bytes
<1> HIDE DEF s
<1>2. PICK N : Reads(N, s) /\ Number(s) = N[w]
  BY <1>1, NumberReads
<1> DEFINE T == {i \in 0..w : N[i] = x \div Power[w - i]}
<1>3. 0 \in T
  <2>1. Power[w] \in Nat \ {0} /\ x < Power[w] /\ w - 0 = w
    BY PowerIsPositive DEF Fits
  <2>2. x \div Power[w] = 0
    BY <2>1, QuotientIs
  <2> QED BY <1>2, <2>1, <2>2 DEF Reads
<1>4. ASSUME NEW i \in 1..w, i - 1 \in T PROVE i \in T
  <2> DEFINE q == x \div Power[w - i]
  <2>1. Power[w - i] \in Nat \ {0} /\ Base \in Nat \ {0}
    BY NextPower, ByteAssumption
  <2>2. q \in Nat
    BY <2>1, Quotient
  <2>3. N[i - 1] = q \div Base
    <3>1. N[i - 1] = x \div (Base * Power[w - i])
      BY <1>4, NextPower
    <3> QED BY <2>1, <3>1, QuotientTwice
  <2>4. N[i] = N[i - 1] * Base + s[i] /\ s[i] = q % Base
    BY <1>1, <1>2 DEF Reads
  <2> HIDE DEF q
  <2>5. N[i] = q
    BY <2>1, <2>2, <2>3, <2>4, Quotient
  <2> QED BY <2>5 DEF q
<1>5. T = 0..w
  <2> HIDE DEF T
  <2>1. T \subseteq 0..w
    BY DEF T
  <2> QED BY <1>3, <1>4, <2>1, RangeInduction
<1>6. N[w] = x \div Power[0]
  BY <1>5
<1>7. x \div Power[0] = x
  BY PowerIs
<1> QED BY <1>2, <1>6, <1>7 DEF s

(* What is read from a field is written as it was.                         *)
LEMMA BytesOfNumber ==
    ASSUME NEW s \in Seq(Byte)
    PROVE  Bytes(Number(s), Len(s)) = s
<1> DEFINE w == Len(s)
           x == Number(s)
<1>1. w \in Nat /\ x \in Nat /\ Base \in Nat \ {0} /\ \A i \in 1..w : s[i] \in Byte
  BY LenProperties, ElementOfSeq, NumberFits, ByteAssumption
<1>2. PICK N : Reads(N, s) /\ x = N[w]
  BY NumberReads
<1> HIDE DEF x
<1> DEFINE T == {j \in 0..w : N[w - j] = x \div Power[j]}
<1>3. 0 \in T
  <2>1. w - 0 = w /\ 0 \in 0..w /\ Power[0] = 1 /\ x \div 1 = x
    BY <1>1, PowerIs
  <2> HIDE DEF w
  <2> QED BY <1>2, <2>1
<1>4. ASSUME NEW i \in 1..w PROVE N[i - 1] \in Nat /\ N[i] \in Nat /\ N[i] % Base = s[i] /\ N[i] \div Base = N[i - 1]
  <2>1. N[i - 1] \in Nat /\ N[i] \in Nat /\ N[i] = N[i - 1] * Base + s[i]
    <3>1. i \in 1..w /\ i - 1 \in 0..w /\ i \in 0..w
      BY <1>1
    <3>2. N[i - 1] \in Nat /\ N[i] \in Nat
      BY <1>2, <3>1 DEF Reads
    <3>3. N[i] = N[i - 1] * Base + s[i]
      BY <1>2, <3>1 DEF Reads
    <3> QED BY <3>2, <3>3
  <2>2. s[i] \in 0 .. Base - 1
    BY <1>1 DEF Byte
  <2> QED BY <1>1, <2>1, <2>2, QuotientIs
<1>5. ASSUME NEW j \in 1..w, j - 1 \in T PROVE j \in T
  <2>1. j - 1 \in Nat /\ (j - 1) + 1 = j /\ w - (j - 1) \in 1..w /\ (w - (j - 1)) - 1 = w - j /\ j \in 0..w
    BY <1>1
  <2>2. N[w - j] = N[w - (j - 1)] \div Base
    BY <1>4, <2>1
  <2>3. N[w - (j - 1)] = x \div Power[j - 1]
    BY <1>5
  <2>4. Power[j] = Base * Power[j - 1] /\ Power[j - 1] \in Nat \ {0}
    BY <2>1, PowerIs, PowerIsPositive
  <2>5. x \div Power[j] = (x \div Power[j - 1]) \div Base
    BY <1>1, <2>4, QuotientTwice
  <2> QED BY <2>1, <2>2, <2>3, <2>5
<1>6. T = 0..w
  <2> HIDE DEF T, w
  <2>1. T \subseteq 0..w
    BY DEF T
  <2> QED BY <1>1, <1>3, <1>5, <2>1, RangeInduction
<1>7. ASSUME NEW i \in 1..w PROVE (x \div Power[w - i]) % Base = s[i]
  <2>1. w - i \in 0..w /\ w - (w - i) = i
    BY <1>1
  <2>2. N[w - (w - i)] = x \div Power[w - i]
    BY <1>6, <2>1
  <2> QED BY <1>4, <2>1, <2>2
<1>8. s = [i \in 1..w |-> s[i]]
  OBVIOUS
<1> HIDE DEF T
<1> QED BY <1>7, <1>8 DEF Bytes, x

(* Numbers that fit a field and have the same bytes there are equal.       *)
LEMMA BytesTell ==
    ASSUME NEW x \in Nat, NEW y \in Nat, NEW w \in Nat, Fits(x, w), Fits(y, w),
           Bytes(x, w) = Bytes(y, w)
    PROVE  x = y
BY NumberOfBytes

-----------------------------------------------------------------------------
(* The layout of a packet.                                                 *)

(* Where the two parts of a sequence are.                                  *)
LEMMA PartsOf ==
    ASSUME NEW S, NEW a \in Seq(S), NEW b \in Seq(S), NEW s, s = a \o b
    PROVE  /\ s \in Seq(S) /\ Len(s) = Len(a) + Len(b)
           /\ \A i \in 1..Len(a) : s[i] = a[i]
           /\ \A i \in 1..Len(b) : s[Len(a) + i] = b[i]
OBVIOUS

(* Where the parts of six are.                                             *)
HasParts(s, S, a, b, c, d, e, f) ==
    /\ s \in Seq(S)
    /\ Len(s) = Len(a) + Len(b) + Len(c) + 1 + Len(e) + Len(f)
    /\ \A i \in 1..Len(a) : s[i] = a[i]
    /\ \A i \in 1..Len(b) : s[Len(a) + i] = b[i]
    /\ \A i \in 1..Len(c) : s[Len(a) + Len(b) + i] = c[i]
    /\ s[Len(a) + Len(b) + Len(c) + 1] = d
    /\ \A i \in 1..Len(e) : s[Len(a) + Len(b) + Len(c) + 1 + i] = e[i]
    /\ \A i \in 1..Len(f) : s[Len(a) + Len(b) + Len(c) + 1 + Len(e) + i] = f[i]

(* The places of the six parts of a packet.                                *)
LEMMA SixParts ==
    ASSUME NEW S, NEW a \in Seq(S), NEW b \in Seq(S), NEW c \in Seq(S),
           NEW d \in S, NEW e \in Seq(S), NEW f \in Seq(S),
           NEW s, s = a \o b \o c \o <<d>> \o e \o f
    PROVE  HasParts(s, S, a, b, c, d, e, f)
<1> DEFINE ab == a \o b
           abc == ab \o c
           abcd == abc \o <<d>>
           abcde == abcd \o e
<1>0. /\ s = abcde \o f /\ <<d>> \in Seq(S) /\ Len(<<d>>) = 1 /\ <<d>>[1] = d
      /\ ab \in Seq(S) /\ abc \in Seq(S) /\ abcd \in Seq(S) /\ abcde \in Seq(S)
  OBVIOUS
<1>1. /\ ab \in Seq(S) /\ Len(ab) = Len(a) + Len(b)
      /\ \A i \in 1..Len(a) : ab[i] = a[i]
      /\ \A i \in 1..Len(b) : ab[Len(a) + i] = b[i]
  <2>1. ab = a \o b
    OBVIOUS
  <2> HIDE DEF ab, abc, abcd, abcde
  <2> QED BY <2>1, PartsOf
<1>2. /\ abc \in Seq(S) /\ Len(abc) = Len(ab) + Len(c)
      /\ \A i \in 1..Len(ab) : abc[i] = ab[i]
      /\ \A i \in 1..Len(c) : abc[Len(ab) + i] = c[i]
  <2>1. abc = ab \o c
    OBVIOUS
  <2> HIDE DEF ab, abc, abcd, abcde
  <2> QED BY <1>0, <2>1, PartsOf
<1>3. /\ abcd \in Seq(S) /\ Len(abcd) = Len(abc) + 1
      /\ \A i \in 1..Len(abc) : abcd[i] = abc[i]
      /\ abcd[Len(abc) + 1] = d
  <2> HIDE DEF ab, abc, abcde
  <2> QED BY <1>0
<1>4. /\ abcde \in Seq(S) /\ Len(abcde) = Len(abcd) + Len(e)
      /\ \A i \in 1..Len(abcd) : abcde[i] = abcd[i]
      /\ \A i \in 1..Len(e) : abcde[Len(abcd) + i] = e[i]
  <2> HIDE DEF ab, abc, abcd
  <2> QED BY <1>0, PartsOf
<1> HIDE DEF ab, abc, abcd, abcde
<1>6. /\ s \in Seq(S) /\ Len(s) = Len(abcde) + Len(f)
      /\ \A i \in 1..Len(abcde) : s[i] = abcde[i]
      /\ \A i \in 1..Len(f) : s[Len(abcde) + i] = f[i]
  <2> DEFINE all == abcde \o f
  <2>1. /\ all \in Seq(S) /\ Len(all) = Len(abcde) + Len(f)
        /\ \A i \in 1..Len(abcde) : all[i] = abcde[i]
        /\ \A i \in 1..Len(f) : all[Len(abcde) + i] = f[i]
    BY <1>0, PartsOf
  <2>2. s = all
    BY <1>0
  <2> HIDE DEF all
  <2> QED BY <2>1, <2>2
<1>7. Len(a) \in Nat /\ Len(b) \in Nat /\ Len(c) \in Nat /\ Len(e) \in Nat /\ Len(f) \in Nat
  BY LenProperties
<1>8. /\ Len(ab) = Len(a) + Len(b) /\ Len(abc) = Len(ab) + Len(c) /\ Len(abcd) = Len(abc) + 1
      /\ Len(abcde) = Len(abcd) + Len(e) /\ Len(s) = Len(abcde) + Len(f)
  BY <1>1, <1>2, <1>3, <1>4, <1>6
<1>9. \A i \in 1..Len(abcd) : s[i] = abcd[i]
  <2>1. \A i \in 1..Len(abcd) : i \in 1..Len(abcde)
    BY <1>7, <1>8
  <2> QED BY <1>4, <1>6, <2>1
<1>10. \A i \in 1..Len(abc) : s[i] = abc[i]
  <2>1. \A i \in 1..Len(abc) : i \in 1..Len(abcd)
    BY <1>7, <1>8
  <2> QED BY <1>3, <1>9, <2>1
<1>11. \A i \in 1..Len(ab) : s[i] = ab[i]
  <2>1. \A i \in 1..Len(ab) : i \in 1..Len(abc)
    BY <1>7, <1>8
  <2> QED BY <1>2, <1>10, <2>1
<1>12. \A i \in 1..Len(a) : s[i] = a[i]
  <2>1. \A i \in 1..Len(a) : i \in 1..Len(ab)
    BY <1>7, <1>8
  <2> QED BY <1>1, <1>11, <2>1
<1>13. \A i \in 1..Len(b) : s[Len(a) + i] = b[i]
  <2>1. \A i \in 1..Len(b) : Len(a) + i \in 1..Len(ab)
    BY <1>7, <1>8
  <2> QED BY <1>1, <1>11, <2>1
<1>14. \A i \in 1..Len(c) : s[Len(ab) + i] = c[i]
  <2>1. \A i \in 1..Len(c) : Len(ab) + i \in 1..Len(abc)
    BY <1>7, <1>8
  <2> QED BY <1>2, <1>10, <2>1
<1>15. s[Len(abc) + 1] = d
  <2>1. Len(abc) + 1 \in 1..Len(abcd)
    BY <1>7, <1>8
  <2> QED BY <1>3, <1>9, <2>1
<1>16. \A i \in 1..Len(e) : s[Len(abcd) + i] = e[i]
  <2>1. \A i \in 1..Len(e) : Len(abcd) + i \in 1..Len(abcde)
    BY <1>7, <1>8
  <2> QED BY <1>4, <1>6, <2>1
<1>17. /\ Len(abc) = Len(a) + Len(b) + Len(c)
       /\ Len(abcd) = Len(a) + Len(b) + Len(c) + 1
       /\ Len(abcde) = Len(a) + Len(b) + Len(c) + 1 + Len(e)
  BY <1>7, <1>8
<1> QED BY <1>6, <1>8, <1>12, <1>13, <1>14, <1>15, <1>16, <1>17 DEF HasParts

(* Packets, and the sequences that from_bytes may be given: one checksum   *)
(* among bytes, and no less than a header.                                 *)
Checksum == [of : Seq(Byte \cup {EMPTY_CHECKSUM}), spoilt : BOOLEAN]
Packets == [sequence_number : Nat, flags : Nat, advertised_window : Nat,
            checksum : Checksum, data_length : Nat, data : Seq(Byte)]
Header == DATA_AT - 1

IsRaw(raw) ==
    /\ raw \in Seq(Byte \cup Checksum)
    /\ Len(raw) >= Header
    /\ raw[CHECKSUM_AT] \in Checksum
    /\ \A i \in 1..Len(raw) : i # CHECKSUM_AT => raw[i] \in Byte

(* raw has, where the header has its fields, those of p.                   *)
HasFields(raw, p) ==
    /\ \A i \in 1..IntBytes : raw[i] = Bytes(p.sequence_number, IntBytes)[i]
    /\ \A i \in 1..ShortBytes :
          /\ raw[IntBytes + i] = Bytes(p.flags, ShortBytes)[i]
          /\ raw[IntBytes + ShortBytes + i] = Bytes(p.advertised_window, ShortBytes)[i]
          /\ raw[CHECKSUM_AT + i] = Bytes(p.data_length, ShortBytes)[i]
    /\ raw[CHECKSUM_AT] = p.checksum
    /\ \A i \in 1..Len(p.data) : raw[Header + i] = p.data[i]

(* The places of the fields in the header.                                 *)
LEMMA Places ==
    /\ IntBytes \in Nat \ {0} /\ ShortBytes \in Nat \ {0}
    /\ CHECKSUM_AT \in Nat /\ Header \in Nat
    /\ CHECKSUM_AT = IntBytes + ShortBytes + ShortBytes + 1
    /\ Header = CHECKSUM_AT + ShortBytes
    /\ FLAGS_AT = IntBytes + 1 /\ WINDOW_AT = IntBytes + ShortBytes + 1
    /\ LENGTH_AT = CHECKSUM_AT + 1 /\ DATA_AT = Header + 1
BY ByteAssumption DEF CHECKSUM_AT, WINDOW_AT, FLAGS_AT, LENGTH_AT, DATA_AT, Header

(* A packet as bytes.                                                      *)
LEMMA Layout ==
    ASSUME NEW p \in Packets
    PROVE  /\ IsRaw(to_bytes(p))
           /\ Len(to_bytes(p)) = Header + Len(p.data)
           /\ HasFields(to_bytes(p), p)
<1> DEFINE a == Bytes(p.sequence_number, IntBytes)
           b == Bytes(p.flags, ShortBytes)
           c == Bytes(p.advertised_window, ShortBytes)
           e == Bytes(p.data_length, ShortBytes)
           S == Byte \cup Checksum
           s == to_bytes(p)
<1>1. /\ p.sequence_number \in Nat /\ p.flags \in Nat /\ p.advertised_window \in Nat
      /\ p.checksum \in Checksum /\ p.data_length \in Nat /\ p.data \in Seq(Byte)
  BY DEF Packets
<1>2. /\ a \in Seq(Byte) /\ b \in Seq(Byte) /\ c \in Seq(Byte) /\ e \in Seq(Byte)
      /\ Len(a) = IntBytes /\ Len(b) = ShortBytes /\ Len(c) = ShortBytes /\ Len(e) = ShortBytes
  BY <1>1, BytesAre, Places
<1>3. s = a \o b \o c \o <<p.checksum>> \o e \o p.data
  BY DEF to_bytes
<1> HIDE DEF a, b, c, e, s
<1>4. /\ a \in Seq(S) /\ b \in Seq(S) /\ c \in Seq(S) /\ e \in Seq(S) /\ p.data \in Seq(S)
      /\ p.checksum \in S
  BY <1>1, <1>2
<1> HIDE DEF S
<1>5. /\ s \in Seq(S)
      /\ Len(s) = Len(a) + Len(b) + Len(c) + 1 + Len(e) + Len(p.data)
      /\ \A i \in 1..Len(a) : s[i] = a[i]
      /\ \A i \in 1..Len(b) : s[Len(a) + i] = b[i]
      /\ \A i \in 1..Len(c) : s[Len(a) + Len(b) + i] = c[i]
      /\ s[Len(a) + Len(b) + Len(c) + 1] = p.checksum
      /\ \A i \in 1..Len(e) : s[Len(a) + Len(b) + Len(c) + 1 + i] = e[i]
      /\ \A i \in 1..Len(p.data) : s[Len(a) + Len(b) + Len(c) + 1 + Len(e) + i] = p.data[i]
  <2> DEFINE d == p.checksum
             f == p.data
  <2>1. d \in S /\ f \in Seq(S) /\ s = a \o b \o c \o <<d>> \o e \o f
    BY <1>3, <1>4
  <2> HIDE DEF d, f
  <2>2. HasParts(s, S, a, b, c, d, e, f)
    BY <1>4, <2>1, SixParts
  <2> QED BY <2>2 DEF d, f, HasParts
<1>6. /\ Len(s) = Header + Len(p.data)
      /\ \A i \in 1..IntBytes : s[i] = a[i]
      /\ \A i \in 1..ShortBytes : s[IntBytes + i] = b[i]
      /\ \A i \in 1..ShortBytes : s[IntBytes + ShortBytes + i] = c[i]
      /\ s[CHECKSUM_AT] = p.checksum
      /\ \A i \in 1..ShortBytes : s[CHECKSUM_AT + i] = e[i]
      /\ \A i \in 1..Len(p.data) : s[Header + i] = p.data[i]
  <2>1. Len(s) = Header + Len(p.data)
    BY <1>2, <1>5, Places, LenProperties
  <2> QED BY <1>2, <1>5, <2>1, Places
<1>7. HasFields(s, p)
  BY <1>6 DEF HasFields, a, b, c, e
<1>8. Len(p.data) \in Nat /\ Header \in Nat /\ Len(s) = Header + Len(p.data)
  BY <1>1, <1>6, LenProperties, Places
<1>9. ASSUME NEW i \in 1..Len(s), i # CHECKSUM_AT PROVE s[i] \in Byte
  <2>1. CASE i <= IntBytes
    <3>1. i \in 1..IntBytes
      BY <2>1
    <3> QED BY <1>2, <1>6, <3>1, ElementOfSeq
  <2>2. CASE i > IntBytes /\ i <= IntBytes + ShortBytes
    <3>1. i - IntBytes \in 1..ShortBytes /\ IntBytes + (i - IntBytes) = i
      BY <2>2, Places
    <3> QED BY <1>2, <1>6, <3>1, ElementOfSeq
  <2>3. CASE i > IntBytes + ShortBytes /\ i < CHECKSUM_AT
    <3> DEFINE j == i - (IntBytes + ShortBytes)
    <3>1. j \in 1..ShortBytes /\ IntBytes + ShortBytes + j = i
      BY <2>3, Places
    <3> HIDE DEF j
    <3>2. s[i] = c[j] /\ c[j] \in Byte
      BY <1>2, <1>6, <3>1, ElementOfSeq
    <3> QED BY <3>2
  <2>4. CASE i > CHECKSUM_AT /\ i <= Header
    <3>1. i - CHECKSUM_AT \in 1..ShortBytes /\ CHECKSUM_AT + (i - CHECKSUM_AT) = i
      BY <2>4, Places
    <3> QED BY <1>2, <1>6, <3>1, ElementOfSeq
  <2>5. CASE i > Header
    <3>1. i - Header \in 1..Len(p.data) /\ Header + (i - Header) = i
      BY <1>8, <2>5
    <3> QED BY <1>1, <1>6, <3>1, ElementOfSeq
  <2> QED BY <1>9, <2>1, <2>2, <2>3, <2>4, <2>5, Places
<1>10. Len(s) >= Header
  BY <1>8
<1>11. IsRaw(s)
  BY <1>1, <1>5, <1>6, <1>9, <1>10 DEF IsRaw, S
<1> QED BY <1>6, <1>7, <1>11 DEF s

(* The lesser of two numbers.                                              *)
LEMMA MinOfTwo ==
    ASSUME NEW x \in Int, NEW y \in Int
    PROVE  Min({x, y}) = IF x <= y THEN x ELSE y
<1> DEFINE m == IF x <= y THEN x ELSE y
<1>1. m \in {x, y} /\ \A z \in {x, y} : m <= z
  OBVIOUS
<1>2. \A k \in {x, y} : (\A z \in {x, y} : k <= z) => k = m
  OBVIOUS
<1> HIDE DEF m
<1>3. Min({x, y}) = m
  BY <1>1, <1>2 DEF Min
<1> QED BY <1>3 DEF m

(* A field beside the checksum is a number that fits, of the bytes there.  *)
Holds(x, raw, at, w) ==
    /\ x \in Nat
    /\ Fits(x, w)
    /\ \A i \in 1..w : Bytes(x, w)[i] = raw[at + i]

(* Field holds what the bytes say, if the checksum is not among them.      *)
LEMMA FieldIs ==
    ASSUME NEW raw, IsRaw(raw), NEW at \in Nat, NEW w \in Nat,
           at + w <= Len(raw), CHECKSUM_AT <= at \/ CHECKSUM_AT > at + w
    PROVE  Holds(Field(raw, at + 1, w), raw, at, w)
<1> DEFINE s == SubSeq(raw, at + 1, (at + 1) + w - 1)
<1>1. raw \in Seq(Byte \cup Checksum) /\ Len(raw) \in Nat /\ CHECKSUM_AT \in Nat
  BY LenProperties, Places DEF IsRaw
<1>2. /\ s \in Seq(Byte \cup Checksum) /\ Len(s) = w
      /\ \A i \in 1..w : s[i] = raw[at + i]
  BY <1>1
<1>3. ASSUME NEW i \in 1..w PROVE s[i] \in Byte
  <2>1. at + i \in 1..Len(raw) /\ at + i # CHECKSUM_AT
    BY <1>1
  <2> HIDE DEF s
  <2> QED BY <1>2, <2>1 DEF IsRaw
<1> HIDE DEF s
<1>4. s \in Seq(Byte)
  BY <1>2, <1>3
<1>5. Number(s) \in Nat /\ Fits(Number(s), w) /\ Bytes(Number(s), w) = s
  BY <1>2, <1>4, NumberFits, BytesOfNumber
<1>6. Field(raw, at + 1, w) = Number(s)
  BY DEF Field, s
<1> QED BY <1>2, <1>5, <1>6 DEF Holds

(* The numbers of a packet fit their fields.                               *)
Fitting(p) == /\ Fits(p.sequence_number, IntBytes)
              /\ Fits(p.flags, ShortBytes)
              /\ Fits(p.advertised_window, ShortBytes)
              /\ Fits(p.data_length, ShortBytes)

(* Whatever the bytes, from_bytes makes of them a packet whose numbers     *)
(* fit.                                                                    *)
LEMMA FromBytes ==
    ASSUME NEW raw, IsRaw(raw)
    PROVE  /\ from_bytes(raw) \in Packets
           /\ Fitting(from_bytes(raw))
           /\ HasFields(raw, from_bytes(raw))
           /\ LET n == from_bytes(raw).data_length
                  m == Len(raw) - Header
              IN  Len(from_bytes(raw).data) = IF n <= m THEN n ELSE m
<1> DEFINE p == from_bytes(raw)
           n == p.data_length
           m == Len(raw) - Header
           k == IF n <= m THEN n ELSE m
<1>1. /\ raw \in Seq(Byte \cup Checksum) /\ Len(raw) \in Nat /\ Len(raw) >= Header
      /\ raw[CHECKSUM_AT] \in Checksum
  BY LenProperties DEF IsRaw
<1>2. /\ p.sequence_number = Field(raw, 1, IntBytes)
      /\ p.flags = Field(raw, FLAGS_AT, ShortBytes)
      /\ p.advertised_window = Field(raw, WINDOW_AT, ShortBytes)
      /\ p.checksum = raw[CHECKSUM_AT]
      /\ n = Field(raw, LENGTH_AT, ShortBytes)
      /\ p.data = SubSeq(raw, DATA_AT, Min({DATA_AT + n - 1, Len(raw)}))
      /\ p = [sequence_number |-> p.sequence_number, flags |-> p.flags,
              advertised_window |-> p.advertised_window, checksum |-> p.checksum,
              data_length |-> p.data_length, data |-> p.data]
  BY DEF from_bytes
<1> HIDE DEF p
<1>3. Holds(p.sequence_number, raw, 0, IntBytes)
  <2>1. 0 + IntBytes <= Len(raw) /\ CHECKSUM_AT > 0 + IntBytes /\ 0 + 1 = 1
    BY <1>1, Places
  <2>2. Holds(Field(raw, 0 + 1, IntBytes), raw, 0, IntBytes)
    BY <2>1, FieldIs, Places
  <2> QED BY <1>2, <2>1, <2>2
<1>4. Holds(p.flags, raw, IntBytes, ShortBytes)
  <2>1. /\ IntBytes + ShortBytes <= Len(raw) /\ CHECKSUM_AT > IntBytes + ShortBytes
        /\ FLAGS_AT = IntBytes + 1
    BY <1>1, Places
  <2>2. Holds(Field(raw, IntBytes + 1, ShortBytes), raw, IntBytes, ShortBytes)
    BY <2>1, FieldIs, Places
  <2> QED BY <1>2, <2>1, <2>2
<1>5. Holds(p.advertised_window, raw, IntBytes + ShortBytes, ShortBytes)
  <2> DEFINE at == IntBytes + ShortBytes
  <2>1. /\ at \in Nat /\ at + ShortBytes <= Len(raw) /\ CHECKSUM_AT > at + ShortBytes
        /\ WINDOW_AT = at + 1
    BY <1>1, Places
  <2> HIDE DEF at
  <2>2. Holds(Field(raw, at + 1, ShortBytes), raw, at, ShortBytes)
    BY <2>1, FieldIs, Places
  <2> QED BY <1>2, <2>1, <2>2 DEF at
<1>6. Holds(n, raw, CHECKSUM_AT, ShortBytes)
  <2>1. /\ CHECKSUM_AT \in Nat /\ CHECKSUM_AT + ShortBytes <= Len(raw)
        /\ LENGTH_AT = CHECKSUM_AT + 1
    BY <1>1, Places
  <2>2. Holds(Field(raw, CHECKSUM_AT + 1, ShortBytes), raw, CHECKSUM_AT, ShortBytes)
    BY <2>1, FieldIs, Places
  <2> QED BY <1>2, <2>1, <2>2
<1> HIDE DEF n
<1>n. n \in Nat
  BY <1>6 DEF Holds
<1>7. /\ p.data \in Seq(Byte) /\ Len(p.data) = k
      /\ \A i \in 1..k : p.data[i] = raw[Header + i]
  <2>1. m \in Nat /\ Header \in Nat /\ Len(raw) = Header + m
    BY <1>1, Places
  <2>2. DATA_AT = Header + 1 /\ DATA_AT + n - 1 = Header + n
    BY <1>n, <2>1, Places
  <2>3. Min({Header + n, Len(raw)}) = Header + k
    BY <1>n, <2>1, MinOfTwo
  <2> HIDE DEF m
  <2>4. k \in Nat /\ k <= m
    BY <1>n, <2>1
  <2>5. p.data = SubSeq(raw, Header + 1, Header + k)
    BY <1>2, <2>2, <2>3
  <2> HIDE DEF k
  <2>6. /\ p.data \in Seq(Byte \cup Checksum) /\ Len(p.data) = k
        /\ \A i \in 1..k : p.data[i] = raw[Header + i]
    <3> DEFINE t == SubSeq(raw, Header + 1, Header + k)
    <3>1. /\ t \in Seq(Byte \cup Checksum) /\ Len(t) = k
          /\ \A i \in 1..k : t[i] = raw[Header + i]
      BY <1>1, <2>1, <2>4
    <3> HIDE DEF t
    <3>2. p.data = t
      BY <2>5 DEF t
    <3> QED BY <3>1, <3>2
  <2>7. ASSUME NEW i \in 1..k PROVE p.data[i] \in Byte
    <3>1. Header + i \in 1..Len(raw) /\ Header + i # CHECKSUM_AT
      BY <2>1, <2>4, Places
    <3> QED BY <2>6, <3>1 DEF IsRaw
  <2>8. p.data \in Seq(Byte)
    BY <2>6, <2>7
  <2> QED BY <2>6, <2>8
<1>8. p \in Packets /\ Fitting(p)
  BY <1>1, <1>2, <1>3, <1>4, <1>5, <1>6, <1>7 DEF Packets, Fitting, Holds, n
<1>9. HasFields(raw, p)
  <2>1. \A i \in 1..IntBytes : 0 + i = i
    BY Places
  <2>2. \A i \in 1..IntBytes : raw[i] = Bytes(p.sequence_number, IntBytes)[i]
    BY <1>3, <2>1 DEF Holds
  <2> HIDE DEF m, k
  <2> QED BY <1>2, <1>4, <1>5, <1>6, <1>7, <2>2 DEF HasFields, Holds, n
<1> QED BY <1>7, <1>8, <1>9 DEF n, p

-----------------------------------------------------------------------------
(* The checksum.                                                           *)

(* Two packets with the same bytes in the same fields are the same.        *)
LEMMA SameFields ==
    ASSUME NEW p \in Packets, NEW r \in Packets, Fitting(p), Fitting(r), NEW raw,
           HasFields(raw, p), HasFields(raw, r), Len(p.data) = Len(r.data)
    PROVE  p = r
<1>1. \A x, y, w \in Nat :
         Fits(x, w) /\ Fits(y, w) /\ (\A i \in 1..w : Bytes(x, w)[i] = Bytes(y, w)[i]) => x = y
  <2> SUFFICES ASSUME NEW x \in Nat, NEW y \in Nat, NEW w \in Nat, Fits(x, w), Fits(y, w),
                      \A i \in 1..w : Bytes(x, w)[i] = Bytes(y, w)[i]
               PROVE  x = y
    OBVIOUS
  <2>1. Bytes(x, w) = Bytes(y, w)
    BY DEF Bytes
  <2> QED BY <2>1, BytesTell
<1>2. /\ p.sequence_number \in Nat /\ p.flags \in Nat /\ p.advertised_window \in Nat
      /\ p.data_length \in Nat /\ p.data \in Seq(Byte)
      /\ r.sequence_number \in Nat /\ r.flags \in Nat /\ r.advertised_window \in Nat
      /\ r.data_length \in Nat /\ r.data \in Seq(Byte)
  BY DEF Packets
<1>3. p.sequence_number = r.sequence_number
  <2>1. \A i \in 1..IntBytes :
           Bytes(p.sequence_number, IntBytes)[i] = Bytes(r.sequence_number, IntBytes)[i]
    BY DEF HasFields
  <2>2. Fits(p.sequence_number, IntBytes) /\ Fits(r.sequence_number, IntBytes) /\ IntBytes \in Nat
    BY Places DEF Fitting
  <2> QED BY <1>1, <1>2, <2>1, <2>2
<1>4. p.flags = r.flags
  <2>1. ASSUME NEW i \in 1..ShortBytes
        PROVE  Bytes(p.flags, ShortBytes)[i] = Bytes(r.flags, ShortBytes)[i]
    <3>1. raw[IntBytes + i] = Bytes(p.flags, ShortBytes)[i]
      BY DEF HasFields
    <3>2. raw[IntBytes + i] = Bytes(r.flags, ShortBytes)[i]
      BY DEF HasFields
    <3> QED BY <3>1, <3>2
  <2>2. Fits(p.flags, ShortBytes) /\ Fits(r.flags, ShortBytes) /\ ShortBytes \in Nat
    BY Places DEF Fitting
  <2> QED BY <1>1, <1>2, <2>1, <2>2
<1>5. p.advertised_window = r.advertised_window
  <2>1. ASSUME NEW i \in 1..ShortBytes
        PROVE  Bytes(p.advertised_window, ShortBytes)[i] = Bytes(r.advertised_window, ShortBytes)[i]
    <3>1. raw[IntBytes + ShortBytes + i] = Bytes(p.advertised_window, ShortBytes)[i]
      BY DEF HasFields
    <3>2. raw[IntBytes + ShortBytes + i] = Bytes(r.advertised_window, ShortBytes)[i]
      BY DEF HasFields
    <3> QED BY <3>1, <3>2
  <2>2. Fits(p.advertised_window, ShortBytes) /\ Fits(r.advertised_window, ShortBytes) /\ ShortBytes \in Nat
    BY Places DEF Fitting
  <2> QED BY <1>1, <1>2, <2>1, <2>2
<1>6. p.data_length = r.data_length
  <2>1. ASSUME NEW i \in 1..ShortBytes
        PROVE  Bytes(p.data_length, ShortBytes)[i] = Bytes(r.data_length, ShortBytes)[i]
    <3>1. raw[CHECKSUM_AT + i] = Bytes(p.data_length, ShortBytes)[i]
      BY DEF HasFields
    <3>2. raw[CHECKSUM_AT + i] = Bytes(r.data_length, ShortBytes)[i]
      BY DEF HasFields
    <3> QED BY <3>1, <3>2
  <2>2. Fits(p.data_length, ShortBytes) /\ Fits(r.data_length, ShortBytes) /\ ShortBytes \in Nat
    BY Places DEF Fitting
  <2> QED BY <1>1, <1>2, <2>1, <2>2
<1>7. p.checksum = r.checksum
  BY DEF HasFields
<1>8. p.data = r.data
  <2>1. \A i \in 1..Len(p.data) : p.data[i] = r.data[i]
    BY DEF HasFields
  <2>2. \A x, y \in Seq(Byte) : Len(x) = Len(y) /\ (\A i \in 1..Len(x) : x[i] = y[i]) => x = y
    OBVIOUS
  <2> QED BY <1>2, <2>1, <2>2
<1> QED BY <1>3, <1>4, <1>5, <1>6, <1>7, <1>8 DEF Packets

(* A packet with another checksum.                                         *)
LEMMA WithChecksum ==
    ASSUME NEW p \in Packets, NEW c \in Checksum
    PROVE  LET r == [p EXCEPT !.checksum = c]
           IN  /\ r \in Packets /\ r.checksum = c
               /\ r.sequence_number = p.sequence_number /\ r.flags = p.flags
               /\ r.advertised_window = p.advertised_window
               /\ r.data_length = p.data_length /\ r.data = p.data
BY DEF Packets

(* The digest of a packet is of bytes and the empty checksum.              *)
Blank(p) == [p EXCEPT !.checksum = EMPTY_CHECKSUM]

(* The packet without its checksum is a packet that differs in nothing     *)
(* else.                                                                   *)
LEMMA BlankIs ==
    ASSUME NEW p \in Packets
    PROVE  /\ EMPTY_CHECKSUM \in Checksum
           /\ Blank(p) \in Packets /\ Blank(p).checksum = EMPTY_CHECKSUM
           /\ Blank(p).sequence_number = p.sequence_number /\ Blank(p).flags = p.flags
           /\ Blank(p).advertised_window = p.advertised_window
           /\ Blank(p).data_length = p.data_length /\ Blank(p).data = p.data
           /\ calculate_original_checksum(p) = Digest(to_bytes(Blank(p)))
           /\ calculate_original_checksum(p) \in Checksum
<1>1. EMPTY_CHECKSUM \in Checksum
  BY DEF Checksum, EMPTY_CHECKSUM, Digest
<1>2. /\ Blank(p) \in Packets /\ Blank(p).checksum = EMPTY_CHECKSUM
      /\ Blank(p).sequence_number = p.sequence_number /\ Blank(p).flags = p.flags
      /\ Blank(p).advertised_window = p.advertised_window
      /\ Blank(p).data_length = p.data_length /\ Blank(p).data = p.data
  BY <1>1, WithChecksum DEF Blank
<1>3. calculate_original_checksum(p) = Digest(to_bytes(Blank(p)))
  BY DEF calculate_original_checksum, Blank
<1> DEFINE s == to_bytes(Blank(p))
<1>4. IsRaw(s) /\ s[CHECKSUM_AT] = EMPTY_CHECKSUM
  BY <1>2, Layout DEF HasFields
<1> HIDE DEF s
<1>5. s \in Seq(Byte \cup {EMPTY_CHECKSUM})
  <2>1. \A i \in 1..Len(s) : s[i] \in Byte \cup {EMPTY_CHECKSUM}
    BY <1>4 DEF IsRaw
  <2>2. s \in Seq(Byte \cup Checksum)
    BY <1>4 DEF IsRaw
  <2> QED BY <2>1, <2>2
<1>6. Digest(s) \in Checksum
  BY <1>5 DEF Digest, Checksum
<1> QED BY <1>1, <1>2, <1>3, <1>6 DEF s

(* What a sender makes of a packet.                                        *)
Sealed(p) == generate_packet_from_empty_checksum(p)

(* The packet with its checksum differs in nothing else, and passes the    *)
(* test.                                                                   *)
LEMMA SealedIs ==
    ASSUME NEW p \in Packets
    PROVE  /\ Sealed(p) \in Packets
           /\ Sealed(p).sequence_number = p.sequence_number /\ Sealed(p).flags = p.flags
           /\ Sealed(p).advertised_window = p.advertised_window
           /\ Sealed(p).data_length = p.data_length /\ Sealed(p).data = p.data
           /\ Sealed(p).checksum = Digest(to_bytes(Blank(p)))
           /\ Intact(Sealed(p))
<1> DEFINE c == calculate_original_checksum(p)
<1>1. c \in Checksum /\ c = Digest(to_bytes(Blank(p)))
  BY BlankIs
<1>2. Sealed(p) = [p EXCEPT !.checksum = c]
  BY DEF Sealed, generate_packet_from_empty_checksum
<1> HIDE DEF c
<1>3. /\ Sealed(p) \in Packets /\ Sealed(p).checksum = c
      /\ Sealed(p).sequence_number = p.sequence_number /\ Sealed(p).flags = p.flags
      /\ Sealed(p).advertised_window = p.advertised_window
      /\ Sealed(p).data_length = p.data_length /\ Sealed(p).data = p.data
  BY <1>1, <1>2, WithChecksum
<1>4. Blank(Sealed(p)) = Blank(p)
  BY <1>2 DEF Blank, Packets
<1>5. Intact(Sealed(p))
  BY <1>1, <1>3, <1>4, BlankIs DEF Intact
<1> QED BY <1>1, <1>3, <1>5

(* A packet that arrives as it was sent is read as it was sent.            *)
Sound(p) == p \in Packets /\ Fitting(p) /\ p.data_length = Len(p.data)

(* A packet whose numbers fit is read as it was sent.                      *)
LEMMA SentIsRead ==
    ASSUME NEW q, Sound(q)
    PROVE  from_bytes(to_bytes(Sealed(q))) = Sealed(q)
<1> DEFINE r == Sealed(q)
           raw == to_bytes(r)
           p == from_bytes(raw)
<1>1. /\ q \in Packets /\ r \in Packets /\ Fitting(r) /\ r.data_length = Len(r.data)
      /\ r.data_length \in Nat
  <2>1. q \in Packets /\ Fitting(q) /\ q.data_length = Len(q.data)
    BY DEF Sound
  <2>2. /\ r \in Packets
        /\ r.sequence_number = q.sequence_number /\ r.flags = q.flags
        /\ r.advertised_window = q.advertised_window
        /\ r.data_length = q.data_length /\ r.data = q.data
    BY <2>1, SealedIs
  <2> HIDE DEF r
  <2> QED BY <2>1, <2>2 DEF Fitting, Packets
<1> HIDE DEF r
<1>2. IsRaw(raw) /\ Len(raw) = Header + Len(r.data) /\ HasFields(raw, r)
  BY <1>1, Layout
<1> HIDE DEF raw
<1>3. /\ p \in Packets /\ Fitting(p) /\ HasFields(raw, p)
      /\ Len(p.data) = IF p.data_length <= Len(raw) - Header THEN p.data_length
                       ELSE Len(raw) - Header
  BY <1>2, FromBytes
<1> HIDE DEF p
<1>4. p.data_length = r.data_length
  <2>1. \A i \in 1..ShortBytes :
           Bytes(p.data_length, ShortBytes)[i] = Bytes(r.data_length, ShortBytes)[i]
    BY <1>2, <1>3 DEF HasFields
  <2>2. Bytes(p.data_length, ShortBytes) = Bytes(r.data_length, ShortBytes)
    BY <2>1 DEF Bytes
  <2>3. p.data_length \in Nat
    BY <1>3 DEF Packets
  <2> QED BY <1>1, <1>3, <2>2, <2>3, BytesTell, Places DEF Fitting
<1>5. Len(p.data) = Len(r.data)
  <2>1. Header \in Nat
    BY Places
  <2>2. Len(raw) - Header = r.data_length
    BY <1>1, <1>2, <2>1
  <2> QED BY <1>1, <1>3, <1>4, <2>2
<1>6. p = r
  BY <1>1, <1>2, <1>3, <1>5, SameFields
<1> QED BY <1>6 DEF p, raw, r

(* A packet of the length sent that passes the test is the packet sent.    *)
LEMMA IntactIsSent ==
    ASSUME NEW q \in Packets, NEW raw, IsRaw(raw), Len(raw) = Len(to_bytes(Sealed(q))),
           raw[CHECKSUM_AT].spoilt \/ raw[CHECKSUM_AT] = Sealed(q).checksum,
           Intact(from_bytes(raw))
    PROVE  raw = to_bytes(Sealed(q))
<1> DEFINE p == from_bytes(raw)
           s == to_bytes(Sealed(q))
           bp == to_bytes(Blank(p))
           bq == to_bytes(Blank(q))
<1>1. p \in Packets /\ HasFields(raw, p)
  BY FromBytes
<1>2. /\ Sealed(q) \in Packets /\ Sealed(q).checksum = Digest(bq)
      /\ IsRaw(s) /\ HasFields(s, Sealed(q)) /\ Len(s) = Header + Len(q.data)
      /\ Sealed(q).sequence_number = q.sequence_number /\ Sealed(q).flags = q.flags
      /\ Sealed(q).advertised_window = q.advertised_window
      /\ Sealed(q).data_length = q.data_length /\ Sealed(q).data = q.data
  BY SealedIs, Layout
<1>3. raw[CHECKSUM_AT] = Digest(bp)
  BY <1>1, BlankIs DEF Intact, HasFields
<1>4. raw[CHECKSUM_AT] = Digest(bq) /\ bp = bq
  BY <1>2, <1>3 DEF Digest
<1>5. /\ HasFields(bp, Blank(p)) /\ Len(bp) = Header + Len(p.data)
      /\ HasFields(bp, Blank(q)) /\ Len(bp) = Header + Len(q.data)
  BY <1>1, <1>4, BlankIs, Layout
<1> HIDE DEF p, s, bp, bq
<1>6. /\ p.data \in Seq(Byte) /\ q.data \in Seq(Byte) /\ Header \in Nat
      /\ Len(p.data) \in Nat /\ Len(q.data) \in Nat
  BY <1>1, LenProperties, Places DEF Packets
<1>7. Len(p.data) = Len(q.data) /\ Len(raw) = Len(s) /\ Len(s) = Header + Len(q.data)
  <2>1. Len(p.data) = Len(q.data)
    BY <1>5, <1>6
  <2> QED BY <1>2, <2>1 DEF s
<1>8. /\ \A i \in 1..IntBytes : raw[i] = s[i]
      /\ \A i \in 1..ShortBytes :
            /\ raw[IntBytes + i] = s[IntBytes + i]
            /\ raw[IntBytes + ShortBytes + i] = s[IntBytes + ShortBytes + i]
            /\ raw[CHECKSUM_AT + i] = s[CHECKSUM_AT + i]
      /\ raw[CHECKSUM_AT] = s[CHECKSUM_AT]
      /\ \A i \in 1..Len(q.data) : raw[Header + i] = s[Header + i]
  <2>1. /\ \A i \in 1..IntBytes : raw[i] = Bytes(p.sequence_number, IntBytes)[i]
        /\ \A i \in 1..ShortBytes :
              /\ raw[IntBytes + i] = Bytes(p.flags, ShortBytes)[i]
              /\ raw[IntBytes + ShortBytes + i] = Bytes(p.advertised_window, ShortBytes)[i]
              /\ raw[CHECKSUM_AT + i] = Bytes(p.data_length, ShortBytes)[i]
        /\ \A i \in 1..Len(q.data) : raw[Header + i] = p.data[i]
    BY <1>1, <1>7 DEF HasFields
  <2>2. /\ \A i \in 1..IntBytes : s[i] = Bytes(q.sequence_number, IntBytes)[i]
        /\ \A i \in 1..ShortBytes :
              /\ s[IntBytes + i] = Bytes(q.flags, ShortBytes)[i]
              /\ s[IntBytes + ShortBytes + i] = Bytes(q.advertised_window, ShortBytes)[i]
              /\ s[CHECKSUM_AT + i] = Bytes(q.data_length, ShortBytes)[i]
        /\ \A i \in 1..Len(q.data) : s[Header + i] = q.data[i]
        /\ s[CHECKSUM_AT] = Digest(bq)
    BY <1>2 DEF HasFields
  <2>3. /\ \A i \in 1..IntBytes :
              Bytes(p.sequence_number, IntBytes)[i] = Bytes(q.sequence_number, IntBytes)[i]
        /\ \A i \in 1..ShortBytes :
              /\ Bytes(p.flags, ShortBytes)[i] = Bytes(q.flags, ShortBytes)[i]
              /\ Bytes(p.advertised_window, ShortBytes)[i]
                    = Bytes(q.advertised_window, ShortBytes)[i]
              /\ Bytes(p.data_length, ShortBytes)[i] = Bytes(q.data_length, ShortBytes)[i]
        /\ \A i \in 1..Len(q.data) : p.data[i] = q.data[i]
    BY <1>1, <1>5, <1>7, BlankIs DEF HasFields
  <2> QED BY <1>4, <2>1, <2>2, <2>3
<1>9. ASSUME NEW i \in 1..Len(raw) PROVE raw[i] = s[i]
  <2>0. /\ i \in Nat /\ 1 <= i /\ i <= Header + Len(q.data)
    BY <1>7
  <2>1. CASE i <= IntBytes
    <3>1. i \in 1..IntBytes
      BY <2>1
    <3> QED BY <1>8, <3>1
  <2>2. CASE i > IntBytes /\ i <= IntBytes + ShortBytes
    <3>1. i - IntBytes \in 1..ShortBytes /\ IntBytes + (i - IntBytes) = i
      BY <2>2, Places
    <3> QED BY <1>8, <3>1
  <2>3. CASE i > IntBytes + ShortBytes /\ i < CHECKSUM_AT
    <3> DEFINE j == i - (IntBytes + ShortBytes)
    <3>1. j \in 1..ShortBytes /\ IntBytes + ShortBytes + j = i
      BY <2>3, Places
    <3> HIDE DEF j
    <3> QED BY <1>8, <3>1
  <2>4. CASE i > CHECKSUM_AT /\ i <= Header
    <3>1. i - CHECKSUM_AT \in 1..ShortBytes /\ CHECKSUM_AT + (i - CHECKSUM_AT) = i
      BY <2>4, Places
    <3> QED BY <1>8, <3>1
  <2>5. CASE i > Header
    <3> DEFINE j == i - Header
               n == Len(q.data)
    <3>1. n \in Nat /\ Header \in Nat
      BY <1>6
    <3>2. i \in Nat /\ i > Header /\ i <= Header + n
      BY <2>0, <2>5
    <3>3. j \in 1..n /\ Header + j = i
      <4> HIDE DEF n
      <4> QED BY <3>1, <3>2
    <3> HIDE DEF j
    <3>4. raw[Header + j] = s[Header + j]
      BY <1>8, <3>3
    <3> QED BY <3>3, <3>4
  <2>6. CASE i = CHECKSUM_AT
    BY <1>8, <2>6
  <2>7. \/ i <= IntBytes
        \/ i > IntBytes /\ i <= IntBytes + ShortBytes
        \/ i > IntBytes + ShortBytes /\ i < CHECKSUM_AT
        \/ i = CHECKSUM_AT
        \/ i > CHECKSUM_AT /\ i <= Header
        \/ i > Header
    BY <2>0, Places
  <2> QED BY <2>1, <2>2, <2>3, <2>4, <2>5, <2>6, <2>7
<1>10. raw \in Seq(Byte \cup Checksum) /\ s \in Seq(Byte \cup Checksum)
  BY <1>2 DEF IsRaw, s
<1>11. raw = s
  BY <1>7, <1>9, <1>10
<1> QED BY <1>11 DEF s

-----------------------------------------------------------------------------
(* The packets of the two processes.                                       *)

(* g sums every subset of D, one member after the other.                   *)
IsSum(g, D) ==
    /\ g[{}] = 0
    /\ \A S \in (SUBSET D) \ {{}} :
          g[S] = (CHOOSE x \in S : TRUE) + g[S \ {CHOOSE x \in S : TRUE}]

(* SumSet is a sum over a function that is defined by recursion.           *)
LEMMA SumIs ==
    ASSUME NEW D, D \subseteq Nat, IsFiniteSet(D)
    PROVE  \E g : IsSum(g, D) /\ SumSet(D) = g[D]
<1> DEFINE first(S) == CHOOSE x \in S : TRUE
           pick == [S \in (SUBSET D) \ {{}} |-> first(S)]
           step == [x \in D |-> [y \in Nat |-> x + y]]
           IsLoop(g) == g = [S \in SUBSET D |->
                               IF S = {} THEN 0 ELSE first(S) + g[S \ {first(S)}]]
           loop == CHOOSE g : IsLoop(g)
<1>1. SumSet(D) = loop[D]
  BY DEF SumSet, FoldSet, MapThenFoldSet
<1>2. \A S \in (SUBSET D) \ {{}} : first(S) \in S
  OBVIOUS
<1> HIDE DEF first
<1>3. Picks(pick, D) /\ step \in [D -> [Nat -> Nat]]
  <2>1. step \in [D -> [Nat -> Nat]]
    OBVIOUS
  <2>2. \A S \in (SUBSET D) \ {{}} : first(S) \in D
    BY <1>2
  <2>3. Picks(pick, D)
    BY <1>2, <2>2 DEF Picks
  <2> QED BY <2>1, <2>3
<1>4. PICK g \in [SUBSET D -> Nat] : IsFold(g, D, 0, step, pick)
  <2> DEFINE X == Nat
             zero == 0
  <2>1. zero \in X /\ step \in [D -> [X -> X]]
    BY <1>3
  <2> HIDE DEF X, pick, step, zero
  <2>2. \E g \in [SUBSET D -> X] : IsFold(g, D, zero, step, pick)
    BY <1>3, <2>1, FoldIsDefined
  <2> QED BY <2>2 DEF X, zero
<1>5. \A S \in (SUBSET D) \ {{}} : step[pick[S]][g[S \ {pick[S]}]] = first(S) + g[S \ {first(S)}]
  <2> SUFFICES ASSUME NEW S \in (SUBSET D) \ {{}}
               PROVE  step[pick[S]][g[S \ {pick[S]}]] = first(S) + g[S \ {first(S)}]
    OBVIOUS
  <2>1. pick[S] = first(S) /\ first(S) \in D /\ g[S \ {first(S)}] \in Nat
    BY <1>2, <1>4
  <2> QED BY <2>1
<1>6. IsLoop(g)
  <2> HIDE DEF step, pick
  <2> QED BY <1>4, <1>5 DEF IsFold
<1>7. IsLoop(loop)
  <2> HIDE DEF IsLoop
  <2> QED BY <1>6
<1> HIDE DEF loop
<1>8. IsSum(loop, D)
  BY <1>7 DEF IsSum, first
<1> QED BY <1>1, <1>8

(* The sums of one and of two numbers.                                     *)
LEMMA SumOfTwo ==
    ASSUME NEW x \in Nat, NEW y \in Nat
    PROVE  SumSet({x}) = x /\ (x # y => SumSet({x, y}) = x + y)
<1>1. SumSet({x}) = x
  <2>1. PICK g : IsSum(g, {x}) /\ SumSet({x}) = g[{x}]
    <3>1. {x} \subseteq Nat /\ IsFiniteSet({x})
      BY FS_Singleton
    <3> QED BY <3>1, SumIs
  <2>2. (CHOOSE z \in {x} : TRUE) = x /\ {x} \ {x} = {} /\ {x} \in (SUBSET {x}) \ {{}}
    OBVIOUS
  <2>3. g[{x}] = x + g[{x} \ {x}] /\ g[{}] = 0
    BY <2>1, <2>2 DEF IsSum
  <2> QED BY <2>1, <2>2, <2>3
<1>2. ASSUME x # y PROVE SumSet({x, y}) = x + y
  <2>1. PICK g : IsSum(g, {x, y}) /\ SumSet({x, y}) = g[{x, y}]
    <3>1. {x, y} \subseteq Nat /\ IsFiniteSet({x, y})
      <4>1. IsFiniteSet({x} \cup {y})
        BY FS_Singleton, FS_AddElement
      <4> QED BY <4>1
    <3> QED BY <3>1, SumIs
  <2>2. \A z \in {x, y} : g[{z}] = z
    <3> SUFFICES ASSUME NEW z \in {x, y} PROVE g[{z}] = z
      OBVIOUS
    <3>1. (CHOOSE u \in {z} : TRUE) = z /\ {z} \ {z} = {} /\ {z} \in (SUBSET {x, y}) \ {{}}
      OBVIOUS
    <3>2. g[{z}] = z + g[{z} \ {z}] /\ g[{}] = 0
      BY <2>1, <3>1 DEF IsSum
    <3> QED BY <3>1, <3>2
  <2> DEFINE u == CHOOSE z \in {x, y} : TRUE
  <2>3. u \in {x, y} /\ g[{x, y}] = u + g[{x, y} \ {u}]
    BY <2>1 DEF IsSum
  <2> HIDE DEF u
  <2>4. CASE u = x
    <3>1. {x, y} \ {u} = {y}
      BY <1>2, <2>4
    <3> QED BY <2>1, <2>2, <2>3, <2>4, <3>1
  <2>5. CASE u = y
    <3>1. {x, y} \ {u} = {x}
      BY <1>2, <2>5
    <3> QED BY <2>1, <2>2, <2>3, <2>5, <3>1
  <2> QED BY <2>3, <2>4, <2>5
<1> QED BY <1>1, <1>2

(* pack_flags and enum_flags of the flags that are sent.                   *)
LEMMA Flags ==
    /\ pack_flags({SYNCHRONIZATION}) = 1
    /\ pack_flags({ACKNOWLEDGEMENT}) = 2
    /\ pack_flags({ACKNOWLEDGEMENT, ERRORS}) = 18
    /\ enum_flags(1) = {SYNCHRONIZATION}
    /\ enum_flags(2) = {ACKNOWLEDGEMENT}
    /\ enum_flags(18) = {ACKNOWLEDGEMENT, ERRORS}
<1>1. SumSet({1}) = 1 /\ SumSet({2}) = 2 /\ SumSet({2, 16}) = 18
  <2>1. \A x \in Nat : SumSet({x}) = x
    BY SumOfTwo
  <2>2. \A x, y \in Nat : x # y => SumSet({x, y}) = x + y
    BY SumOfTwo
  <2>3. SumSet({2, 16}) = 2 + 16
    BY <2>2
  <2> QED BY <2>1, <2>3
<1>2. /\ (1 \div 1) % 2 = 1 /\ (1 \div 2) % 2 = 0 /\ (1 \div 8) % 2 = 0 /\ (1 \div 16) % 2 = 0
      /\ (2 \div 1) % 2 = 0 /\ (2 \div 2) % 2 = 1 /\ (2 \div 8) % 2 = 0 /\ (2 \div 16) % 2 = 0
      /\ (18 \div 1) % 2 = 0 /\ (18 \div 2) % 2 = 1 /\ (18 \div 8) % 2 = 0 /\ (18 \div 16) % 2 = 1
  OBVIOUS
<1>3. enum_flags(1) = {1} /\ enum_flags(2) = {2} /\ enum_flags(18) = {2, 16}
  BY <1>2 DEF enum_flags, TCPFlag, SYNCHRONIZATION, ACKNOWLEDGEMENT, CONNECTION_CLOSE, ERRORS
<1> QED BY <1>1, <1>3 DEF pack_flags, SYNCHRONIZATION, ACKNOWLEDGEMENT, ERRORS

(* A chunk is bytes, no more than a packet holds, of the input from where  *)
(* it begins.                                                              *)
Start(k) == (k - SyncStart) * SENDER_DATA_SIZE

(* What is in a chunk, and how long it is.                                 *)
LEMMA ChunkIs ==
    ASSUME NEW k \in Nat, k >= SyncStart
    PROVE  /\ Start(k) \in Nat
           /\ Chunk(k) \in Seq(Byte) /\ Len(Chunk(k)) \in 0..SENDER_DATA_SIZE
           /\ Len(Chunk(k)) = IF Start(k) + SENDER_DATA_SIZE <= Len(Text) THEN SENDER_DATA_SIZE
                              ELSE IF Start(k) <= Len(Text) THEN Len(Text) - Start(k) ELSE 0
           /\ \A i \in 1..Len(Chunk(k)) : Chunk(k)[i] = Text[Start(k) + i]
<1> DEFINE a == Start(k)
           n == Len(Text)
           z == SENDER_DATA_SIZE
           m == IF a + z <= n THEN a + z ELSE n
           t == SubSeq(Text, a + 1, m)
<1>1. z \in Nat \ {0} /\ Text \in Seq(Byte) /\ n \in Nat /\ SyncStart \in Nat
  BY TextAssumption, LenProperties DEF Byte
<1>2. a \in Nat
  <2>1. k - SyncStart \in Nat
    BY <1>1
  <2> QED BY <1>1, <2>1, TimesPlus DEF Start
<1>3. Chunk(k) = SubSeq(Text, a + 1, Min({a + z, n}))
  BY DEF Chunk, Start
<1> HIDE DEF a, n, z
<1>4. Min({a + z, n}) = m
  BY <1>1, <1>2, MinOfTwo
<1>5. /\ t \in Seq(Byte)
      /\ Len(t) = IF a + 1 <= m THEN m - a ELSE 0
      /\ \A i \in 1..Len(t) : t[i] = Text[a + i]
  BY <1>1, <1>2 DEF n
<1>6. Len(t) = IF a + z <= n THEN z ELSE IF a <= n THEN n - a ELSE 0
  BY <1>1, <1>2, <1>5
<1>7. Len(t) \in 0..z
  BY <1>1, <1>2, <1>6
<1> HIDE DEF t, m
<1>8. Chunk(k) = t
  BY <1>3, <1>4 DEF t
<1> QED BY <1>2, <1>5, <1>6, <1>7, <1>8 DEF a, n, z

(* The packets the processes send are sound, as far as their number is.    *)
Carries(q, k, flags, data) ==
    /\ Sound(q)
    /\ q.sequence_number = k /\ q.flags = flags /\ q.data = data

(* A new packet is a sound one with its checksum.                          *)
LEMMA NewPacketIs ==
    ASSUME NEW k \in Nat, Fits(k, IntBytes), NEW flags, pack_flags(flags) \in 0..31,
           NEW data \in Seq(Byte), Len(data) <= SENDER_DATA_SIZE
    PROVE  \E q : Carries(q, k, pack_flags(flags), data) /\ NewPacket(k, flags, data) = Sealed(q)
<1> DEFINE f == pack_flags(flags)
           n == Len(data)
           q == [sequence_number |-> k, flags |-> f,
                 advertised_window |-> WindowField, checksum |-> EMPTY_CHECKSUM,
                 data_length |-> n, data |-> data]
<1>1. f \in Nat /\ f < 32 /\ n \in Nat /\ WindowField \in Nat /\ WindowField < 32
  <2>1. f \in 0..31 /\ n \in Nat
    BY LenProperties
  <2> HIDE DEF f, n
  <2> QED BY <2>1 DEF WindowField
<1>2. Power[ShortBytes] \in Nat /\ 32 <= Power[ShortBytes] /\ SENDER_DATA_SIZE < Power[ShortBytes]
      /\ SENDER_DATA_SIZE \in Nat
  BY PowerIsPositive, ByteAssumption, TextAssumption
<1>3. NewPacket(k, flags, data) = Sealed(q)
  BY DEF NewPacket, Sealed
<1> HIDE DEF f, n
<1>4. EMPTY_CHECKSUM \in Checksum
  BY DEF Checksum, EMPTY_CHECKSUM, Digest
<1>5. q \in Packets
  BY <1>1, <1>4 DEF Packets
<1>6. n <= SENDER_DATA_SIZE
  BY DEF n
<1>7. Fitting(q)
  BY <1>1, <1>2, <1>6 DEF Fitting, Fits
<1>8. Carries(q, k, f, data)
  BY <1>5, <1>7 DEF Carries, Sound, n
<1> HIDE DEF q
<1> QED BY <1>3, <1>8 DEF f

(* The packets of data.                                                    *)
LEMMA DataIs ==
    ASSUME NEW k \in Nat, k >= SyncStart, Fits(k, IntBytes)
    PROVE  \E q : Carries(q, k, 1, Chunk(k)) /\ DataPacket(k) = Sealed(q)
<1>1. pack_flags({SYNCHRONIZATION}) = 1 /\ 1 \in 0..31
  BY Flags
<1>2. Chunk(k) \in Seq(Byte) /\ Len(Chunk(k)) <= SENDER_DATA_SIZE
  BY ChunkIs, TextAssumption
<1>3. \E q : Carries(q, k, pack_flags({SYNCHRONIZATION}), Chunk(k))
             /\ NewPacket(k, {SYNCHRONIZATION}, Chunk(k)) = Sealed(q)
  BY <1>1, <1>2, NewPacketIs
<1> QED BY <1>1, <1>3 DEF DataPacket

(* The packets of the two sorts of response.                               *)
LEMMA ResponseIs ==
    ASSUME NEW k \in Nat, Fits(k, IntBytes)
    PROVE  /\ \E q : Carries(q, k, 2, <<>>) /\ AckPacket(k) = Sealed(q)
           /\ \E q : Carries(q, k, 18, <<>>) /\ ErrorPacket(k) = Sealed(q)
<1>1. /\ pack_flags({ACKNOWLEDGEMENT}) = 2 /\ 2 \in 0..31
      /\ pack_flags({ACKNOWLEDGEMENT, ERRORS}) = 18 /\ 18 \in 0..31
  BY Flags
<1>2. <<>> \in Seq(Byte) /\ Len(<<>>) <= SENDER_DATA_SIZE
  BY TextAssumption
<1>3. \E q : Carries(q, k, pack_flags({ACKNOWLEDGEMENT}), <<>>)
             /\ NewPacket(k, {ACKNOWLEDGEMENT}, <<>>) = Sealed(q)
  BY <1>1, <1>2, NewPacketIs
<1>4. \E q : Carries(q, k, pack_flags({ACKNOWLEDGEMENT, ERRORS}), <<>>)
             /\ NewPacket(k, {ACKNOWLEDGEMENT, ERRORS}, <<>>) = Sealed(q)
  BY <1>1, <1>2, NewPacketIs
<1> QED BY <1>1, <1>3, <1>4 DEF AckPacket, ErrorPacket

-----------------------------------------------------------------------------
(* What the emulator makes of packets.                                     *)

(* The sequences raws with some bytes overwritten, none among them.        *)
Damaged(raws) == UNION {{Overwritten(raw, at) : at \in SUBSET DOMAIN raw} : raw \in raws}

(* Whatever was overwritten, the checksum is that of the packet or is      *)
(* spoilt.                                                                 *)
LEMMA DamagedIs ==
    ASSUME NEW q \in Packets, NEW d \in Damaged({to_bytes(Sealed(q))})
    PROVE  /\ IsRaw(d) /\ Len(d) = Len(to_bytes(Sealed(q)))
           /\ d[CHECKSUM_AT].spoilt \/ d[CHECKSUM_AT] = Sealed(q).checksum
<1> DEFINE raw == to_bytes(Sealed(q))
<1>1. IsRaw(raw) /\ raw[CHECKSUM_AT] = Sealed(q).checksum
  BY SealedIs, Layout DEF HasFields
<1>2. PICK at \in SUBSET DOMAIN raw : d = Overwritten(raw, at)
  BY DEF Damaged
<1> HIDE DEF raw
<1>3. /\ raw \in Seq(Byte \cup Checksum) /\ Len(raw) \in Nat /\ DOMAIN raw = 1..Len(raw)
      /\ Len(raw) >= Header /\ CHECKSUM_AT \in 1..Len(raw)
  <2>1. raw \in Seq(Byte \cup Checksum) /\ Len(raw) >= Header
    BY <1>1 DEF IsRaw
  <2>2. Len(raw) \in Nat /\ DOMAIN raw = 1..Len(raw)
    BY <2>1, LenProperties
  <2> QED BY <2>1, <2>2, Places
<1>4. d = [i \in 1..Len(raw) |->
             IF i \notin at THEN raw[i]
             ELSE IF i = CHECKSUM_AT THEN [raw[i] EXCEPT !.spoilt = TRUE] ELSE MangledByte]
  BY <1>2, <1>3 DEF Overwritten
<1>5. [raw[CHECKSUM_AT] EXCEPT !.spoilt = TRUE] \in Checksum
      /\ [raw[CHECKSUM_AT] EXCEPT !.spoilt = TRUE].spoilt
  BY <1>1 DEF IsRaw, Checksum
<1>6. d[CHECKSUM_AT] = IF CHECKSUM_AT \in at THEN [raw[CHECKSUM_AT] EXCEPT !.spoilt = TRUE]
                       ELSE raw[CHECKSUM_AT]
  BY <1>3, <1>4
<1>7. \A i \in 1..Len(raw) : i # CHECKSUM_AT => d[i] \in Byte
  BY <1>1, <1>4, ByteAssumption DEF IsRaw, Byte
<1>8. d[CHECKSUM_AT] \in Checksum
  BY <1>1, <1>5, <1>6 DEF IsRaw
<1>9. \A i \in 1..Len(raw) : d[i] \in Byte \cup Checksum
  BY <1>7, <1>8
<1>10. d \in Seq(Byte \cup Checksum) /\ Len(d) = Len(raw)
  <2>1. d = [i \in 1..Len(raw) |-> d[i]]
    BY <1>4
  <2>2. d \in [1..Len(raw) -> Byte \cup Checksum]
    BY <1>9, <2>1
  <2> QED BY <1>3, <2>2
<1>11. IsRaw(d)
  BY <1>3, <1>7, <1>8, <1>10 DEF IsRaw
<1> QED BY <1>1, <1>5, <1>6, <1>10, <1>11 DEF raw

(* The test tells whether a packet arrives as it was sent; if so, it is    *)
(* read as it was sent.                                                    *)
LEMMA TestTells ==
    ASSUME NEW q, Sound(q), NEW d \in Damaged({to_bytes(Sealed(q))})
    PROVE  /\ Intact(from_bytes(d)) <=> d = to_bytes(Sealed(q))
           /\ Intact(from_bytes(d)) => from_bytes(d) = Sealed(q)
<1>1. q \in Packets
  BY DEF Sound
<1>2. Intact(from_bytes(d)) => d = to_bytes(Sealed(q))
  BY <1>1, DamagedIs, IntactIsSent
<1>3. from_bytes(to_bytes(Sealed(q))) = Sealed(q) /\ Intact(Sealed(q))
  BY <1>1, SentIsRead, SealedIs
<1> QED BY <1>2, <1>3

(* What arrives of a packet is some copies of what became of it.           *)
LEMMA FateIs ==
    ASSUME NEW raw, NEW fate \in Fates(raw)
    PROVE  /\ fate = <<>> \/ \E c \in Damaged({raw}) : fate = <<c>> \/ fate = <<c, c>>
           /\ fate \in Seq(Damaged({raw}))
<1>1. Mangles(raw) \subseteq Damaged({raw})
  BY DEF Mangles, Damaged, kSubset
<1>2. fate = <<>> \/ \E c \in Mangles(raw) : fate = <<c>> \/ fate = <<c, c>>
  BY DEF Fates
<1>3. fate = <<>> \/ \E c \in Damaged({raw}) : fate = <<c>> \/ fate = <<c, c>>
  BY <1>1, <1>2
<1>4. fate \in Seq(Damaged({raw}))
  <2> DEFINE D == Damaged({raw})
  <2>1. fate = <<>> \/ \E c \in D : fate = <<c>> \/ fate = <<c, c>>
    BY <1>3
  <2> HIDE DEF D
  <2>2. fate \in Seq(D)
    <3>1. CASE fate = <<>>
      <4>1. <<>> \in Seq(D)
        OBVIOUS
      <4> QED BY <3>1, <4>1
    <3>2. ASSUME NEW c \in D, fate = <<c>>
          PROVE  fate \in Seq(D)
      BY <3>2
    <3>3. ASSUME NEW c \in D, fate = <<c, c>>
          PROVE  fate \in Seq(D)
      BY <3>3
    <3> QED BY <2>1, <3>1, <3>2, <3>3
  <2> QED BY <2>2 DEF D
<1> QED BY <1>3, <1>4

(* The buffer takes nothing that was not in the wire.                      *)
LEMMA DropTailOf ==
    ASSUME NEW S, NEW wire \in Seq(S)
    PROVE  DropTail(wire) \in Seq(S)
BY WireAssumption DEF DropTail

(* Transmit puts on a wire nothing but what becomes of the packet.         *)
LEMMA TransmitIs ==
    ASSUME NEW S, NEW wire \in Seq(S), NEW raw, Damaged({raw}) \subseteq S,
           NEW newWire, Transmit(wire, raw, newWire)
    PROVE  newWire \in Seq(S)
<1>1. PICK fate \in Fates(raw) : newWire = DropTail(wire \o fate)
  BY DEF Transmit
<1>2. fate \in Seq(S)
  <2>1. fate \in Seq(Damaged({raw}))
    BY FateIs
  <2> DEFINE D == Damaged({raw})
  <2>2. D \subseteq S /\ fate \in Seq(D)
    BY <2>1
  <2> HIDE DEF D
  <2> QED BY <2>2
<1>3. wire \o fate \in Seq(S)
  BY <1>2
<1> QED BY <1>1, <1>3, DropTailOf

-----------------------------------------------------------------------------
(* The invariant: on the wires are packets that were sent, damaged or not. *)
SentData == {to_bytes(DataPacket(k)) : k \in Numbers}
SentResponses == {to_bytes(AckPacket(k)) : k \in Numbers}
                   \cup {to_bytes(ErrorPacket(k)) : k \in Numbers \cup {0}}

WiresCarry == /\ s_to_r \in Seq(Damaged(SentData))
              /\ r_to_s \in Seq(Damaged(SentResponses))
NumberFitsNext == syn_number \in SyncStart .. Power[IntBytes]

PacketInv == NumberFitsNext /\ WiresCarry /\ PrintsOnlyTheText /\ DiesForCause

(* The numbers of packets sent fit their field.                            *)
LEMMA NumbersFit ==
    ASSUME NumberFitsNext
    PROVE  /\ syn_number \in Nat /\ Power[IntBytes] \in Nat \ {0}
           /\ \A k \in Numbers : k \in Nat /\ k >= SyncStart /\ Fits(k, IntBytes)
           /\ Fits(0, IntBytes)
<1>1. Power[IntBytes] \in Nat \ {0} /\ SyncStart \in Nat
  BY PowerIsPositive, ByteAssumption, TextAssumption
<1> QED BY <1>1 DEF NumberFitsNext, Numbers, Fits

(* What was sent is the bytes of sound packets.                            *)
LEMMA SentAre ==
    ASSUME NumberFitsNext, NEW raw \in SentData \cup SentResponses
    PROVE  \E q : Sound(q) /\ raw = to_bytes(Sealed(q))
<1>1. CASE raw \in SentData
  <2>1. PICK k \in Numbers : raw = to_bytes(DataPacket(k))
    BY <1>1 DEF SentData
  <2> QED BY <2>1, NumbersFit, DataIs DEF Carries
<1>2. CASE raw \in SentResponses
  <2>1. PICK k \in Numbers \cup {0} : raw = to_bytes(AckPacket(k)) \/ raw = to_bytes(ErrorPacket(k))
    BY <1>2 DEF SentResponses
  <2>2. k \in Nat /\ Fits(k, IntBytes)
    BY NumbersFit
  <2> QED BY <2>1, <2>2, ResponseIs DEF Carries
<1> QED BY <1>1, <1>2

(* What is damaged was one packet.                                         *)
LEMMA DamagedFrom ==
    ASSUME NEW raws, NEW d \in Damaged(raws)
    PROVE  \E raw \in raws : d \in Damaged({raw})
BY DEF Damaged

(* More packets can be damaged in more ways.                               *)
LEMMA DamagedMore ==
    ASSUME NEW raws, NEW more, raws \subseteq more
    PROVE  /\ Damaged(raws) \subseteq Damaged(more)
           /\ Seq(Damaged(raws)) \subseteq Seq(Damaged(more))
<1>1. Damaged(raws) \subseteq Damaged(more)
  BY DEF Damaged
<1> QED BY <1>1

(* A packet of data that passes the test has the chunk of its number.      *)
LEMMA DataIsText ==
    ASSUME NumberFitsNext, NEW d \in Damaged(SentData), Intact(from_bytes(d))
    PROVE  \E k \in Numbers : from_bytes(d).sequence_number = k /\ from_bytes(d).data = Chunk(k)
<1>1. PICK k \in Numbers : d \in Damaged({to_bytes(DataPacket(k))})
  <2>1. PICK raw \in SentData : d \in Damaged({raw})
    BY DamagedFrom
  <2> QED BY <2>1 DEF SentData
<1>2. PICK q : Carries(q, k, 1, Chunk(k)) /\ DataPacket(k) = Sealed(q)
  BY NumbersFit, DataIs
<1>3. Sound(q) /\ q \in Packets
  BY <1>2 DEF Carries, Sound
<1>4. from_bytes(d) = Sealed(q)
  BY <1>1, <1>2, <1>3, TestTells
<1>5. Sealed(q).sequence_number = k /\ Sealed(q).data = Chunk(k)
  BY <1>2, <1>3, SealedIs DEF Carries
<1> QED BY <1>4, <1>5

(* A chunk that cannot be decoded has a neighbor, or is one itself, that   *)
(* ends in the middle of a character.                                      *)
LEMMA UndecodedIsCut ==
    ASSUME NumberFitsNext, NEW k \in Numbers, ~Decodes(Chunk(k))
    PROVE  CutCharacter
<1> DEFINE c == Chunk(k)
           a == Start(k)
           n == Len(Text)
           z == SENDER_DATA_SIZE
<1>1. k \in Nat /\ k >= SyncStart /\ SyncStart \in Nat /\ syn_number \in Nat
  BY NumbersFit, TextAssumption
<1>2. /\ a \in Nat /\ Len(c) \in 0..z /\ c \in Seq(Byte)
      /\ Len(c) = IF a + z <= n THEN z ELSE IF a <= n THEN n - a ELSE 0
      /\ \A i \in 1..Len(c) : c[i] = Text[a + i]
  BY <1>1, ChunkIs
<1>3. /\ z \in Nat \ {0} /\ Text \in Seq(Byte) /\ n \in Nat /\ DOMAIN Text = 1..n
      /\ DOMAIN c = 1..Len(c) /\ Lead # Trail /\ WholeCharacters(Text)
  BY <1>2, TextAssumption, LenProperties DEF Byte
<1> HIDE DEF c, a, n, z
<1>4. \A i \in 1..Len(c) : a + i \in 1..n
  BY <1>2, <1>3
<1>5. ASSUME NEW i \in 1..Len(c), c[i] = Lead, ~(i + 1 \in 1..Len(c) /\ c[i + 1] = Trail)
      PROVE  CutCharacter
  <2>1. Text[a + i] = Lead
    BY <1>2, <1>5
  <2>2. (a + i) + 1 \in 1..n /\ Text[(a + i) + 1] = Trail
    BY <1>3, <1>4, <2>1 DEF Decodes, WholeCharacters
  <2>3. i + 1 \notin 1..Len(c)
    <3> SUFFICES ASSUME i + 1 \in 1..Len(c) PROVE FALSE
      OBVIOUS
    <3>1. (a + i) + 1 = a + (i + 1)
      BY <1>2
    <3> QED BY <1>2, <1>5, <2>2, <3>1
  <2>4. i = Len(c) /\ Len(c) > 0
    BY <1>2, <2>3
  <2>5. Last(c) = Lead
    BY <1>5, <2>4 DEF Last
  <2> QED BY <2>4, <2>5 DEF CutCharacter, c
<1>6. ASSUME NEW i \in 1..Len(c), c[i] = Trail, ~(i > 1 /\ c[i - 1] = Lead)
      PROVE  CutCharacter
  <2>1. Text[a + i] = Trail
    BY <1>2, <1>6
  <2>2. a + i > 1 /\ Text[(a + i) - 1] = Lead
    BY <1>3, <1>4, <2>1 DEF Decodes, WholeCharacters
  <2>3. i = 1
    <3> SUFFICES ASSUME i # 1 PROVE FALSE
      OBVIOUS
    <3>1. i > 1 /\ i - 1 \in 1..Len(c) /\ (a + i) - 1 = a + (i - 1)
      BY <1>2
    <3> QED BY <1>2, <1>6, <2>2, <3>1
  <2>4. a > 0 /\ a = (k - SyncStart) * z
    BY <1>2, <2>2, <2>3 DEF a, z, Start
  <2>5. k > SyncStart
    BY <1>1, <1>3, <2>4
  <2>6. k - 1 \in Numbers /\ k - 1 \in Nat /\ k - 1 >= SyncStart
    BY <1>1, <2>5 DEF Numbers
  <2> DEFINE b == Chunk(k - 1)
             e == Start(k - 1)
  <2>7. e + z = a /\ e \in Nat
    <3>1. e = ((k - 1) - SyncStart) * z
      BY DEF e, z, Start
    <3>2. \A x \in Nat : (x - 1) * z = x * z - z
      BY <1>3
    <3>3. (k - 1) - SyncStart = (k - SyncStart) - 1 /\ k - SyncStart \in Nat
      BY <1>1
    <3>4. e \in Nat
      BY <2>6, ChunkIs
    <3> HIDE DEF e
    <3> QED BY <1>2, <1>3, <2>4, <3>1, <3>2, <3>3, <3>4
  <2>8. a + 1 \in 1..n
    BY <1>4, <2>3
  <2>9. Len(b) = z /\ b[z] = Text[e + z]
    <3>1. /\ Len(b) = IF e + z <= n THEN z ELSE IF e <= n THEN n - e ELSE 0
          /\ \A j \in 1..Len(b) : b[j] = Text[e + j]
      BY <2>6, ChunkIs DEF z, n
    <3> HIDE DEF b, e
    <3>2. e + z <= n
      BY <1>2, <1>3, <2>7, <2>8
    <3> QED BY <1>3, <3>1, <3>2
  <2>10. Last(b) = Lead /\ Len(b) > 0
    <3>1. (a + i) - 1 = a
      BY <1>2, <2>3
    <3> HIDE DEF b, e
    <3> QED BY <1>3, <2>2, <2>7, <2>9, <3>1 DEF Last
  <2> QED BY <2>6, <2>10 DEF CutCharacter
<1>7. /\ (\A i \in 1..Len(c) : c[i] = Lead => i + 1 \in 1..Len(c) /\ c[i + 1] = Trail)
      /\ (\A i \in 1..Len(c) : c[i] = Trail => i > 1 /\ c[i - 1] = Lead)
      => Decodes(c)
  BY <1>3 DEF Decodes, WholeCharacters
<1>8. ~Decodes(c)
  BY DEF c
<1> QED BY <1>5, <1>6, <1>7, <1>8

(* The invariant holds at first, and every step keeps it.                  *)
LEMMA PacketInvInit == Init => PacketInv
<1> SUFFICES ASSUME Init PROVE PacketInv
  OBVIOUS
<1>1. NumberFitsNext
  BY TextAssumption, PowerIsPositive, ByteAssumption DEF Init, NumberFitsNext
<1>2. WiresCarry
  BY DEF Init, WiresCarry
<1>3. PrintsOnlyTheText /\ DiesForCause
  BY DEF Init, PrintsOnlyTheText, DiesForCause
<1> QED BY <1>1, <1>2, <1>3 DEF PacketInv

(* What stays when the numbers stay, and when there is one more.           *)
LEMMA MoreNumbers ==
    ASSUME NumberFitsNext, syn_number' = syn_number \/ syn_number' = syn_number + 1
    PROVE  /\ Numbers \subseteq Numbers'
           /\ SentData \subseteq SentData' /\ SentResponses \subseteq SentResponses'
           /\ CutCharacter => CutCharacter'
           /\ s_to_r' = s_to_r /\ r_to_s' = r_to_s /\ WiresCarry => WiresCarry'
           /\ printed' = printed /\ PrintsOnlyTheText => PrintsOnlyTheText'
<1>1. Numbers \subseteq Numbers'
  BY TextAssumption DEF NumberFitsNext, Numbers
<1>2. SentData \subseteq SentData'
  BY <1>1 DEF SentData
<1>3. SentResponses \subseteq SentResponses'
  BY <1>1 DEF SentResponses
<1>4. CutCharacter => CutCharacter'
  BY <1>1 DEF CutCharacter
<1>5. ASSUME s_to_r' = s_to_r, r_to_s' = r_to_s, WiresCarry PROVE WiresCarry'
  BY <1>2, <1>3, <1>5, DamagedMore DEF WiresCarry
<1>6. ASSUME printed' = printed, PrintsOnlyTheText PROVE PrintsOnlyTheText'
  BY <1>1, <1>6 DEF PrintsOnlyTheText
<1> QED BY <1>1, <1>2, <1>3, <1>4, <1>5, <1>6

(* The bytes of a packet are among those sent, and so is what becomes of   *)
(* them.                                                                   *)
LEMMA SendingKeepsWires ==
    ASSUME NEW sentBefore, NEW sentAfter, sentBefore \subseteq sentAfter,
           NEW wire \in Seq(Damaged(sentBefore)), NEW raw \in sentAfter,
           NEW newWire, Transmit(wire, raw, newWire)
    PROVE  newWire \in Seq(Damaged(sentAfter))
<1>1. wire \in Seq(Damaged(sentAfter))
  BY DamagedMore
<1>2. {raw} \subseteq sentAfter
  OBVIOUS
<1>3. Damaged({raw}) \subseteq Damaged(sentAfter)
  BY <1>2, DamagedMore
<1> QED BY <1>1, <1>3, TransmitIs

(* One case for each action.                                               *)
LEMMA PacketInvNext == PacketInv /\ [Next]_vars => PacketInv'
<1> SUFFICES ASSUME PacketInv, [Next]_vars PROVE PacketInv'
  OBVIOUS
<1> USE DEF PacketInv
<1>0. NumberFitsNext /\ WiresCarry /\ PrintsOnlyTheText /\ DiesForCause
  OBVIOUS
<1>1. CASE SendChunk /\ Fits(syn_number, IntBytes)
  <2>1. /\ sender = "running" /\ sender' = sender /\ syn_number' = syn_number + 1
        /\ Transmit(s_to_r, to_bytes(DataPacket(syn_number)), s_to_r')
        /\ UNCHANGED <<r_to_s, printed, receiver>>
    BY <1>1 DEF SendChunk
  <2>2. NumberFitsNext'
    BY <1>1, <2>1, NumbersFit, TextAssumption DEF NumberFitsNext, Fits
  <2>3. /\ Numbers \subseteq Numbers' /\ SentData \subseteq SentData'
        /\ SentResponses \subseteq SentResponses' /\ (CutCharacter => CutCharacter')
        /\ PrintsOnlyTheText'
    BY <2>1, MoreNumbers
  <2>4. WiresCarry'
    <3>1. syn_number \in Numbers'
      BY <2>1, TextAssumption DEF NumberFitsNext, Numbers
    <3>2. to_bytes(DataPacket(syn_number)) \in SentData'
      BY <3>1 DEF SentData
    <3>3. s_to_r' \in Seq(Damaged(SentData'))
      BY <2>1, <2>3, <3>2, SendingKeepsWires DEF WiresCarry
    <3>4. r_to_s' \in Seq(Damaged(SentResponses'))
      BY <2>1, <2>3, DamagedMore DEF WiresCarry
    <3> QED BY <3>3, <3>4 DEF WiresCarry, Damaged
  <2>5. DiesForCause'
    BY <2>1, <2>3 DEF DiesForCause
  <2> QED BY <2>2, <2>3, <2>4, <2>5
<1>2. CASE SendChunk /\ ~Fits(syn_number, IntBytes)
  <2>1. /\ sender' = "raised" /\ syn_number' = syn_number
        /\ UNCHANGED <<s_to_r, r_to_s, printed, receiver>>
    BY <1>2 DEF SendChunk
  <2>2. NumberFitsNext' /\ WiresCarry' /\ PrintsOnlyTheText' /\ (CutCharacter => CutCharacter')
    BY <2>1, MoreNumbers DEF NumberFitsNext
  <2>3. syn_number = Power[IntBytes]
    BY <1>2, NumbersFit DEF NumberFitsNext, Fits
  <2>4. DiesForCause'
    BY <2>1, <2>2, <2>3 DEF DiesForCause
  <2> QED BY <2>2, <2>4
<1>3. ASSUME NEW k \in Numbers, Resend(k) PROVE PacketInv'
  <2>1. /\ Transmit(s_to_r, to_bytes(DataPacket(k)), s_to_r')
        /\ UNCHANGED <<syn_number, r_to_s, printed, sender, receiver>>
    BY <1>3 DEF Resend
  <2>2. NumberFitsNext' /\ PrintsOnlyTheText' /\ (CutCharacter => CutCharacter')
        /\ SentData' = SentData /\ SentResponses' = SentResponses
    BY <2>1, MoreNumbers DEF NumberFitsNext, SentData, SentResponses, Numbers
  <2>3. to_bytes(DataPacket(k)) \in SentData
    BY DEF SentData
  <2>4. s_to_r' \in Seq(Damaged(SentData))
    BY <2>1, <2>3, SendingKeepsWires DEF WiresCarry
  <2>5. WiresCarry'
    BY <2>1, <2>2, <2>4 DEF WiresCarry, Damaged
  <2>6. DiesForCause'
    BY <2>1, <2>2 DEF DiesForCause
  <2> QED BY <2>2, <2>5, <2>6
<1>4. ASSUME NEW p, to_bytes(p) \in SentResponses, Respond(p) PROVE PacketInv'
  <2>1. /\ Transmit(r_to_s, to_bytes(p), r_to_s')
        /\ UNCHANGED <<syn_number, s_to_r, printed, sender, receiver>>
    BY <1>4 DEF Respond
  <2>2. NumberFitsNext' /\ PrintsOnlyTheText' /\ (CutCharacter => CutCharacter')
        /\ SentData' = SentData /\ SentResponses' = SentResponses
    BY <2>1, MoreNumbers DEF NumberFitsNext, SentData, SentResponses, Numbers
  <2>3. r_to_s' \in Seq(Damaged(SentResponses))
    BY <1>4, <2>1, SendingKeepsWires DEF WiresCarry
  <2>4. WiresCarry'
    BY <2>1, <2>2, <2>3 DEF WiresCarry, Damaged
  <2>5. DiesForCause'
    BY <2>1, <2>2 DEF DiesForCause
  <2> QED BY <2>2, <2>4, <2>5
<1>5. CASE ReadData
  <2> DEFINE d == Head(s_to_r)
             p == from_bytes(d)
  <2>1. /\ s_to_r # <<>> /\ receiver = "running"
        /\ s_to_r' = Tail(s_to_r)
        /\ \/ ~Intact(p) /\ UNCHANGED <<printed, receiver>>
           \/ /\ Intact(p) /\ Decodes(p.data)
              /\ printed' = printed \cup {<<p.sequence_number, p.data>>}
              /\ UNCHANGED receiver
           \/ /\ Intact(p) /\ ~Decodes(p.data)
              /\ receiver' = "raised" /\ UNCHANGED printed
        /\ UNCHANGED <<syn_number, r_to_s, damage, sender>>
    BY <1>5 DEF ReadData
  <2>2. d \in Damaged(SentData) /\ s_to_r' \in Seq(Damaged(SentData))
    <3> DEFINE D == Damaged(SentData)
    <3>1. s_to_r \in Seq(D)
      BY DEF WiresCarry
    <3> HIDE DEF D
    <3>2. Head(s_to_r) \in D /\ Tail(s_to_r) \in Seq(D)
      BY <2>1, <3>1
    <3> QED BY <2>1, <3>2 DEF D
  <2>3. Intact(p) => \E k \in Numbers : p.sequence_number = k /\ p.data = Chunk(k)
    BY <2>2, DataIsText
  <2> HIDE DEF d, p
  <2>4. /\ NumberFitsNext' /\ (CutCharacter => CutCharacter') /\ Numbers' = Numbers
        /\ SentData' = SentData /\ SentResponses' = SentResponses
    BY <2>1, MoreNumbers DEF NumberFitsNext, SentData, SentResponses, Numbers
  <2>5. WiresCarry'
    BY <2>1, <2>2, <2>4 DEF WiresCarry, Damaged
  <2>6. PrintsOnlyTheText'
    <3>1. PrintsOnlyTheText' <=> printed' \subseteq {<<k, Chunk(k)>> : k \in Numbers}
      BY <2>4 DEF PrintsOnlyTheText
    <3>2. CASE UNCHANGED printed
      BY <3>1, <3>2 DEF PrintsOnlyTheText
    <3>3. CASE Intact(p) /\ printed' = printed \cup {<<p.sequence_number, p.data>>}
      BY <2>3, <3>1, <3>3 DEF PrintsOnlyTheText
    <3> QED BY <2>1, <3>2, <3>3
  <2>7. DiesForCause'
    <3>1. CASE UNCHANGED receiver
      BY <2>1, <2>4, <3>1 DEF DiesForCause
    <3>2. CASE Intact(p) /\ ~Decodes(p.data)
      <4>1. CutCharacter
        BY <2>3, <3>2, UndecodedIsCut
      <4> QED BY <2>1, <2>4, <4>1 DEF DiesForCause
    <3> QED BY <2>1, <3>1, <3>2
  <2> QED BY <2>4, <2>5, <2>6, <2>7
<1>6. CASE ReadResponse
  <2>1. /\ r_to_s # <<>> /\ r_to_s' = Tail(r_to_s)
        /\ UNCHANGED <<syn_number, s_to_r, damage, printed, sender, receiver>>
    BY <1>6 DEF ReadResponse
  <2>2. r_to_s' \in Seq(Damaged(SentResponses))
    <3> DEFINE D == Damaged(SentResponses)
    <3>1. r_to_s \in Seq(D)
      BY DEF WiresCarry
    <3> HIDE DEF D
    <3>2. Tail(r_to_s) \in Seq(D)
      BY <2>1, <3>1
    <3> QED BY <2>1, <3>2 DEF D
  <2>3. NumberFitsNext' /\ PrintsOnlyTheText' /\ (CutCharacter => CutCharacter')
        /\ SentData' = SentData /\ SentResponses' = SentResponses
    BY <2>1, MoreNumbers DEF NumberFitsNext, SentData, SentResponses, Numbers
  <2>4. WiresCarry'
    BY <2>1, <2>2, <2>3 DEF WiresCarry, Damaged
  <2>5. DiesForCause'
    BY <2>1, <2>3 DEF DiesForCause
  <2> QED BY <2>3, <2>4, <2>5
<1>7. CASE UNCHANGED vars
  <2>1. UNCHANGED <<syn_number, s_to_r, r_to_s, printed, sender, receiver>>
    BY <1>7 DEF vars, wires
  <2>2. NumberFitsNext' /\ PrintsOnlyTheText' /\ WiresCarry' /\ (CutCharacter => CutCharacter')
    BY <2>1, MoreNumbers DEF NumberFitsNext
  <2>3. DiesForCause'
    BY <2>1, <2>2 DEF DiesForCause
  <2> QED BY <2>2, <2>3
<1>8. \A k \in Numbers : to_bytes(AckPacket(k)) \in SentResponses
  BY DEF SentResponses
<1>9. \A k \in Numbers \cup {0} : to_bytes(ErrorPacket(k)) \in SentResponses
  BY DEF SentResponses
<1> HIDE DEF PacketInv
<1>10. CASE \E k \in Numbers : Resend(k) \/ Respond(AckPacket(k))
  BY <1>3, <1>4, <1>8, <1>10
<1>11. CASE \E k \in Numbers \cup {0} : Respond(ErrorPacket(k))
  BY <1>4, <1>9, <1>11
<1> QED BY <1>1, <1>2, <1>5, <1>6, <1>7, <1>10, <1>11 DEF Next

-----------------------------------------------------------------------------
(* The wires of bytes are the wires of TCPNetwork.                         *)

(* A packet is read as what it says, if it is what was sent, and else as   *)
(* Mangled.                                                                *)
Says(raw, m) ==
    /\ m # Net!Mangled
    /\ \A d \in Damaged({raw}) : Reading(d) = IF d = raw THEN m ELSE Net!Mangled

(* What a packet of one of the three sorts says.                           *)
LEMMA CarriedSays ==
    ASSUME NEW k \in Nat, NEW data, NEW q, NEW m,
           \/ Carries(q, k, 1, data) /\ m = Net!Data(k)
           \/ Carries(q, k, 2, data) /\ m = Net!Ack(k)
           \/ Carries(q, k, 18, data) /\ m = Net!ErrorAck(k)
    PROVE  Says(to_bytes(Sealed(q)), m)
<1> DEFINE raw == to_bytes(Sealed(q))
<1>1. Sound(q) /\ q \in Packets
  BY DEF Carries, Sound
<1>2. m # Net!Mangled
  BY DEF Net!Data, Net!Ack, Net!ErrorAck, Net!Mangled
<1>3. /\ Sealed(q).sequence_number = k
      /\ \/ Sealed(q).flags = 1 /\ m = [kind |-> "data", seq |-> k]
         \/ Sealed(q).flags = 2 /\ m = [kind |-> "ack", seq |-> k]
         \/ Sealed(q).flags = 18 /\ m = [kind |-> "error", seq |-> k]
  BY <1>1, SealedIs DEF Carries, Net!Data, Net!Ack, Net!ErrorAck
<1>4. ASSUME NEW d \in Damaged({raw})
      PROVE  Reading(d) = IF d = raw THEN m ELSE Net!Mangled
  <2>1. /\ Intact(from_bytes(d)) <=> d = raw
        /\ Intact(from_bytes(d)) => from_bytes(d) = Sealed(q)
    BY <1>1, TestTells
  <2>2. CASE d # raw
    BY <2>1, <2>2 DEF Reading, Net!Mangled
  <2>3. CASE d = raw
    <3>1. Intact(from_bytes(d)) /\ from_bytes(d) = Sealed(q)
      BY <2>1, <2>3
    <3> HIDE DEF raw
    <3>2. /\ ERRORS \notin {SYNCHRONIZATION} /\ ACKNOWLEDGEMENT \notin {SYNCHRONIZATION}
          /\ ERRORS \notin {ACKNOWLEDGEMENT}
      BY DEF ERRORS, ACKNOWLEDGEMENT, SYNCHRONIZATION
    <3>3. CASE Sealed(q).flags = 1 /\ m = [kind |-> "data", seq |-> k]
      BY <1>3, <2>3, <3>1, <3>2, <3>3, Flags DEF Reading
    <3>4. CASE Sealed(q).flags = 2 /\ m = [kind |-> "ack", seq |-> k]
      BY <1>3, <2>3, <3>1, <3>2, <3>4, Flags DEF Reading
    <3>5. CASE Sealed(q).flags = 18 /\ m = [kind |-> "error", seq |-> k]
      BY <1>3, <2>3, <3>1, <3>5, Flags DEF Reading
    <3> QED BY <1>3, <3>3, <3>4, <3>5
  <2> QED BY <2>2, <2>3
<1> QED BY <1>2, <1>4 DEF Says

(* What the packets that are sent say.                                     *)
LEMMA SentSays ==
    ASSUME NEW k \in Nat, Fits(k, IntBytes)
    PROVE  /\ k >= SyncStart => Says(to_bytes(DataPacket(k)), Net!Data(k))
           /\ Says(to_bytes(AckPacket(k)), Net!Ack(k))
           /\ Says(to_bytes(ErrorPacket(k)), Net!ErrorAck(k))
<1>1. ASSUME k >= SyncStart PROVE Says(to_bytes(DataPacket(k)), Net!Data(k))
  <2>1. PICK q : Carries(q, k, 1, Chunk(k)) /\ DataPacket(k) = Sealed(q)
    BY <1>1, DataIs
  <2> QED BY <2>1, CarriedSays
<1>2. Says(to_bytes(AckPacket(k)), Net!Ack(k))
  <2>1. PICK q : Carries(q, k, 2, <<>>) /\ AckPacket(k) = Sealed(q)
    BY ResponseIs
  <2> QED BY <2>1, CarriedSays
<1>3. Says(to_bytes(ErrorPacket(k)), Net!ErrorAck(k))
  <2>1. PICK q : Carries(q, k, 18, <<>>) /\ ErrorPacket(k) = Sealed(q)
    BY ResponseIs
  <2> QED BY <2>1, CarriedSays
<1> QED BY <1>1, <1>2, <1>3

(* Reading packet by packet goes with every operation on the wires.        *)
LEMMA ReadIs ==
    ASSUME NEW S, NEW wire \in Seq(S)
    PROVE  /\ Read(wire) \in Seq({Reading(raw) : raw \in S})
           /\ Len(Read(wire)) = Len(wire)
           /\ \A i \in 1..Len(wire) : Read(wire)[i] = Reading(wire[i])
<1>1. DOMAIN wire = 1..Len(wire) /\ Len(wire) \in Nat /\ \A i \in 1..Len(wire) : wire[i] \in S
  BY ElementOfSeq, LenProperties
<1>2. Read(wire) = [i \in 1..Len(wire) |-> Reading(wire[i])]
  BY <1>1 DEF Read
<1>3. \A i \in 1..Len(wire) : Reading(wire[i]) \in {Reading(raw) : raw \in S}
  BY <1>1
<1> DEFINE R == {Reading(raw) : raw \in S}
           f == [i \in 1..Len(wire) |-> Reading(wire[i])]
<1>4. \A i \in 1..Len(wire) : f[i] \in R
  BY <1>3
<1>5. f = [i \in 1..Len(wire) |-> f[i]]
  OBVIOUS
<1>6. f \in [1..Len(wire) -> R]
  BY <1>4, <1>5
<1> HIDE DEF f, R
<1>7. f \in Seq(R) /\ Len(f) = Len(wire)
  BY <1>1, <1>6, SeqDef, LenProperties
<1> QED BY <1>2, <1>7 DEF f, R

(* Reading what is left of a wire when its first packet was taken.         *)
LEMMA ReadTail ==
    ASSUME NEW S, NEW wire \in Seq(S), wire # <<>>
    PROVE  Read(Tail(wire)) = Tail(Read(wire))
<1> DEFINE R == {Reading(raw) : raw \in S}
           r == Read(wire)
           t == Tail(wire)
           u == Read(t)
<1>1. t \in Seq(S) /\ Len(t) = Len(wire) - 1 /\ (\A i \in 1..Len(t) : t[i] = wire[i + 1])
      /\ Len(wire) \in Nat /\ Len(wire) > 0
  OBVIOUS
<1> HIDE DEF t
<1>2. r \in Seq(R) /\ Len(r) = Len(wire) /\ (\A i \in 1..Len(wire) : r[i] = Reading(wire[i]))
  BY ReadIs
<1>3. u \in Seq(R) /\ Len(u) = Len(t) /\ (\A i \in 1..Len(t) : u[i] = Reading(t[i]))
  BY <1>1, ReadIs
<1> HIDE DEF r, u, R
<1>4. r # <<>> 
  BY <1>1, <1>2
<1>5. Tail(r) \in Seq(R) /\ Len(Tail(r)) = Len(r) - 1 /\ \A i \in 1..Len(r) - 1 : Tail(r)[i] = r[i + 1]
  BY <1>2, <1>4
<1>6. Len(u) = Len(Tail(r)) /\ \A i \in 1..Len(u) : u[i] = Tail(r)[i]
  BY <1>1, <1>2, <1>3, <1>5
<1>7. u = Tail(r)
  BY <1>3, <1>5, <1>6, SeqEqual
<1> QED BY <1>7 DEF r, u, t

(* Reading what the buffer takes of a wire and what is added to it.        *)
LEMMA ReadDropTail ==
    ASSUME NEW S, NEW wire \in Seq(S), NEW fate \in Seq(S)
    PROVE  Read(DropTail(wire \o fate)) = Net!DropTail(Read(wire) \o Read(fate))
<1> DEFINE R == {Reading(raw) : raw \in S}
           w == wire \o fate
           c == Read(wire) \o Read(fate)
           d == DropTail(w)
           e == Net!DropTail(c)
<1>1. w \in Seq(S) /\ Len(w) = Len(wire) + Len(fate) /\ Len(wire) \in Nat /\ Len(fate) \in Nat
      /\ \A i \in 1..Len(w) : w[i] = IF i <= Len(wire) THEN wire[i] ELSE fate[i - Len(wire)]
  OBVIOUS
<1>2. /\ Read(wire) \in Seq(R) /\ Len(Read(wire)) = Len(wire)
      /\ \A i \in 1..Len(wire) : Read(wire)[i] = Reading(wire[i])
  BY ReadIs
<1>3. /\ Read(fate) \in Seq(R) /\ Len(Read(fate)) = Len(fate)
      /\ \A i \in 1..Len(fate) : Read(fate)[i] = Reading(fate[i])
  BY ReadIs
<1>4. /\ c \in Seq(R) /\ Len(c) = Len(w)
      /\ \A i \in 1..Len(w) : c[i] = Reading(w[i])
  <2> DEFINE a == Read(wire)
             b == Read(fate)
  <2> HIDE DEF a, b, R
  <2>1. a \in Seq(R) /\ b \in Seq(R) /\ Len(a) = Len(wire) /\ Len(b) = Len(fate)
    BY <1>2, <1>3 DEF a, b
  <2>2. /\ a \o b \in Seq(R) /\ Len(a \o b) = Len(a) + Len(b)
        /\ \A i \in 1..Len(a) + Len(b) : (a \o b)[i] = IF i <= Len(a) THEN a[i] ELSE b[i - Len(a)]
    BY <2>1
  <2>3. ASSUME NEW i \in 1..Len(w) PROVE (a \o b)[i] = Reading(w[i])
    <3>1. CASE i <= Len(wire)
      BY <1>1, <1>2, <2>1, <2>2, <3>1 DEF a
    <3>2. CASE ~(i <= Len(wire))
      <4>1. i - Len(wire) \in 1..Len(fate)
        BY <1>1, <3>2
      <4> QED BY <1>1, <1>3, <2>1, <2>2, <3>2, <4>1 DEF b
    <3> QED BY <3>1, <3>2
  <2> QED BY <1>1, <2>1, <2>2, <2>3 DEF a, b
<1> HIDE DEF w, c, R
<1>5. BufferSize \in Nat
  BY WireAssumption
<1>6. CASE Len(w) <= BufferSize
  <2>1. d = w /\ e = c
    BY <1>4, <1>6 DEF DropTail, Net!DropTail
  <2>2. /\ Read(w) \in Seq(R) /\ Len(Read(w)) = Len(w)
        /\ \A i \in 1..Len(w) : Read(w)[i] = Reading(w[i])
    BY <1>1, ReadIs DEF R
  <2>3. Read(w) = c
    BY <1>4, <2>2, SeqEqual
  <2> QED BY <2>1, <2>3 DEF w, c
<1>7. CASE ~(Len(w) <= BufferSize)
  <2>1. d = SubSeq(w, 1, BufferSize) /\ e = SubSeq(c, 1, BufferSize)
    BY <1>4, <1>7 DEF DropTail, Net!DropTail
  <2>2. Len(w) \in Nat /\ BufferSize <= Len(w)
    BY <1>1, <1>5, <1>7
  <2>3. d \in Seq(S) /\ Len(d) = BufferSize /\ \A i \in 1..BufferSize : d[i] = w[i]
    BY <1>1, <1>5, <2>1, <2>2
  <2>4. e \in Seq(R) /\ Len(e) = BufferSize /\ \A i \in 1..BufferSize : e[i] = c[i]
    BY <1>4, <1>5, <2>1, <2>2
  <2> HIDE DEF d, e
  <2>5. /\ Read(d) \in Seq(R) /\ Len(Read(d)) = Len(d)
        /\ \A i \in 1..Len(d) : Read(d)[i] = Reading(d[i])
    BY <2>3, ReadIs DEF R
  <2>6. \A i \in 1..BufferSize : i \in 1..Len(w)
    BY <1>5, <2>2
  <2>7. Len(Read(d)) = Len(e) /\ \A i \in 1..Len(e) : Read(d)[i] = e[i]
    BY <1>4, <2>3, <2>4, <2>5, <2>6
  <2>8. Read(d) = e
    BY <2>4, <2>5, <2>7, SeqEqual
  <2> QED BY <2>8 DEF d, e, w, c
<1> QED BY <1>6, <1>7

(* What becomes of a packet on a wire of bytes becomes of what it says on  *)
(* the wire of TCPNetwork, and does as much damage.                        *)
LEMMA FateSays ==
    ASSUME NEW raw, NEW m, Says(raw, m), NEW fate \in Fates(raw),
           NEW path \in {"S->R", "R->S"}
    PROVE  /\ Read(fate) \in Net!Fates(m, path)
           /\ Net!DamageOf(m, Read(fate)) = DamageOf(raw, fate)
<1>1. fate = <<>> \/ \E c \in Damaged({raw}) : fate = <<c>> \/ fate = <<c, c>>
  BY FateIs
<1>2. Net!Copies(m, path) = {m, Net!Mangled}
  BY DEF Net!Copies
<1>3. /\ <<>> \in Net!Fates(m, path)
      /\ \A c \in {m, Net!Mangled} : <<c>> \in Net!Fates(m, path) /\ <<c, c>> \in Net!Fates(m, path)
  BY <1>2 DEF Net!Fates
<1>4. CASE fate = <<>>
  <2>1. Read(<<>>) = <<>>
    BY DEF Read
  <2> QED BY <1>3, <1>4, <2>1 DEF DamageOf, Net!DamageOf
<1>5. ASSUME NEW c \in Damaged({raw}), fate = <<c>> \/ fate = <<c, c>>
      PROVE  /\ Read(fate) \in Net!Fates(m, path)
             /\ Net!DamageOf(m, Read(fate)) = DamageOf(raw, fate)
  <2> DEFINE x == Reading(c)
  <2>1. /\ x = IF c = raw THEN m ELSE Net!Mangled
        /\ m # Net!Mangled
    BY DEF Says
  <2> HIDE DEF x
  <2>2. CASE fate = <<c>>
    <3>1. Read(fate) = <<x>>
      BY <2>2 DEF Read, x
    <3>2. <<x>> \in Net!Fates(m, path)
      BY <1>3, <2>1
    <3>3. <<c>> \in {<<>>, <<raw>>} <=> <<x>> \in {<<>>, <<m>>}
      BY <2>1
    <3> QED BY <2>2, <3>1, <3>2, <3>3 DEF DamageOf, Net!DamageOf
  <2>3. CASE fate = <<c, c>>
    <3>1. Read(fate) = <<x, x>>
      BY <2>3 DEF Read, x
    <3>2. <<x, x>> \in Net!Fates(m, path)
      BY <1>3, <2>1
    <3>3. <<c, c>> \notin {<<>>, <<raw>>} /\ <<x, x>> \notin {<<>>, <<m>>}
      OBVIOUS
    <3> QED BY <2>3, <3>1, <3>2, <3>3 DEF DamageOf, Net!DamageOf
  <2> QED BY <1>5, <2>2, <2>3
<1> QED BY <1>1, <1>4, <1>5

(* Transmitting bytes is enqueueing what they say.                         *)
LEMMA TransmitSays ==
    ASSUME NEW raws, NEW wire \in Seq(Damaged(raws)), NEW raw, NEW m, Says(raw, m),
           NEW path \in {"S->R", "R->S"}, NEW newWire, Transmit(wire, raw, newWire)
    PROVE  Net!Enqueue(Read(wire), m, path, Read(newWire))
<1>1. PICK fate \in Fates(raw) :
            /\ damage + DamageOf(raw, fate) <= MaxDamage
            /\ damage' = damage + DamageOf(raw, fate)
            /\ newWire = DropTail(wire \o fate)
  BY DEF Transmit
<1>2. /\ Read(fate) \in Net!Fates(m, path)
      /\ Net!DamageOf(m, Read(fate)) = DamageOf(raw, fate)
  BY FateSays
<1>3. Read(newWire) = Net!DropTail(Read(wire) \o Read(fate))
  <2> DEFINE D == Damaged(raws \cup {raw})
  <2>1. wire \in Seq(D) /\ Seq(Damaged({raw})) \subseteq Seq(D)
    BY DamagedMore
  <2>2. fate \in Seq(D)
    BY <2>1, FateIs
  <2> HIDE DEF D
  <2> QED BY <1>1, <2>1, <2>2, ReadDropTail
<1> QED BY <1>1, <1>2, <1>3 DEF Net!Enqueue

(* Every step of the bytes is a step of TCPNetwork's wires, or none.       *)
LEMMA EveryStepIsNetworks ==
    ASSUME PacketInv, [Next]_vars
    PROVE  [NetworkStep]_<<Read(s_to_r), Read(r_to_s), damage>>
<1>0. NumberFitsNext /\ WiresCarry
  BY DEF PacketInv
<1>1. \A k \in Numbers : k \in Nat /\ k >= SyncStart /\ Fits(k, IntBytes) /\ k \in SyncStart .. syn_number
  BY <1>0, NumbersFit, TextAssumption DEF Numbers
<1>2. s_to_r \in Seq(Damaged(SentData)) /\ r_to_s \in Seq(Damaged(SentResponses))
  BY <1>0 DEF WiresCarry
<1>3. ASSUME NEW k \in SyncStart .. syn_number, Fits(k, IntBytes),
             Transmit(s_to_r, to_bytes(DataPacket(k)), s_to_r'), r_to_s' = r_to_s
      PROVE  NetworkStep
  <2>1. k \in Nat /\ k >= SyncStart
    BY <1>0, NumbersFit, TextAssumption
  <2>2. Says(to_bytes(DataPacket(k)), Net!Data(k))
    BY <1>3, <2>1, SentSays
  <2>3. Net!Enqueue(Read(s_to_r), Net!Data(k), "S->R", Read(s_to_r'))
    BY <1>2, <1>3, <2>2, TransmitSays
  <2>4. Net!SendForward(Net!Data(k))
    BY <2>3 DEF Net!SendForward, Net!Enqueue, Net!Forward, Read, Reading
  <2>5. UNCHANGED Read(r_to_s)
    BY <1>3
  <2> QED BY <2>4, <2>5 DEF NetworkStep
<1>4. ASSUME NEW k \in Numbers \cup {0}, NEW raw, NEW m, Says(raw, m),
             m = Net!Ack(k) \/ m = Net!ErrorAck(k),
             Transmit(r_to_s, raw, r_to_s'), s_to_r' = s_to_r
      PROVE  NetworkStep
  <2>1. Net!Enqueue(Read(r_to_s), m, "R->S", Read(r_to_s'))
    BY <1>2, <1>4, TransmitSays
  <2>2. Net!SendBackward(m)
    BY <2>1 DEF Net!SendBackward, Net!Enqueue, Net!Backward, Read, Reading
  <2>3. UNCHANGED Read(s_to_r)
    BY <1>4
  <2> QED BY <1>4, <2>2, <2>3 DEF NetworkStep
<1>5. CASE SendChunk /\ Fits(syn_number, IntBytes)
  <2>1. Transmit(s_to_r, to_bytes(DataPacket(syn_number)), s_to_r') /\ r_to_s' = r_to_s
    BY <1>5 DEF SendChunk
  <2>2. syn_number \in SyncStart .. syn_number
    BY <1>0, TextAssumption DEF NumberFitsNext
  <2> QED BY <1>3, <1>5, <2>1, <2>2
<1>6. CASE SendChunk /\ ~Fits(syn_number, IntBytes)
  <2>1. UNCHANGED <<s_to_r, r_to_s, damage>>
    BY <1>6 DEF SendChunk
  <2> QED BY <2>1 DEF Read, Reading
<1>7. ASSUME NEW k \in Numbers, Resend(k) PROVE NetworkStep
  BY <1>1, <1>3, <1>7 DEF Resend
<1>8. ASSUME NEW k \in Numbers, Respond(AckPacket(k)) PROVE NetworkStep
  <2>1. Says(to_bytes(AckPacket(k)), Net!Ack(k))
    BY <1>1, SentSays
  <2> QED BY <1>4, <1>8, <2>1 DEF Respond
<1>9. ASSUME NEW k \in Numbers \cup {0}, Respond(ErrorPacket(k)) PROVE NetworkStep
  <2>1. Says(to_bytes(ErrorPacket(k)), Net!ErrorAck(k))
    BY <1>0, <1>1, NumbersFit, SentSays
  <2> QED BY <1>4, <1>9, <2>1 DEF Respond
<1>10. CASE ReadData
  <2>1. s_to_r # <<>> /\ s_to_r' = Tail(s_to_r) /\ UNCHANGED <<r_to_s, damage>>
    BY <1>10 DEF ReadData
  <2>2. Read(s_to_r') = Tail(Read(s_to_r))
    BY <1>2, <2>1, ReadTail
  <2> QED BY <2>1, <2>2 DEF NetworkStep, Read, Reading
<1>11. CASE ReadResponse
  <2>1. r_to_s # <<>> /\ r_to_s' = Tail(r_to_s) /\ UNCHANGED <<s_to_r, damage>>
    BY <1>11 DEF ReadResponse
  <2>2. Read(r_to_s') = Tail(Read(r_to_s))
    BY <1>2, <2>1, ReadTail
  <2> QED BY <2>1, <2>2 DEF NetworkStep, Read, Reading
<1>12. CASE UNCHANGED vars
  <2>1. UNCHANGED <<s_to_r, r_to_s, damage>>
    BY <1>12 DEF vars, wires
  <2> QED BY <2>1 DEF Read, Reading
<1> QED BY <1>5, <1>6, <1>7, <1>8, <1>9, <1>10, <1>11, <1>12 DEF Next

-----------------------------------------------------------------------------
(* The invariant of packets on the wires: they were sent, damaged or not.  *)
THEOREM PacketInvariance == Spec => []PacketInv
<1>1. Init => PacketInv
  BY PacketInvInit
<1>2. PacketInv /\ [Next]_vars => PacketInv'
  BY PacketInvNext
<1> QED BY <1>1, <1>2, PTL DEF Spec

(* Only the input is printed (Receiver._update_acked_packets), whatever    *)
(* bytes the emulator overwrites.                                          *)
THEOREM OnlyTextPrinted == Spec => []PrintsOnlyTheText
<1>1. PacketInv => PrintsOnlyTheText
  BY DEF PacketInv
<1> QED BY <1>1, PacketInvariance, PTL

(* Neither process dies of anything the network does to a packet, but of a *)
(* number beyond its field or a character cut in two.                      *)
THEOREM DeathHasCause == Spec => []DiesForCause
<1>1. PacketInv => DiesForCause
  BY DEF PacketInv
<1> QED BY <1>1, PacketInvariance, PTL

(* The test that both readers make of the checksum passes a packet if and  *)
(* only if it is one that was sent.                                        *)
THEOREM ChecksumIsExact == Spec => []ChecksumTells
<1>1. ASSUME PacketInv PROVE ChecksumTells
  <2>1. NumberFitsNext /\ WiresCarry
    BY <1>1 DEF PacketInv
  <2>2. SentRaw = SentData \cup SentResponses
    BY DEF SentRaw, SentData, SentResponses
  <2> SUFFICES ASSUME NEW d \in ToSet(s_to_r) \cup ToSet(r_to_s)
               PROVE  Intact(from_bytes(d)) <=> d \in SentRaw
    BY DEF ChecksumTells
  <2>3. d \in Damaged(SentData) \/ d \in Damaged(SentResponses)
    <3>1. ASSUME NEW D, NEW wire \in Seq(D), NEW x \in ToSet(wire) PROVE x \in D
      BY ElementOfSeq, LenProperties DEF ToSet
    <3> QED BY <2>1, <3>1 DEF WiresCarry
  <2>4. PICK raw \in SentData \cup SentResponses : d \in Damaged({raw})
    BY <2>3, DamagedFrom
  <2>5. Intact(from_bytes(d)) => d = raw
    <3>1. PICK q : Sound(q) /\ raw = to_bytes(Sealed(q))
      BY <2>1, SentAre
    <3> QED BY <2>4, <3>1, TestTells
  <2>6. ASSUME d \in SentRaw PROVE Intact(from_bytes(d))
    <3>1. PICK q : Sound(q) /\ d = to_bytes(Sealed(q))
      BY <2>1, <2>2, <2>6, SentAre
    <3> QED BY <3>1, SentIsRead, SealedIs DEF Sound
  <2> QED BY <2>2, <2>5, <2>6
<1> QED BY <1>1, PacketInvariance, PTL

(* The packets of bytes implement the network of TCPNetwork                *)
(* (3700TCP/run's packet_received): each is read as it was sent, or as     *)
(* Mangled.                                                                *)
THEOREM BytesImplementNetwork == Spec => ReadsAsSentOrMangled
<1>1. Init => Net!NetworkInit
  BY DEF Init, Net!NetworkInit, Read
<1>2. PacketInv /\ [Next]_vars => [NetworkStep]_<<Read(s_to_r), Read(r_to_s), damage>>
  BY EveryStepIsNetworks
<1> QED BY <1>1, <1>2, PacketInvariance, PTL DEF Spec, ReadsAsSentOrMangled
=============================================================================
