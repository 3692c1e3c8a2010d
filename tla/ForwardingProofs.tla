-------------------------- MODULE ForwardingProofs --------------------------
(***************************************************************************)
(* Theorems about Forwarding: what a frame carries, how often it comes to  *)
(* its host, and what the tables say of the hosts, for every network,      *)
(* every order of BPDUs and frames, and every moment of a stop or a move.  *)
(*                                                                         *)
(* None of them needs anything of the spanning tree.                       *)
(***************************************************************************)
EXTENDS Forwarding, TLAPS, FiniteSetTheorems, SequenceTheorems

-----------------------------------------------------------------------------
(* Messages.                                                               *)

(* A converted value is a JSON value.                                      *)
LEMMA ConvertedIsJSON ==
    ASSUME NEW type \in {"str", "int"}, NEW v \in JSON, Convertible(type, v)
    PROVE  Converted(type, v) \in JSON
<1>1. CASE type = "int"
  <2>1. Truncated[v] \in STRING
    BY <1>1, IntAssumption DEF Convertible
  <2> QED BY <1>1, <2>1 DEF Converted, Value, JSON
<1>2. CASE type = "str"
  BY <1>2 DEF Converted, Value, JSON
<1> QED BY <1>1, <1>2

(* Converting a value again changes nothing.                               *)
LEMMA ConvertedOnce ==
    ASSUME NEW type \in {"str", "int"}, NEW v \in JSON, Convertible(type, v)
    PROVE  /\ Convertible(type, Converted(type, v))
           /\ Converted(type, Converted(type, v)) = Converted(type, v)
<1>1. CASE type = "int"
  <2>1. v \in DOMAIN Truncated
    BY <1>1 DEF Convertible
  <2>2. Converted(type, v) = Value("int", Truncated[v])
    BY <1>1 DEF Converted
  <2>3. /\ Value("int", Truncated[v]) \in DOMAIN Truncated
        /\ Truncated[Value("int", Truncated[v])] = Truncated[v]
    BY <2>1, IntAssumption
  <2> QED BY <1>1, <2>2, <2>3 DEF Convertible, Converted
<1>2. CASE type = "str"
  BY <1>2 DEF Convertible, Converted, Value
<1> QED BY <1>1, <1>2

(* The fields are strings and integers.                                    *)
LEMMA FieldTypes == \A f \in DOMAIN BPDUFields : BPDUFields[f] \in {"str", "int"}
BY DEF BPDUFields

(* A bridge writes a message of the same names and of JSON values.         *)
LEMMA WritesMessage ==
    ASSUME NEW names, NEW m \in [names -> JSON]
    PROVE  Serialize(Deserialize(m)) \in [names -> JSON]
<1>1. CASE ReadsAsBPDU(m)
  <2>1. Serialize(Deserialize(m)) = AsBPDU(m)
    BY <1>1 DEF Serialize, Deserialize
  <2>2. names = DOMAIN BPDUFields
    BY <1>1 DEF ReadsAsBPDU
  <2>3. \A f \in names : Converted(BPDUFields[f], m[f]) \in JSON
    BY <1>1, <2>2, FieldTypes, ConvertedIsJSON DEF ReadsAsBPDU
  <2> QED BY <2>1, <2>2, <2>3 DEF AsBPDU
<1>2. CASE ~ReadsAsBPDU(m)
  BY <1>2 DEF Serialize, Deserialize
<1> QED BY <1>1, <1>2

(* The next bridge reads in it what this one has read.                     *)
LEMMA ReadsWhatWasRead ==
    ASSUME NEW names, NEW m \in [names -> JSON]
    PROVE  Deserialize(Serialize(Deserialize(m))) = Deserialize(m)
<1>1. CASE ReadsAsBPDU(m)
  <2> DEFINE w == AsBPDU(m)
  <2>1. Serialize(Deserialize(m)) = w
    BY <1>1 DEF Serialize, Deserialize
  <2>2. DOMAIN w = DOMAIN BPDUFields /\ names = DOMAIN BPDUFields
    BY <1>1 DEF ReadsAsBPDU, AsBPDU
  <2>3. \A f \in DOMAIN BPDUFields :
           /\ Convertible(BPDUFields[f], w[f])
           /\ Converted(BPDUFields[f], w[f]) = w[f]
    <3> SUFFICES ASSUME NEW f \in DOMAIN BPDUFields
                 PROVE  /\ Convertible(BPDUFields[f], w[f])
                        /\ Converted(BPDUFields[f], w[f]) = w[f]
      OBVIOUS
    <3>1. m[f] \in JSON /\ Convertible(BPDUFields[f], m[f])
      BY <1>1, <2>2 DEF ReadsAsBPDU
    <3>2. w[f] = Converted(BPDUFields[f], m[f])
      BY DEF AsBPDU
    <3> QED BY <3>1, <3>2, FieldTypes, ConvertedOnce
  <2>4. ReadsAsBPDU(w)
    BY <2>2, <2>3 DEF ReadsAsBPDU
  <2>5. AsBPDU(w) = [f \in DOMAIN BPDUFields |-> w[f]]
    BY <2>3 DEF AsBPDU
  <2>6. w = [f \in DOMAIN BPDUFields |-> w[f]]
    BY DEF AsBPDU
  <2>7. AsBPDU(w) = w
    BY <2>5, <2>6
  <2>8. Deserialize(w) = [class |-> "BPDU", fields |-> AsBPDU(w)]
    BY <2>4 DEF Deserialize
  <2>9. Deserialize(m) = [class |-> "BPDU", fields |-> w]
    BY <1>1 DEF Deserialize
  <2> QED BY <2>1, <2>7, <2>8, <2>9
<1>2. CASE ~ReadsAsBPDU(m)
  BY <1>2 DEF Serialize, Deserialize
<1> QED BY <1>1, <1>2

-----------------------------------------------------------------------------
(* Frames.                                                                 *)

(* Between any two ports of a bridge there is no way but through it.       *)
NoCircle ==
    \A b \in Bridges : \A p, q \in Ports(b) :
        p # q => ~LeadsTo(b, p, LanOf[b][q])

(* A frame is of the right type, and is read as its host has sent it.      *)
Message == UNION {[DOMAIN ContentOf[n] -> JSON] : n \in 1..MaxFrames}
Frame == {f \in [src : Hosts, dst : Hosts, n : 1..MaxFrames, message : Message] :
             /\ f.message \in [DOMAIN ContentOf[f.n] -> JSON]
             /\ Deserialize(f.message) = Deserialize(ContentOf[f.n])}

(* A frame that comes to port q of bridge c comes from a LAN this port     *)
(* leads to, on which its source is or has been.                           *)
Placed(c, q, h) == \E l \in {HomeOf[h], at[h]} : LeadsTo(c, q, l)
Arriving(c, q) == {f \in Frame : NoCircle => Placed(c, q, f.src)}

GoodQueues(box) ==
    /\ DOMAIN box = Bridges
    /\ \A c \in Bridges :
          /\ DOMAIN box[c] = Ports(c)
          /\ \A q \in Ports(c) : box[c][q] \in Seq(Arriving(c, q))

GoodTables ==
    /\ DOMAIN table = Bridges
    /\ \A b \in Bridges : table[b] \in [Hosts -> Ports(b) \cup {None}]
    /\ NoCircle => TableIsRight

(* The inductive invariant.                                                *)
FInv == /\ at \in [Hosts -> Lans]
        /\ sent \in 0..MaxFrames
        /\ delivered \in [1..MaxFrames -> Nat]
        /\ GoodTables
        /\ GoodQueues(frames)

(* What the assumption on LanOf says of ports.                             *)
LEMMA PortsAreOnLans == \A b \in Bridges : \A p \in Ports(b) : LanOf[b][p] \in Lans
BY LanAssumption DEF Ports

(* A bridge has finitely many ports.                                       *)
LEMMA PortsAreFinite ==
    ASSUME NEW b \in Bridges, NEW S \in SUBSET Ports(b)
    PROVE  Cardinality(S) \in Nat /\ (S = {} <=> Cardinality(S) = 0)
<1>1. LanOf[b] \in Seq(Lans)
  BY LanAssumption
<1>2. Ports(b) = 1..Len(LanOf[b]) /\ Len(LanOf[b]) \in Nat
  BY <1>1, LenProperties DEF Ports
<1>3. IsFiniteSet(Ports(b))
  BY <1>2, FS_Interval
<1>4. IsFiniteSet(S)
  BY <1>3, FS_Subset
<1> QED BY <1>4, FS_CardinalityType, FS_EmptySet

(* A port leads to the LAN it is on.                                       *)
LEMMA LeadsToItsLan ==
    ASSUME NEW b \in Bridges, NEW p \in Ports(b)
    PROVE  LeadsTo(b, p, LanOf[b][p])
BY DEF LeadsTo

(* Where there is no circle, a frame that leaves bridge d on another port  *)
(* than it came in on has its source behind each port it comes to next.    *)
LEMMA LeadsOn ==
    ASSUME NoCircle,
           NEW d \in Bridges, NEW p \in Ports(d), NEW r \in Ports(d), r # p,
           NEW c \in Bridges, NEW q \in Ports(c),
           LanOf[c][q] = LanOf[d][r], <<d, r>> # <<c, q>>,
           NEW l, LeadsTo(d, p, l)
    PROVE  LeadsTo(c, q, l)
<1>1. c # d
  <2>1. SUFFICES ASSUME c = d PROVE FALSE
    OBVIOUS
  <2>2. q # r /\ q \in Ports(d) /\ LanOf[d][q] = LanOf[d][r]
    BY <2>1
  <2>3. LeadsTo(d, r, LanOf[d][q])
    BY <2>2, LeadsToItsLan
  <2> QED BY <2>2, <2>3 DEF NoCircle
<1> DEFINE Closed(b, S) == \A e \in Bridges \ {b} : \A s, t \in Ports(e) :
                              LanOf[e][s] \in S => LanOf[e][t] \in S
           K == {x \in Lans : LeadsTo(d, p, x)}
<1>2. LanOf[d][p] \in K
  BY LeadsToItsLan, PortsAreOnLans
<1>3. Closed(d, K)
  BY PortsAreOnLans DEF LeadsTo
<1>4. LanOf[d][r] \notin K
  BY DEF NoCircle
<1>5. \A s \in Ports(c) : LanOf[c][s] \notin K
  BY <1>1, <1>3, <1>4
<1>6. SUFFICES ASSUME NEW S \in SUBSET Lans, LanOf[c][q] \in S, Closed(c, S)
               PROVE  l \in S
  BY DEF LeadsTo
<1>7. LanOf[d][p] \in S
  BY <1>1, <1>6
<1>8. Closed(d, K \cap S)
  <2> SUFFICES ASSUME NEW e \in Bridges \ {d}, NEW s \in Ports(e), NEW t \in Ports(e),
                      LanOf[e][s] \in K, LanOf[e][s] \in S
               PROVE  LanOf[e][t] \in K /\ LanOf[e][t] \in S
    OBVIOUS
  <2>1. e # c
    BY <1>5
  <2> QED BY <1>3, <1>6, <2>1
<1>9. K \cap S \in SUBSET Lans /\ LanOf[d][p] \in K \cap S
  BY <1>2, <1>7
<1>10. l \in K \cap S
  BY <1>8, <1>9 DEF LeadsTo
<1> QED BY <1>10

(* What a bridge writes of a frame.                                        *)
Copy(f) == [f EXCEPT !.message = Serialize(Deserialize(@))]

(* It is a frame again, of the same source.                                *)
LEMMA CopyIsFrame ==
    ASSUME NEW f \in Frame
    PROVE  Copy(f) \in Frame /\ Copy(f).src = f.src
<1> DEFINE m == f.message
           names == DOMAIN ContentOf[f.n]
<1>1. /\ f \in [src : Hosts, dst : Hosts, n : 1..MaxFrames, message : Message]
      /\ m \in [names -> JSON]
      /\ Deserialize(m) = Deserialize(ContentOf[f.n])
  BY DEF Frame
<1>2. /\ Serialize(Deserialize(m)) \in [names -> JSON]
      /\ Deserialize(Serialize(Deserialize(m))) = Deserialize(m)
  BY <1>1, WritesMessage, ReadsWhatWasRead
<1>3. /\ Copy(f).message = Serialize(Deserialize(m))
      /\ Copy(f).src = f.src /\ Copy(f).n = f.n
  BY <1>1 DEF Copy
<1>4. Serialize(Deserialize(m)) \in Message
  BY <1>1, <1>2 DEF Message
<1>5. Copy(f) \in [src : Hosts, dst : Hosts, n : 1..MaxFrames, message : Message]
  BY <1>1, <1>4 DEF Copy
<1> QED BY <1>1, <1>2, <1>3, <1>5 DEF Frame

-----------------------------------------------------------------------------
(* The actions.                                                            *)

(* A queue of frames, some copies appended, is one if a copy may arrive.   *)
LEMMA AppendCopies ==
    ASSUME NEW T, NEW box \in Seq(T), NEW n \in Nat, NEW x, n # 0 => x \in T
    PROVE  box \o [i \in 1..n |-> x] \in Seq(T)
<1>1. [i \in 1..n |-> x] \in [1..n -> T]
  OBVIOUS
<1>2. [i \in 1..n |-> x] \in Seq(T)
  BY <1>1, SeqDef
<1> QED BY <1>2, ConcatProperties

(* What bridge b sends of frame f, which came in on port p.                *)
LEMMA PassKeepsQueues ==
    ASSUME NEW box, GoodQueues(box), NEW b \in Bridges, NEW p \in Ports(b),
           NEW out \in SUBSET (Ports(b) \ {p}), NEW f \in Arriving(b, p),
           Pass(box, b, out, f), UNCHANGED at
    PROVE  GoodQueues(frames)'
<1> DEFINE From(c, q) == {r \in out : LanOf[b][r] = LanOf[c][q] /\ <<b, r>> # <<c, q>>}
<1>1. frames' = [c \in Bridges |-> [q \in Ports(c) |->
          IF On(c) THEN box[c][q] \o [i \in 1..Cardinality(From(c, q)) |-> Copy(f)]
                   ELSE box[c][q]]]
  BY DEF Pass, Copy
<1>2. ASSUME NEW c \in Bridges, NEW q \in Ports(c)
      PROVE  Arriving(c, q)' = Arriving(c, q)
  BY DEF Arriving, Placed
<1>3. ASSUME NEW c \in Bridges, NEW q \in Ports(c), From(c, q) # {}
      PROVE  Copy(f) \in Arriving(c, q)
  <2>1. f \in Frame /\ Copy(f) \in Frame /\ Copy(f).src = f.src
    BY CopyIsFrame DEF Arriving
  <2>2. PICK r \in out : LanOf[b][r] = LanOf[c][q] /\ <<b, r>> # <<c, q>>
    BY <1>3
  <2>3. r \in Ports(b) /\ r # p
    OBVIOUS
  <2>4. ASSUME NoCircle PROVE Placed(c, q, f.src)
    <3>1. PICK l \in {HomeOf[f.src], at[f.src]} : LeadsTo(b, p, l)
      BY <2>4 DEF Arriving, Placed
    <3>2. LeadsTo(c, q, l)
      BY <2>2, <2>3, <2>4, <3>1, LeadsOn
    <3> QED BY <3>1, <3>2 DEF Placed
  <2> QED BY <2>1, <2>4 DEF Arriving
<1>4. ASSUME NEW c \in Bridges, NEW q \in Ports(c)
      PROVE  frames'[c][q] \in Seq(Arriving(c, q))
  <2>1. box[c][q] \in Seq(Arriving(c, q))
    BY DEF GoodQueues
  <2>2. /\ Cardinality(From(c, q)) \in Nat
        /\ From(c, q) = {} <=> Cardinality(From(c, q)) = 0
    <3>1. From(c, q) \in SUBSET Ports(b)
      OBVIOUS
    <3> HIDE DEF From
    <3> QED BY <3>1, PortsAreFinite
  <2>3. box[c][q] \o [i \in 1..Cardinality(From(c, q)) |-> Copy(f)] \in Seq(Arriving(c, q))
    <3> HIDE DEF From
    <3> QED BY <1>3, <2>1, <2>2, AppendCopies
  <2>4. frames'[c][q] = IF On(c)
            THEN box[c][q] \o [i \in 1..Cardinality(From(c, q)) |-> Copy(f)]
            ELSE box[c][q]
    <3> HIDE DEF From, Copy
    <3> QED BY <1>1
  <2> QED BY <2>1, <2>3, <2>4
<1>5. DOMAIN frames' = Bridges /\ \A c \in Bridges : DOMAIN frames'[c] = Ports(c)
  <2> HIDE DEF From, Copy
  <2> QED BY <1>1
<1> QED BY <1>2, <1>4, <1>5 DEF GoodQueues

(* A frame goes out on other ports than it came in on.                     *)
LEMMA OutIsElsewhere ==
    ASSUME FInv, NEW b \in Bridges, NEW p \in Ports(b), NEW f \in Frame
    PROVE  /\ Learnt(b, p, f) \in [Hosts -> Ports(b) \cup {None}]
           /\ Out(b, p, f) \in SUBSET (Ports(b) \ {p})
<1>1. f.src \in Hosts /\ f.dst \in Hosts
  BY DEF Frame
<1>2. table[b] \in [Hosts -> Ports(b) \cup {None}]
  BY DEF FInv, GoodTables
<1>3. Learnt(b, p, f) \in [Hosts -> Ports(b) \cup {None}]
  BY <1>1, <1>2 DEF Learnt
<1>4. Out(b, p, f) \in SUBSET (Ports(b) \ {p})
  BY <1>1, <1>3 DEF Out
<1> QED BY <1>3, <1>4

(* A host sends a frame.                                                   *)
LEMMA HostSendsKeepsFInv ==
    ASSUME FInv, NEW h \in Hosts, NEW g \in Hosts, HostSends(h, g)
    PROVE  FInv'
<1> USE DEF FInv
<1>1. MaxFrames \in Nat
  BY HostAssumption
<1>2. sent' = sent + 1 /\ sent' \in 1..MaxFrames
  BY <1>1 DEF HostSends
<1>3. UNCHANGED <<at, table>>
  BY DEF HostSends
<1>4. delivered' \in [1..MaxFrames -> Nat]
  BY <1>2 DEF HostSends
<1>5. GoodTables'
  BY <1>3 DEF GoodTables, TableIsRight
<1> DEFINE f == [src |-> h, dst |-> g, n |-> sent', message |-> ContentOf[sent']]
<1>6. f \in Frame
  <2>1. ContentOf[sent'] \in [DOMAIN ContentOf[sent'] -> JSON]
    BY <1>2, HostAssumption
  <2>2. ContentOf[sent'] \in Message
    BY <1>2, <2>1 DEF Message
  <2> QED BY <1>2, <2>1, <2>2 DEF Frame
<1>7. frames' = [c \in Bridges |-> [q \in Ports(c) |->
          IF On(c) /\ LanOf[c][q] = at[h] THEN Append(frames[c][q], f) ELSE frames[c][q]]]
  BY DEF HostSends
<1>8. ASSUME NEW c \in Bridges, NEW q \in Ports(c)
      PROVE  frames'[c][q] \in Seq(Arriving(c, q)')
  <2>1. Arriving(c, q)' = Arriving(c, q)
    BY <1>3 DEF Arriving, Placed
  <2>2. frames[c][q] \in Seq(Arriving(c, q))
    BY DEF GoodQueues
  <2>3. CASE On(c) /\ LanOf[c][q] = at[h]
    <3>1. LeadsTo(c, q, at[h])
      BY <2>3, LeadsToItsLan
    <3>2. f \in Arriving(c, q)
      BY <1>6, <3>1 DEF Arriving, Placed
    <3>3. frames'[c][q] = Append(frames[c][q], f)
      BY <1>7, <2>3
    <3> HIDE DEF f
    <3> QED BY <2>1, <2>2, <3>2, <3>3, AppendProperties
  <2>4. CASE ~(On(c) /\ LanOf[c][q] = at[h])
    BY <1>7, <2>1, <2>2, <2>4
  <2> QED BY <2>3, <2>4
<1>9. DOMAIN frames' = Bridges /\ \A c \in Bridges : DOMAIN frames'[c] = Ports(c)
  BY <1>7
<1>10. GoodQueues(frames)'
  BY <1>8, <1>9 DEF GoodQueues
<1> QED BY <1>2, <1>3, <1>4, <1>5, <1>10

(* A host moves.                                                           *)
LEMMA MoveKeepsFInv ==
    ASSUME FInv, NEW h \in Hosts, Move(h)
    PROVE  FInv'
<1> USE DEF FInv
<1>1. at' \in [Hosts -> Lans] /\ UNCHANGED <<table, frames, sent, delivered>>
  BY DEF Move
<1>2. \A g \in Hosts : {HomeOf[g], at[g]} \subseteq {HomeOf[g], at'[g]}
  BY DEF Move
<1>3. ASSUME NEW c \in Bridges, NEW q \in Ports(c)
      PROVE  Seq(Arriving(c, q)) \subseteq Seq(Arriving(c, q)')
  <2>1. \A f \in Frame : f.src \in Hosts
    BY DEF Frame
  <2>2. Arriving(c, q) \subseteq Arriving(c, q)'
    BY <1>2, <2>1 DEF Arriving, Placed
  <2> QED BY <2>2
<1>4. GoodQueues(frames)'
  BY <1>1, <1>3 DEF GoodQueues
<1>5. GoodTables'
  BY <1>1, <1>2 DEF GoodTables, TableIsRight
<1> QED BY <1>1, <1>4, <1>5

(* A bridge handles a frame.                                               *)
LEMMA HandleFrameKeepsFInv ==
    ASSUME FInv, NEW b \in Bridges, NEW p \in Ports(b), HandleFrame(b, p)
    PROVE  FInv'
<1> USE DEF FInv
<1> DEFINE f == Head(frames[b][p])
           box == [frames EXCEPT ![b][p] = Tail(@)]
<1>1. UNCHANGED <<at, sent>>
  BY DEF HandleFrame
<1>2. /\ frames[b][p] \in Seq(Arriving(b, p)) /\ frames[b][p] # <<>>
      /\ DOMAIN frames = Bridges /\ DOMAIN frames[b] = Ports(b)
  BY DEF HandleFrame, GoodQueues
<1>3. f \in Arriving(b, p) /\ Tail(frames[b][p]) \in Seq(Arriving(b, p))
  BY <1>2, HeadTailProperties
<1>4. f \in Frame /\ f.src \in Hosts /\ f.dst \in Hosts /\ f.n \in 1..MaxFrames
  BY <1>3 DEF Arriving, Frame
<1>5. GoodQueues(box)
  BY <1>2, <1>3 DEF GoodQueues
<1>6. /\ table' = [table EXCEPT ![b] = Learnt(b, p, f)]
      /\ Pass(box, b, Out(b, p, f), f)
      /\ delivered' = [delivered EXCEPT ![f.n] =
            Twice(@ + Cardinality({q \in Out(b, p, f) : LanOf[b][q] = at[f.dst]}))]
  BY DEF HandleFrame
<1> HIDE DEF f, box
<1>7. /\ Learnt(b, p, f) \in [Hosts -> Ports(b) \cup {None}]
      /\ Out(b, p, f) \in SUBSET (Ports(b) \ {p})
  BY <1>4, OutIsElsewhere
<1>8. GoodQueues(frames)'
  BY <1>1, <1>3, <1>5, <1>6, <1>7, PassKeepsQueues
<1>9. delivered' \in [1..MaxFrames -> Nat]
  <2> DEFINE S == {q \in Out(b, p, f) : LanOf[b][q] = at[f.dst]}
  <2>1. S \in SUBSET Ports(b)
    BY <1>7
  <2> HIDE DEF S
  <2>2. Cardinality(S) \in Nat
    BY <2>1, PortsAreFinite
  <2>3. delivered' = [delivered EXCEPT ![f.n] = Twice(@ + Cardinality(S))]
    BY <1>6 DEF S
  <2> QED BY <1>4, <2>2, <2>3 DEF Twice
<1>10. GoodTables'
  <2>1. /\ DOMAIN table = Bridges
        /\ \A c \in Bridges : table[c] \in [Hosts -> Ports(c) \cup {None}]
    BY DEF GoodTables
  <2>2. /\ DOMAIN table' = Bridges
        /\ \A c \in Bridges : table'[c] \in [Hosts -> Ports(c) \cup {None}]
    BY <1>6, <1>7, <2>1
  <2>3. ASSUME NoCircle PROVE TableIsRight'
    <3> SUFFICES ASSUME NEW c \in Bridges, NEW h \in Hosts, table'[c][h] # None
                 PROVE  \E l \in {HomeOf[h], at[h]} : LeadsTo(c, table'[c][h], l)
      BY <1>1 DEF TableIsRight
    <3>1. CASE c = b /\ h = f.src /\ table[b][h] = None
      <4>1. table'[c][h] = p
        BY <1>6, <2>1, <3>1 DEF Learnt
      <4> QED BY <1>3, <2>3, <3>1, <4>1 DEF Arriving, Placed
    <3>2. CASE ~(c = b /\ h = f.src /\ table[b][h] = None)
      <4>1. table'[c][h] = table[c][h]
        BY <1>4, <1>6, <2>1, <3>2 DEF Learnt
      <4> QED BY <2>3, <4>1 DEF GoodTables, TableIsRight
    <3> QED BY <3>1, <3>2
  <2> QED BY <2>2, <2>3 DEF GoodTables
<1> QED BY <1>1, <1>8, <1>9, <1>10

(* A turn of the spanning tree may empty the table.                        *)
LEMMA TurnKeepsFInv ==
    ASSUME FInv, NEW b \in Bridges, NEW read \in SUBSET Ports(b), TurnAndForget(b, read)
    PROVE  FInv'
<1> USE DEF FInv
<1>1. /\ UNCHANGED <<at, frames, sent, delivered>>
      /\ table' = table \/ table' = [table EXCEPT ![b] = Unknown]
  BY DEF TurnAndForget
<1>2. GoodQueues(frames)'
  BY <1>1 DEF GoodQueues, Arriving, Placed
<1>3. CASE table' = table
  BY <1>1, <1>2, <1>3 DEF GoodTables, TableIsRight
<1>4. CASE table' = [table EXCEPT ![b] = Unknown]
  <2>1. Unknown \in [Hosts -> {None}]
    BY DEF Unknown
  <2>2. /\ DOMAIN table' = Bridges
        /\ \A c \in Bridges : table'[c] \in [Hosts -> Ports(c) \cup {None}]
    BY <1>4, <2>1 DEF GoodTables
  <2>3. \A c \in Bridges : \A h \in Hosts :
            table'[c][h] = None \/ table'[c][h] = table[c][h]
    BY <1>4, <2>1 DEF GoodTables
  <2>4. TableIsRight => TableIsRight'
    BY <1>1, <2>3 DEF TableIsRight
  <2> QED BY <1>1, <1>2, <2>2, <2>4 DEF GoodTables
<1> QED BY <1>1, <1>3, <1>4

(* A bridge stops.                                                         *)
LEMMA StopKeepsFInv ==
    ASSUME FInv, NEW b \in Bridges, StopBridge(b)
    PROVE  FInv'
<1> USE DEF FInv
<1>1. /\ UNCHANGED <<at, table, sent, delivered>>
      /\ frames' = [frames EXCEPT ![b] = [p \in Ports(b) |-> <<>>]]
  BY DEF StopBridge
<1>2. GoodTables'
  BY <1>1 DEF GoodTables, TableIsRight
<1>3. ASSUME NEW c \in Bridges, NEW q \in Ports(c)
      PROVE  frames'[c][q] \in Seq(Arriving(c, q))
  <2>1. <<>> \in Seq(Arriving(c, q))
    BY EmptySeq
  <2> QED BY <1>1, <2>1 DEF GoodQueues
<1>4. DOMAIN frames' = Bridges /\ \A c \in Bridges : DOMAIN frames'[c] = Ports(c)
  BY <1>1 DEF GoodQueues
<1>5. GoodQueues(frames)'
  BY <1>1, <1>3, <1>4 DEF GoodQueues, Arriving, Placed
<1> QED BY <1>1, <1>2, <1>5

-----------------------------------------------------------------------------
(* FInv is inductive: it holds in every state of every network.            *)
THEOREM ForwardingInvariance == ForwardingSpec => []FInv
<1>1. ForwardingInit => FInv
  <2> SUFFICES ASSUME ForwardingInit PROVE FInv
    OBVIOUS
  <2> USE DEF ForwardingInit
  <2>1. at \in [Hosts -> Lans] /\ sent \in 0..MaxFrames /\ delivered \in [1..MaxFrames -> Nat]
    BY HostAssumption
  <2>2. GoodTables
    BY DEF GoodTables, TableIsRight, Unknown
  <2>3. GoodQueues(frames)
    BY EmptySeq DEF GoodQueues
  <2> QED BY <2>1, <2>2, <2>3 DEF FInv
<1>2. FInv /\ [ForwardingNext]_allVars => FInv'
  <2> SUFFICES ASSUME FInv, [ForwardingNext]_allVars PROVE FInv'
    OBVIOUS
  <2>1. CASE UNCHANGED allVars
    BY <2>1 DEF allVars, data, FInv, GoodTables, TableIsRight, GoodQueues, Arriving, Placed
  <2>2. ASSUME NEW h \in Hosts, NEW g \in Hosts, HostSends(h, g) PROVE FInv'
    BY <2>2, HostSendsKeepsFInv
  <2>3. ASSUME NEW h \in Hosts, Move(h) PROVE FInv'
    BY <2>3, MoveKeepsFInv
  <2>4. ASSUME NEW b \in Bridges, StartBridge(b) PROVE FInv'
    BY <2>4 DEF StartBridge, data, FInv, GoodTables, TableIsRight, GoodQueues, Arriving, Placed
  <2>5. ASSUME NEW b \in Bridges, StopBridge(b) PROVE FInv'
    BY <2>5, StopKeepsFInv
  <2>6. ASSUME NEW b \in Bridges, NEW p \in Ports(b), HandleFrame(b, p) PROVE FInv'
    BY <2>6, HandleFrameKeepsFInv
  <2>7. ASSUME NEW b \in Bridges, NEW read \in SUBSET Ports(b), TurnAndForget(b, read)
        PROVE  FInv'
    BY <2>7, TurnKeepsFInv
  <2> QED BY <2>1, <2>2, <2>3, <2>4, <2>5, <2>6, <2>7 DEF ForwardingNext
<1> QED BY <1>1, <1>2, PTL DEF ForwardingSpec

(* The types of the variables are right.                                   *)
THEOREM ForwardingTypeCorrect == ForwardingSpec => []ForwardingTypeOK
<1>1. FInv => ForwardingTypeOK
  <2> SUFFICES ASSUME FInv PROVE ForwardingTypeOK
    OBVIOUS
  <2>1. ASSUME NEW b \in Bridges, NEW p \in Ports(b), NEW i \in DOMAIN frames[b][p]
        PROVE  IsFrame(frames[b][p][i])
    <3>1. frames[b][p] \in Seq(Arriving(b, p))
      BY DEF FInv, GoodQueues
    <3>2. frames[b][p][i] \in Frame
      BY <3>1, ElementOfSeq, LenProperties DEF Arriving
    <3> QED BY <3>2 DEF IsFrame, Frame
  <2> QED BY <2>1 DEF ForwardingTypeOK, FInv, GoodTables, GoodQueues
<1> QED BY <1>1, ForwardingInvariance, PTL

(* Every bridge of every network reads in a frame what its host has sent.  *)
THEOREM KeepsContent == ForwardingSpec => []ContentKept
<1>1. FInv => ContentKept
  <2> SUFFICES ASSUME FInv,
                      NEW b \in Bridges, NEW p \in Ports(b), NEW i \in DOMAIN frames[b][p]
               PROVE  Deserialize(frames[b][p][i].message)
                        = Deserialize(ContentOf[frames[b][p][i].n])
    BY DEF ContentKept
  <2>1. frames[b][p] \in Seq(Arriving(b, p))
    BY DEF FInv, GoodQueues
  <2>2. frames[b][p][i] \in Frame
    BY <2>1, ElementOfSeq, LenProperties DEF Arriving
  <2> QED BY <2>2 DEF Frame
<1> QED BY <1>1, ForwardingInvariance, PTL

(* Where the LANs and bridges form no circle, every table is right.        *)
THEOREM FilesHostsRightly == NoCircle => (ForwardingSpec => []TableIsRight)
<1> SUFFICES ASSUME NoCircle PROVE ForwardingSpec => []TableIsRight
  OBVIOUS
<1>1. FInv => TableIsRight
  BY DEF FInv, GoodTables
<1> QED BY <1>1, ForwardingInvariance, PTL

-----------------------------------------------------------------------------
(* Frames in a network without a circle.                                   *)

(* The LANs that port q of c leads to; those ahead of a frame that comes   *)
(* in on it.                                                               *)
Near(c, q) == {l \in Lans : LeadsTo(c, q, l)}
Ahead(c, q) == UNION {Near(c, r) : r \in Ports(c) \ {q}}

(* A LAN that a frame on its way to one port has been on is not ahead of   *)
(* one on its way to another, and no LAN is ahead of both.                 *)
Parted(c, q, d, r) == /\ LanOf[c][q] \notin Ahead(d, r)
                      /\ Ahead(c, q) \cap Ahead(d, r) = {}

(* A frame that leaves on port s of b comes to port q of c.                *)
Adjoins(b, s, c, q) == LanOf[b][s] = LanOf[c][q] /\ <<b, s>> # <<c, q>>

(* Two ports of a bridge lead to different LANs.                           *)
LEMMA NearsApart ==
    ASSUME NoCircle, NEW c \in Bridges, NEW q \in Ports(c), NEW s \in Ports(c), q # s
    PROVE  Near(c, q) \cap Near(c, s) = {}
<1> DEFINE rest == Lans \ Near(c, q)
<1>1. LanOf[c][s] \in rest
  BY PortsAreOnLans DEF NoCircle, Near
<1>2. \A e \in Bridges \ {c} : \A t, u \in Ports(e) :
         LanOf[e][t] \in Near(c, q) => LanOf[e][u] \in Near(c, q)
  BY PortsAreOnLans DEF LeadsTo, Near
<1>3. \A e \in Bridges \ {c} : \A t, u \in Ports(e) :
         LanOf[e][t] \in rest => LanOf[e][u] \in rest
  BY <1>2, PortsAreOnLans
<1>4. rest \in SUBSET Lans
  OBVIOUS
<1>5. ASSUME NEW l \in Near(c, s) PROVE l \in rest
  <2> HIDE DEF rest
  <2> QED BY <1>1, <1>3, <1>4, <1>5 DEF Near, LeadsTo
<1> QED BY <1>5

(* A port's own LAN is not ahead of it.                                    *)
LEMMA OwnLanIsNear ==
    ASSUME NoCircle, NEW c \in Bridges, NEW q \in Ports(c)
    PROVE  /\ LanOf[c][q] \in Near(c, q)
           /\ Near(c, q) \cap Ahead(c, q) = {}
<1>1. LanOf[c][q] \in Near(c, q)
  BY LeadsToItsLan, PortsAreOnLans DEF Near
<1>2. \A r \in Ports(c) \ {q} : Near(c, q) \cap Near(c, r) = {}
  BY NearsApart
<1> QED BY <1>1, <1>2 DEF Ahead

(* What is ahead of the next port is behind this one.                      *)
LEMMA AheadIsNear ==
    ASSUME NoCircle, NEW b \in Bridges, NEW s \in Ports(b),
           NEW c \in Bridges, NEW q \in Ports(c), Adjoins(b, s, c, q)
    PROVE  Ahead(c, q) \subseteq Near(b, s) /\ LanOf[c][q] \in Near(b, s)
<1>1. ASSUME NEW r \in Ports(c) \ {q}, NEW l \in Near(c, r) PROVE l \in Near(b, s)
  <2>1. LeadsTo(c, r, l) /\ l \in Lans
    BY <1>1 DEF Near
  <2>2. LeadsTo(b, s, l)
    BY <1>1, <2>1, LeadsOn DEF Adjoins
  <2> QED BY <2>1, <2>2 DEF Near
<1>2. LanOf[c][q] \in Near(b, s)
  BY OwnLanIsNear DEF Adjoins
<1> QED BY <1>1, <1>2 DEF Ahead

(* Copies of a frame that are on one LAN, on their way to its ports.       *)
LEMMA SiblingsParted ==
    ASSUME NoCircle, NEW c \in Bridges, NEW q \in Ports(c),
           NEW d \in Bridges, NEW r \in Ports(d), Adjoins(c, q, d, r)
    PROVE  Parted(c, q, d, r)
<1>1. Ahead(d, r) \subseteq Near(c, q)
  BY AheadIsNear
<1>2. Near(c, q) \cap Ahead(c, q) = {} /\ Near(d, r) \cap Ahead(d, r) = {}
  BY OwnLanIsNear
<1>3. LanOf[c][q] \in Near(d, r)
  BY OwnLanIsNear DEF Adjoins
<1> QED BY <1>1, <1>2, <1>3 DEF Parted

(* Copies that a bridge sends on two ports.                                *)
LEMMA BranchesParted ==
    ASSUME NoCircle, NEW b \in Bridges, NEW s \in Ports(b), NEW t \in Ports(b), s # t,
           NEW c \in Bridges, NEW q \in Ports(c), Adjoins(b, s, c, q),
           NEW d \in Bridges, NEW r \in Ports(d), Adjoins(b, t, d, r)
    PROVE  Parted(c, q, d, r)
<1>1. Ahead(c, q) \subseteq Near(b, s) /\ LanOf[c][q] \in Near(b, s)
  BY AheadIsNear
<1>2. Ahead(d, r) \subseteq Near(b, t)
  BY AheadIsNear
<1>3. Near(b, s) \cap Near(b, t) = {}
  BY NearsApart
<1> QED BY <1>1, <1>2, <1>3 DEF Parted

(* A copy that a bridge sends, and one that is elsewhere.                  *)
LEMMA OldAndNewParted ==
    ASSUME NoCircle, NEW b \in Bridges, NEW p \in Ports(b), NEW s \in Ports(b), s # p,
           NEW c \in Bridges, NEW q \in Ports(c), Adjoins(b, s, c, q),
           NEW d \in Bridges, NEW r \in Ports(d), Parted(b, p, d, r), Parted(d, r, b, p)
    PROVE  Parted(c, q, d, r) /\ Parted(d, r, c, q) /\ <<c, q>> # <<d, r>>
<1>1. Ahead(c, q) \subseteq Near(b, s) /\ LanOf[c][q] \in Near(b, s)
  BY AheadIsNear
<1>2. Near(b, s) \subseteq Ahead(b, p)
  BY DEF Ahead
<1>3. LanOf[d][r] # LanOf[c][q]
  BY <1>1, <1>2 DEF Parted
<1> QED BY <1>1, <1>2, <1>3 DEF Parted

-----------------------------------------------------------------------------
(* The copies of a frame.                                                  *)

(* Of the copies of a frame there is one in a queue, and those in two      *)
(* queues are parted.                                                      *)
SoleCopies(box) ==
    \A c, d \in Bridges : \A q \in Ports(c), r \in Ports(d) :
        \A i \in DOMAIN box[c][q], j \in DOMAIN box[d][r] :
            box[c][q][i].n = box[d][r][j].n =>
               /\ box[c][q][i].dst = box[d][r][j].dst
               /\ <<c, q>> = <<d, r>> => i = j
               /\ <<c, q>> # <<d, r>> => Parted(c, q, d, r)

(* The frames in box have been sent, and of those that have been delivered *)
(* the destination's LAN is behind.                                        *)
NotAhead(box) ==
    \A c \in Bridges : \A q \in Ports(c) : \A i \in DOMAIN box[c][q] :
        /\ box[c][q][i].n <= sent
        /\ delivered[box[c][q][i].n] > 0 => HomeOf[box[c][q][i].dst] \notin Ahead(c, q)

(* Each frame has been delivered once at most, and not before it is sent.  *)
Single ==
    \A n \in 1..MaxFrames : delivered[n] <= 1 /\ (n > sent => delivered[n] = 0)

(* Inductive, together with FInv, where there is no circle.                *)
OnceInv == at = HomeOf => SoleCopies(frames) /\ NotAhead(frames) /\ Single

(* The copies in box are parted from the frame f that came in on p.        *)
Apart(box, b, p, f) ==
    \A c \in Bridges : \A q \in Ports(c) : \A i \in DOMAIN box[c][q] :
        box[c][q][i].n = f.n => /\ box[c][q][i].dst = f.dst
                                /\ Parted(b, p, c, q) /\ Parted(c, q, b, p)

(* Every element of a queue of frames is a frame.                          *)
LEMMA InQueue ==
    ASSUME NEW box, GoodQueues(box), NEW c \in Bridges, NEW q \in Ports(c)
    PROVE  /\ box[c][q] \in Seq(Arriving(c, q)) /\ Len(box[c][q]) \in Nat
           /\ DOMAIN box[c][q] = 1 .. Len(box[c][q])
           /\ \A i \in DOMAIN box[c][q] :
                 /\ box[c][q][i] \in Frame
                 /\ box[c][q][i].n \in 1..MaxFrames /\ box[c][q][i].dst \in Hosts
<1>1. box[c][q] \in Seq(Arriving(c, q))
  BY DEF GoodQueues
<1>2. Len(box[c][q]) \in Nat /\ DOMAIN box[c][q] = 1 .. Len(box[c][q])
  BY <1>1, LenProperties
<1>3. \A i \in DOMAIN box[c][q] : box[c][q][i] \in Frame
  BY <1>1, <1>2, ElementOfSeq DEF Arriving
<1> QED BY <1>1, <1>2, <1>3 DEF Frame

(* The queues once bridge b has read the first frame of port p.            *)
LEMMA HeadTaken ==
    ASSUME GoodQueues(frames), NEW b \in Bridges, NEW p \in Ports(b), frames[b][p] # <<>>,
           NEW f, f = Head(frames[b][p]),
           NEW box, box = [frames EXCEPT ![b][p] = Tail(@)],
           SoleCopies(frames), NotAhead(frames)
    PROVE  /\ SoleCopies(box) /\ NotAhead(box) /\ Apart(box, b, p, f)
           /\ f.n <= sent /\ (delivered[f.n] > 0 => HomeOf[f.dst] \notin Ahead(b, p))
<1> DEFINE Old(c, q, i) == IF <<c, q>> = <<b, p>> THEN i + 1 ELSE i
<1>1. /\ frames[b][p] \in Seq(Arriving(b, p)) /\ Len(frames[b][p]) \in Nat
      /\ DOMAIN frames[b][p] = 1 .. Len(frames[b][p])
  BY InQueue
<1>2. /\ 1 \in DOMAIN frames[b][p] /\ f = frames[b][p][1]
      /\ DOMAIN Tail(frames[b][p]) = 1 .. Len(frames[b][p]) - 1
      /\ \A i \in 1 .. Len(frames[b][p]) - 1 :
            /\ Tail(frames[b][p])[i] = frames[b][p][i + 1]
            /\ i + 1 \in DOMAIN frames[b][p] /\ i + 1 # 1
  BY <1>1, HeadTailProperties, EmptySeq
<1>3. DOMAIN frames = Bridges /\ \A c \in Bridges : DOMAIN frames[c] = Ports(c)
  BY DEF GoodQueues
<1>4. ASSUME NEW c \in Bridges, NEW q \in Ports(c), NEW i \in DOMAIN box[c][q]
      PROVE  /\ Old(c, q, i) \in DOMAIN frames[c][q]
             /\ box[c][q][i] = frames[c][q][Old(c, q, i)]
             /\ i \in Int /\ (<<c, q>> = <<b, p>> => Old(c, q, i) # 1)
  <2>1. CASE <<c, q>> = <<b, p>>
    <3>1. box[c][q] = Tail(frames[b][p])
      BY <1>3, <2>1
    <3>2. c = b /\ q = p /\ Old(c, q, i) = i + 1
      BY <2>1
    <3>3. i \in 1 .. Len(frames[b][p]) - 1 /\ box[c][q][i] = frames[b][p][i + 1]
      BY <1>2, <3>1
    <3> HIDE DEF Old
    <3> QED BY <1>1, <1>2, <3>2, <3>3
  <2>2. CASE <<c, q>> # <<b, p>>
    <3>1. box[c][q] = frames[c][q]
      BY <1>3, <2>2
    <3>2. i \in Int
      BY <3>1, InQueue
    <3> QED BY <2>2, <3>1, <3>2
  <2> QED BY <2>1, <2>2
<1>5. ASSUME NEW c \in Bridges, NEW q \in Ports(c), NEW i \in DOMAIN box[c][q],
             NEW j \in DOMAIN box[c][q], Old(c, q, i) = Old(c, q, j)
      PROVE  i = j
  <2>1. i \in Int /\ j \in Int
    BY <1>4
  <2> QED BY <1>5, <2>1
<1> HIDE DEF Old
<1>6. SoleCopies(box)
  <2> SUFFICES ASSUME NEW c \in Bridges, NEW d \in Bridges, NEW q \in Ports(c), NEW r \in Ports(d),
                      NEW i \in DOMAIN box[c][q], NEW j \in DOMAIN box[d][r],
                      box[c][q][i].n = box[d][r][j].n
               PROVE  /\ box[c][q][i].dst = box[d][r][j].dst
                      /\ <<c, q>> = <<d, r>> => i = j
                      /\ <<c, q>> # <<d, r>> => Parted(c, q, d, r)
    BY DEF SoleCopies
  <2>1. /\ Old(c, q, i) \in DOMAIN frames[c][q] /\ box[c][q][i] = frames[c][q][Old(c, q, i)]
        /\ Old(d, r, j) \in DOMAIN frames[d][r] /\ box[d][r][j] = frames[d][r][Old(d, r, j)]
    BY <1>4
  <2>2. /\ box[c][q][i].dst = box[d][r][j].dst
        /\ <<c, q>> = <<d, r>> => Old(c, q, i) = Old(d, r, j)
        /\ <<c, q>> # <<d, r>> => Parted(c, q, d, r)
    BY <2>1 DEF SoleCopies
  <2>3. <<c, q>> = <<d, r>> => i = j
    BY <1>5, <2>2
  <2> QED BY <2>2, <2>3
<1>7. NotAhead(box)
  BY <1>4 DEF NotAhead
<1>8. Apart(box, b, p, f)
  <2> SUFFICES ASSUME NEW c \in Bridges, NEW q \in Ports(c), NEW i \in DOMAIN box[c][q],
                      box[c][q][i].n = f.n
               PROVE  /\ box[c][q][i].dst = f.dst
                      /\ Parted(b, p, c, q) /\ Parted(c, q, b, p)
    BY DEF Apart
  <2>1. /\ Old(c, q, i) \in DOMAIN frames[c][q] /\ box[c][q][i] = frames[c][q][Old(c, q, i)]
        /\ <<c, q>> = <<b, p>> => Old(c, q, i) # 1
    BY <1>4
  <2>2. <<c, q>> # <<b, p>>
    BY <1>2, <2>1 DEF SoleCopies
  <2> QED BY <1>2, <2>1, <2>2 DEF SoleCopies
<1>9. f.n <= sent /\ (delivered[f.n] > 0 => HomeOf[f.dst] \notin Ahead(b, p))
  BY <1>2 DEF NotAhead
<1> QED BY <1>6, <1>7, <1>8, <1>9

(* The queues once bridge b has sent frame f on the ports in out: each has *)
(* one copy more at most.                                                  *)
SentOn(old, new, b, out, f) ==
    \A c \in Bridges : \A q \in Ports(c) : \A i \in DOMAIN new[c][q] :
        \/ i \in DOMAIN old[c][q] /\ new[c][q][i] = old[c][q][i]
        \/ /\ i = Len(old[c][q]) + 1 /\ new[c][q][i] = Copy(f)
           /\ \E r \in out : Adjoins(b, r, c, q)

(* Where there is no circle, one port at most leads to another.            *)
LEMMA SendsCopies ==
    ASSUME NoCircle, NEW box, GoodQueues(box), NEW b \in Bridges, NEW p \in Ports(b),
           NEW out \in SUBSET (Ports(b) \ {p}), NEW f, Pass(box, b, out, f)
    PROVE  SentOn(box, frames', b, out, f)
<1> SUFFICES ASSUME NEW c \in Bridges, NEW q \in Ports(c), NEW i \in DOMAIN frames'[c][q]
             PROVE  \/ i \in DOMAIN box[c][q] /\ frames'[c][q][i] = box[c][q][i]
                    \/ /\ i = Len(box[c][q]) + 1 /\ frames'[c][q][i] = Copy(f)
                       /\ \E r \in out : Adjoins(b, r, c, q)
  BY DEF SentOn
<1> DEFINE From == {r \in out : LanOf[b][r] = LanOf[c][q] /\ <<b, r>> # <<c, q>>}
           new == [k \in 1..Cardinality(From) |-> Copy(f)]
<1>1. frames'[c][q] = IF On(c) THEN box[c][q] \o new ELSE box[c][q]
  BY DEF Pass, Copy
<1>2. \A r, s \in From : r = s
  <2> SUFFICES ASSUME NEW r \in From, NEW s \in From, r # s PROVE FALSE
    OBVIOUS
  <2>1. r \in Ports(b) /\ s \in Ports(b) /\ LanOf[b][r] = LanOf[b][s]
    OBVIOUS
  <2>2. LeadsTo(b, r, LanOf[b][s])
    BY <2>1, LeadsToItsLan
  <2> QED BY <2>1, <2>2 DEF NoCircle
<1>3. From = {} \/ \E r \in out : Adjoins(b, r, c, q) /\ From = {r}
  <2>1. ASSUME NEW r \in From PROVE Adjoins(b, r, c, q) /\ From = {r} /\ r \in out
    BY <1>2, <2>1 DEF Adjoins
  <2> HIDE DEF From
  <2> QED BY <2>1
<1> HIDE DEF From
<1>4. /\ Cardinality(From) \in {0, 1}
      /\ Cardinality(From) = 1 => \E r \in out : Adjoins(b, r, c, q)
  BY <1>3, FS_EmptySet, FS_Singleton
<1>5. box[c][q] \in Seq(Arriving(c, q)) /\ Len(box[c][q]) \in Nat
      /\ DOMAIN box[c][q] = 1 .. Len(box[c][q])
  BY InQueue
<1>6. CASE frames'[c][q] = box[c][q]
  BY <1>6
<1>7. CASE frames'[c][q] = box[c][q] \o new
  <2>1. new \in Seq({Copy(f)}) /\ Len(new) = Cardinality(From)
    BY <1>4
  <2>2. box[c][q] \in Seq(Arriving(c, q) \cup {Copy(f)}) /\ new \in Seq(Arriving(c, q) \cup {Copy(f)})
    BY <1>5, <2>1, SeqMonotonic
  <2>3. CASE i <= Len(box[c][q])
    BY <1>5, <1>7, <2>1, <2>2, <2>3, ConcatProperties
  <2>4. CASE i > Len(box[c][q])
    BY <1>4, <1>5, <1>7, <2>1, <2>2, <2>4, ConcatProperties, SMTT(20)
  <2>5. i \in 1 .. Len(box[c][q]) + Len(new)
    <3>1. /\ box[c][q] \o new \in Seq(Arriving(c, q) \cup {Copy(f)})
          /\ Len(box[c][q] \o new) = Len(box[c][q]) + Len(new)
      <4> HIDE DEF new
      <4> QED BY <2>2, ConcatProperties
    <3>2. i \in DOMAIN (box[c][q] \o new)
      BY <1>7
    <3> HIDE DEF new
    <3> QED BY <3>1, <3>2, LenProperties
  <2>6. i <= Len(box[c][q]) \/ i > Len(box[c][q])
    BY <1>5, <2>5
  <2> QED BY <2>3, <2>4, <2>6
<1> QED BY <1>1, <1>6, <1>7

(* What is written of a frame has its number and its destination.          *)
LEMMA CopyKeeps ==
    ASSUME NEW f \in Frame
    PROVE  Copy(f).n = f.n /\ Copy(f).dst = f.dst
BY DEF Copy, Frame

(* The copies that a bridge sends are parted from each other, and from     *)
(* those that are elsewhere.                                               *)
LEMMA PassKeepsSole ==
    ASSUME NoCircle, NEW box, GoodQueues(box), NEW b \in Bridges, NEW p \in Ports(b),
           NEW out \in SUBSET (Ports(b) \ {p}), NEW f \in Frame, SentOn(box, frames', b, out, f),
           SoleCopies(box), Apart(box, b, p, f)
    PROVE  SoleCopies(frames')
<1> DEFINE IsOld(c, q, i) == i \in DOMAIN box[c][q] /\ frames'[c][q][i] = box[c][q][i]
           IsNew(c, q, i) == /\ i = Len(box[c][q]) + 1 /\ frames'[c][q][i] = Copy(f)
                             /\ \E r \in out : Adjoins(b, r, c, q)
<1>1. ASSUME NEW c \in Bridges, NEW q \in Ports(c), NEW i \in DOMAIN frames'[c][q]
      PROVE  IsOld(c, q, i) \/ IsNew(c, q, i)
  BY DEF SentOn
<1>2. Copy(f).n = f.n /\ Copy(f).dst = f.dst
  BY CopyKeeps
<1>3. ASSUME NEW c \in Bridges, NEW q \in Ports(c), NEW i, IsNew(c, q, i),
             NEW d \in Bridges, NEW r \in Ports(d), NEW j, IsOld(d, r, j),
             frames'[c][q][i].n = frames'[d][r][j].n
      PROVE  /\ frames'[c][q][i].dst = frames'[d][r][j].dst
             /\ <<c, q>> # <<d, r>> /\ Parted(c, q, d, r) /\ Parted(d, r, c, q)
  <2>1. box[d][r][j].n = f.n /\ frames'[d][r][j] = box[d][r][j] /\ j \in DOMAIN box[d][r]
    BY <1>2, <1>3
  <2>2. box[d][r][j].dst = f.dst /\ Parted(b, p, d, r) /\ Parted(d, r, b, p)
    BY <2>1 DEF Apart
  <2>3. PICK s \in out : Adjoins(b, s, c, q)
    BY <1>3
  <2>4. s \in Ports(b) /\ s # p
    BY <2>3
  <2>5. Parted(c, q, d, r) /\ Parted(d, r, c, q) /\ <<c, q>> # <<d, r>>
    BY <2>2, <2>3, <2>4, OldAndNewParted
  <2> QED BY <1>2, <1>3, <2>1, <2>2, <2>5
<1>4. ASSUME NEW c \in Bridges, NEW q \in Ports(c), NEW i, IsNew(c, q, i),
             NEW d \in Bridges, NEW r \in Ports(d), NEW j, IsNew(d, r, j)
      PROVE  /\ frames'[c][q][i].dst = frames'[d][r][j].dst
             /\ <<c, q>> = <<d, r>> => i = j
             /\ <<c, q>> # <<d, r>> => Parted(c, q, d, r)
  <2>1. PICK s \in out : Adjoins(b, s, c, q)
    BY <1>4
  <2>2. PICK t \in out : Adjoins(b, t, d, r)
    BY <1>4
  <2>3. s \in Ports(b) /\ t \in Ports(b)
    BY <2>1, <2>2
  <2>4. CASE s # t
    BY <1>4, <2>1, <2>2, <2>3, <2>4, BranchesParted
  <2>5. CASE s = t /\ <<c, q>> # <<d, r>>
    <3>1. Adjoins(c, q, d, r)
      BY <2>1, <2>2, <2>5 DEF Adjoins
    <3> QED BY <1>4, <2>5, <3>1, SiblingsParted
  <2> QED BY <1>4, <2>4, <2>5
<1> HIDE DEF IsNew
<1>5. SUFFICES ASSUME NEW c \in Bridges, NEW d \in Bridges, NEW q \in Ports(c), NEW r \in Ports(d),
                      NEW i \in DOMAIN frames'[c][q], NEW j \in DOMAIN frames'[d][r],
                      frames'[c][q][i].n = frames'[d][r][j].n
               PROVE  /\ frames'[c][q][i].dst = frames'[d][r][j].dst
                      /\ <<c, q>> = <<d, r>> => i = j
                      /\ <<c, q>> # <<d, r>> => Parted(c, q, d, r)
  BY DEF SoleCopies
<1>6. CASE IsOld(c, q, i) /\ IsOld(d, r, j)
  BY <1>5, <1>6 DEF SoleCopies
<1>7. CASE IsNew(c, q, i) /\ IsOld(d, r, j)
  <2> HIDE DEF IsOld
  <2> QED BY <1>3, <1>5, <1>7
<1>8. CASE IsOld(c, q, i) /\ IsNew(d, r, j)
  <2> HIDE DEF IsOld
  <2> QED BY <1>3, <1>5, <1>8
<1>9. CASE IsNew(c, q, i) /\ IsNew(d, r, j)
  BY <1>4, <1>9
<1> HIDE DEF IsOld
<1> QED BY <1>1, <1>6, <1>7, <1>8, <1>9

(* A frame is put on the LAN of its host once.                             *)
LEMMA PassDelivers ==
    ASSUME NoCircle, NEW box, GoodQueues(box), NEW b \in Bridges, NEW p \in Ports(b),
           NEW out \in SUBSET (Ports(b) \ {p}), NEW f \in Frame, SentOn(box, frames', b, out, f),
           Apart(box, b, p, f), NotAhead(box), Single, delivered \in [1..MaxFrames -> Nat],
           sent \in Nat, f.n <= sent, sent' = sent,
           delivered[f.n] > 0 => HomeOf[f.dst] \notin Ahead(b, p),
           delivered' = [delivered EXCEPT ![f.n] =
               Twice(@ + Cardinality({q \in out : LanOf[b][q] = HomeOf[f.dst]}))]
    PROVE  NotAhead(frames)' /\ Single'
<1>0. ASSUME NEW c \in Bridges, NEW q \in Ports(c), NEW i \in DOMAIN frames'[c][q]
      PROVE  \/ i \in DOMAIN box[c][q] /\ frames'[c][q][i] = box[c][q][i]
             \/ /\ i = Len(box[c][q]) + 1 /\ frames'[c][q][i] = Copy(f)
                /\ \E r \in out : Adjoins(b, r, c, q)
  BY DEF SentOn
<1> DEFINE home == HomeOf[f.dst]
           S == {q \in out : LanOf[b][q] = home}
<1>1. f.n \in 1..MaxFrames /\ f.dst \in Hosts /\ MaxFrames \in Nat
  BY HostAssumption DEF Frame
<1>2. delivered[f.n] > 0 => S = {}
  <2>1. ASSUME NEW q \in S PROVE home \in Ahead(b, p)
    <3>1. q \in Ports(b) \ {p} /\ LanOf[b][q] = home
      OBVIOUS
    <3>2. home \in Near(b, q)
      BY <3>1, OwnLanIsNear
    <3> QED BY <3>1, <3>2 DEF Ahead
  <2> QED BY <2>1
<1>3. \A q, r \in S : q = r
  <2> SUFFICES ASSUME NEW q \in S, NEW r \in S, q # r PROVE FALSE
    OBVIOUS
  <2>1. q \in Ports(b) /\ r \in Ports(b) /\ LanOf[b][q] = LanOf[b][r]
    OBVIOUS
  <2>2. LeadsTo(b, q, LanOf[b][r])
    BY <2>1, LeadsToItsLan
  <2> QED BY <2>1, <2>2 DEF NoCircle
<1>4. S = {} \/ \E q \in out : LanOf[b][q] = home /\ S = {q}
  <2>1. ASSUME NEW q \in S PROVE q \in out /\ LanOf[b][q] = home /\ S = {q}
    BY <1>3, <2>1
  <2> HIDE DEF S
  <2> QED BY <2>1
<1>5. delivered' = [delivered EXCEPT ![f.n] = Twice(delivered[f.n] + Cardinality(S))]
  OBVIOUS
<1> HIDE DEF S, home
<1>6. Cardinality(S) \in {0, 1} /\ (Cardinality(S) = 1 => S # {})
  BY <1>4, FS_EmptySet, FS_Singleton
<1>7. /\ delivered[f.n] \in {0, 1}
      /\ \A n \in 1..MaxFrames : delivered[n] \in Nat
  BY <1>1 DEF Single
<1>8. /\ \A n \in 1..MaxFrames : n # f.n => delivered'[n] = delivered[n]
      /\ delivered'[f.n] = Twice(delivered[f.n] + Cardinality(S))
  BY <1>1, <1>5
<1>9. delivered'[f.n] \in {0, 1} /\ (delivered'[f.n] = 1 => delivered[f.n] > 0 \/ S # {})
  <2>1. CASE delivered[f.n] = 1
    BY <1>2, <1>6, <1>8, <2>1, FS_EmptySet DEF Twice
  <2>2. CASE delivered[f.n] = 0
    BY <1>6, <1>8, <2>2 DEF Twice
  <2> QED BY <1>7, <2>1, <2>2
<1>10. Single'
  <2>1. ASSUME NEW n \in 1..MaxFrames PROVE delivered'[n] <= 1 /\ (n > sent => delivered'[n] = 0)
    <3>1. CASE n = f.n
      BY <1>1, <1>9, <3>1
    <3>2. CASE n # f.n
      BY <1>8, <3>2 DEF Single
    <3> QED BY <3>1, <3>2
  <2> QED BY <2>1 DEF Single
<1>11. ASSUME NEW c \in Bridges, NEW q \in Ports(c), NEW s \in out, Adjoins(b, s, c, q),
              delivered'[f.n] > 0
       PROVE  home \notin Ahead(c, q)
  <2>1. Ahead(c, q) \subseteq Near(b, s) /\ Near(b, s) \subseteq Ahead(b, p)
    BY <1>11, AheadIsNear DEF Ahead
  <2>2. CASE delivered[f.n] > 0
    BY <2>1, <2>2 DEF home
  <2>3. ASSUME NEW t \in out, LanOf[b][t] = home PROVE home \notin Ahead(c, q)
    <3>1. home \in Near(b, t) /\ t \in Ports(b) /\ s \in Ports(b)
      BY <2>3, OwnLanIsNear
    <3>2. CASE t = s
      <4>1. home = LanOf[c][q]
        BY <1>11, <2>3, <3>2 DEF Adjoins
      <4> QED BY <4>1, OwnLanIsNear
    <3>3. CASE t # s
      <4>1. Near(b, t) \cap Near(b, s) = {}
        BY <3>1, <3>3, NearsApart
      <4> QED BY <2>1, <3>1, <4>1
    <3> QED BY <3>2, <3>3
  <2> QED BY <1>4, <1>9, <1>11, <2>2, <2>3
<1>12. ASSUME NEW c \in Bridges, NEW q \in Ports(c), NEW i \in DOMAIN box[c][q],
              box[c][q][i].n = f.n, delivered'[f.n] > 0
       PROVE  home \notin Ahead(c, q)
  <2>1. box[c][q][i].dst = f.dst /\ Parted(b, p, c, q) /\ Parted(c, q, b, p)
    BY <1>12 DEF Apart
  <2>2. CASE delivered[f.n] > 0
    BY <1>12, <2>1, <2>2 DEF NotAhead, home
  <2>3. ASSUME NEW t \in out, LanOf[b][t] = home PROVE home \notin Ahead(c, q)
    <3>1. home \in Near(b, t) /\ t \in Ports(b) \ {p}
      BY <2>3, OwnLanIsNear
    <3>2. home \in Ahead(b, p)
      BY <3>1 DEF Ahead
    <3> QED BY <2>1, <3>2 DEF Parted
  <2> QED BY <1>4, <1>9, <1>12, <2>2, <2>3
<1>13. ASSUME NEW c \in Bridges, NEW q \in Ports(c), NEW i \in DOMAIN frames'[c][q]
       PROVE  /\ frames'[c][q][i].n <= sent
              /\ delivered'[frames'[c][q][i].n] > 0
                    => HomeOf[frames'[c][q][i].dst] \notin Ahead(c, q)
  <2>1. CASE i \in DOMAIN box[c][q] /\ frames'[c][q][i] = box[c][q][i]
    <3> DEFINE g == box[c][q][i]
    <3>1. /\ g.n <= sent /\ g.n \in 1..MaxFrames
          /\ delivered[g.n] > 0 => HomeOf[g.dst] \notin Ahead(c, q)
      BY <2>1, InQueue DEF NotAhead
    <3>2. CASE g.n = f.n
      <4>1. g.dst = f.dst
        BY <2>1, <3>2 DEF Apart
      <4> QED BY <1>12, <2>1, <3>1, <3>2, <4>1 DEF home
    <3>3. CASE g.n # f.n
      BY <1>8, <2>1, <3>1, <3>3
    <3> QED BY <3>2, <3>3
  <2>2. CASE frames'[c][q][i] = Copy(f) /\ \E s \in out : Adjoins(b, s, c, q)
    <3>1. Copy(f).n = f.n /\ Copy(f).dst = f.dst
      BY CopyKeeps
    <3> QED BY <1>11, <2>2, <3>1 DEF home
  <2>3. \/ i \in DOMAIN box[c][q] /\ frames'[c][q][i] = box[c][q][i]
        \/ frames'[c][q][i] = Copy(f) /\ \E s \in out : Adjoins(b, s, c, q)
    BY <1>0
  <2> QED BY <2>1, <2>2, <2>3
<1>14. NotAhead(frames)'
  BY <1>13 DEF NotAhead
<1> QED BY <1>10, <1>14

(* A bridge handles a frame.                                               *)
LEMMA HandleFrameOnce ==
    ASSUME NoCircle, FInv, OnceInv, NEW b \in Bridges, NEW p \in Ports(b), HandleFrame(b, p)
    PROVE  OnceInv'
<1> DEFINE f == Head(frames[b][p])
           box == [frames EXCEPT ![b][p] = Tail(@)]
           out == Out(b, p, f)
<1>1. /\ UNCHANGED <<at, sent>> /\ frames[b][p] # <<>>
      /\ Pass(box, b, out, f)
      /\ delivered' = [delivered EXCEPT ![f.n] =
             Twice(@ + Cardinality({q \in out : LanOf[b][q] = at[f.dst]}))]
  BY DEF HandleFrame
<1>2. SUFFICES ASSUME at = HomeOf PROVE SoleCopies(frames') /\ NotAhead(frames)' /\ Single'
  BY <1>1 DEF OnceInv, SoleCopies
<1>3. SoleCopies(frames) /\ NotAhead(frames) /\ Single
  BY <1>2 DEF OnceInv
<1>4. frames[b][p] \in Seq(Arriving(b, p)) /\ DOMAIN frames = Bridges /\ DOMAIN frames[b] = Ports(b)
  BY DEF FInv, GoodQueues
<1>5. f \in Arriving(b, p) /\ Tail(frames[b][p]) \in Seq(Arriving(b, p))
  BY <1>1, <1>4, HeadTailProperties
<1>6. f \in Frame
  BY <1>5 DEF Arriving
<1>7. GoodQueues(box)
  BY <1>4, <1>5 DEF GoodQueues, FInv
<1>8. /\ SoleCopies(box) /\ NotAhead(box) /\ Apart(box, b, p, f)
      /\ f.n <= sent /\ (delivered[f.n] > 0 => HomeOf[f.dst] \notin Ahead(b, p))
  <2>1. GoodQueues(frames)
    BY DEF FInv
  <2> QED BY <1>1, <1>3, <2>1, HeadTaken
<1>9. out \in SUBSET (Ports(b) \ {p})
  BY <1>6, OutIsElsewhere
<1>10. sent \in Nat /\ delivered \in [1..MaxFrames -> Nat]
  BY HostAssumption DEF FInv
<1>11. delivered' = [delivered EXCEPT ![f.n] =
             Twice(@ + Cardinality({q \in out : LanOf[b][q] = HomeOf[f.dst]}))]
  BY <1>1, <1>2
<1> HIDE DEF f, box, out
<1>12. SentOn(box, frames', b, out, f)
  BY <1>1, <1>7, <1>9, SendsCopies
<1>13. SoleCopies(frames')
  BY <1>6, <1>7, <1>8, <1>9, <1>12, PassKeepsSole
<1>14. NotAhead(frames)' /\ Single'
  BY <1>1, <1>3, <1>6, <1>7, <1>8, <1>9, <1>10, <1>11, <1>12, PassDelivers
<1> QED BY <1>13, <1>14

(* A host sends a frame: its number is new.                                *)
LEMMA HostSendsOnce ==
    ASSUME NoCircle, FInv, OnceInv, NEW h \in Hosts, NEW g \in Hosts, HostSends(h, g)
    PROVE  OnceInv'
<1> DEFINE f == [src |-> h, dst |-> g, n |-> sent', message |-> ContentOf[sent']]
<1>1. /\ at' = at /\ sent' = sent + 1 /\ sent \in Nat /\ sent' \in 1..MaxFrames
      /\ delivered \in [1..MaxFrames -> Nat] /\ at \in [Hosts -> Lans]
  BY HostAssumption DEF HostSends, FInv
<1>2. /\ frames' = [c \in Bridges |-> [q \in Ports(c) |->
            IF On(c) /\ LanOf[c][q] = at[h] THEN Append(frames[c][q], f) ELSE frames[c][q]]]
      /\ delivered' = [delivered EXCEPT ![sent'] = IF at[g] = at[h] THEN 1 ELSE 0]
  BY DEF HostSends
<1>3. f.n = sent' /\ f.dst = g
  OBVIOUS
<1> HIDE DEF f
<1>4. SUFFICES ASSUME at = HomeOf PROVE SoleCopies(frames') /\ NotAhead(frames)' /\ Single'
  BY <1>1 DEF OnceInv, SoleCopies
<1>5. SoleCopies(frames) /\ NotAhead(frames) /\ Single
  BY <1>4 DEF OnceInv
<1>6. /\ delivered'[sent'] = IF at[g] = at[h] THEN 1 ELSE 0
      /\ \A n \in 1..MaxFrames : n # sent' => delivered'[n] = delivered[n]
  BY <1>1, <1>2
<1> DEFINE IsOld(c, q, i) == i \in DOMAIN frames[c][q] /\ frames'[c][q][i] = frames[c][q][i]
           IsNew(c, q, i) == /\ i = Len(frames[c][q]) + 1 /\ frames'[c][q][i] = f
                             /\ LanOf[c][q] = at[h]
<1>7. ASSUME NEW c \in Bridges, NEW q \in Ports(c), NEW i \in DOMAIN frames'[c][q]
      PROVE  IsOld(c, q, i) \/ IsNew(c, q, i)
  <2>1. frames[c][q] \in Seq(Arriving(c, q)) /\ Len(frames[c][q]) \in Nat
        /\ DOMAIN frames[c][q] = 1 .. Len(frames[c][q])
    BY InQueue DEF FInv
  <2>2. CASE On(c) /\ LanOf[c][q] = at[h]
    <3>1. frames'[c][q] = Append(frames[c][q], f)
      BY <1>2, <2>2
    <3>2. frames[c][q] \in Seq(Arriving(c, q) \cup {f})
      BY <2>1, SeqMonotonic
    <3>3. i \in 1 .. Len(frames[c][q]) + 1
      BY <3>1, <3>2, AppendProperties, LenProperties
    <3>4. CASE i <= Len(frames[c][q])
      BY <2>1, <3>1, <3>2, <3>3, <3>4, AppendProperties
    <3>5. CASE i = Len(frames[c][q]) + 1
      BY <2>2, <3>1, <3>2, <3>5, AppendProperties
    <3> QED BY <2>1, <3>3, <3>4, <3>5
  <2>3. CASE ~(On(c) /\ LanOf[c][q] = at[h])
    BY <1>2, <2>3
  <2> QED BY <2>2, <2>3
<1>8. ASSUME NEW c \in Bridges, NEW q \in Ports(c), NEW i, IsOld(c, q, i)
      PROVE  frames'[c][q][i].n # f.n /\ frames'[c][q][i].n <= sent
             /\ frames'[c][q][i].n \in 1..MaxFrames
  <2>1. frames[c][q][i].n <= sent
    BY <1>5, <1>8 DEF NotAhead
  <2>2. frames[c][q][i].n \in 1..MaxFrames
    BY <1>8, InQueue DEF FInv
  <2>3. \A n \in 1..MaxFrames : n <= sent => n # sent'
    BY <1>1
  <2> QED BY <1>3, <1>8, <2>1, <2>2, <2>3
<1>9. SoleCopies(frames')
  <2> SUFFICES ASSUME NEW c \in Bridges, NEW d \in Bridges, NEW q \in Ports(c), NEW r \in Ports(d),
                      NEW i \in DOMAIN frames'[c][q], NEW j \in DOMAIN frames'[d][r],
                      frames'[c][q][i].n = frames'[d][r][j].n
               PROVE  /\ frames'[c][q][i].dst = frames'[d][r][j].dst
                      /\ <<c, q>> = <<d, r>> => i = j
                      /\ <<c, q>> # <<d, r>> => Parted(c, q, d, r)
    BY DEF SoleCopies
  <2>1. CASE IsOld(c, q, i) /\ IsOld(d, r, j)
    BY <1>5, <2>1 DEF SoleCopies
  <2>2. CASE IsNew(c, q, i) /\ IsNew(d, r, j)
    <3>1. CASE <<c, q>> # <<d, r>>
      <4>1. Adjoins(c, q, d, r)
        BY <2>2, <3>1 DEF Adjoins
      <4> QED BY <2>2, <3>1, <4>1, SiblingsParted
    <3> QED BY <2>2, <3>1
  <2>3. (IsOld(c, q, i) \/ IsNew(c, q, i)) /\ (IsOld(d, r, j) \/ IsNew(d, r, j))
    <3> HIDE DEF IsOld, IsNew
    <3> QED BY <1>7
  <2>4. ~(IsOld(c, q, i) /\ IsNew(d, r, j)) /\ ~(IsNew(c, q, i) /\ IsOld(d, r, j))
    <3>1. ASSUME NEW x \in Bridges, NEW s \in Ports(x), NEW k, IsNew(x, s, k)
          PROVE  frames'[x][s][k].n = f.n
      BY <3>1
    <3> HIDE DEF IsOld, IsNew
    <3> QED BY <1>8, <3>1
  <2> HIDE DEF IsOld, IsNew
  <2> QED BY <2>1, <2>2, <2>3, <2>4
<1>10. ASSUME NEW c \in Bridges, NEW q \in Ports(c), NEW i \in DOMAIN frames'[c][q]
       PROVE  /\ frames'[c][q][i].n <= sent'
              /\ delivered'[frames'[c][q][i].n] > 0
                    => HomeOf[frames'[c][q][i].dst] \notin Ahead(c, q)
  <2>1. CASE IsOld(c, q, i)
    <3> DEFINE k == frames[c][q][i]
    <3>1. k.n # sent' /\ k.n <= sent /\ k.n \in 1..MaxFrames /\ frames'[c][q][i] = k
      BY <1>3, <1>8, <2>1
    <3>2. k.n <= sent'
      BY <1>1, <3>1
    <3>3. delivered[k.n] > 0 => HomeOf[k.dst] \notin Ahead(c, q)
      BY <1>5, <2>1 DEF NotAhead
    <3> QED BY <1>6, <3>1, <3>2, <3>3
  <2>2. CASE IsNew(c, q, i)
    <3>1. frames'[c][q][i].n = sent' /\ frames'[c][q][i].dst = g /\ LanOf[c][q] = at[h]
      BY <1>3, <2>2
    <3>2. delivered'[sent'] > 0 => HomeOf[g] = LanOf[c][q]
      BY <1>4, <1>6, <3>1
    <3>3. LanOf[c][q] \notin Ahead(c, q)
      BY OwnLanIsNear
    <3> QED BY <1>1, <3>1, <3>2, <3>3
  <2> HIDE DEF IsOld, IsNew
  <2> QED BY <1>7, <2>1, <2>2
<1>11. NotAhead(frames)'
  BY <1>10 DEF NotAhead
<1>12. ASSUME NEW n \in 1..MaxFrames
       PROVE  delivered'[n] <= 1 /\ (n > sent' => delivered'[n] = 0)
  <2>1. CASE n = sent'
    BY <1>1, <1>6, <2>1
  <2>2. CASE n # sent'
    <3>1. delivered'[n] = delivered[n] /\ delivered[n] <= 1 /\ (n > sent => delivered[n] = 0)
      BY <1>5, <1>6, <2>2 DEF Single
    <3>2. n > sent' => n > sent
      BY <1>1
    <3> QED BY <3>1, <3>2
  <2> QED BY <2>1, <2>2
<1> QED BY <1>9, <1>11, <1>12 DEF Single

(* The queues of a bridge that stops are lost; a host that moves is never  *)
(* at home again.                                                          *)
LEMMA OtherStepsOnce ==
    ASSUME FInv, OnceInv,
           \/ \E h \in Hosts : Move(h)
           \/ \E b \in Bridges : \/ StartBridge(b) \/ StopBridge(b)
                                 \/ \E read \in SUBSET Ports(b) : TurnAndForget(b, read)
           \/ UNCHANGED allVars
    PROVE  OnceInv'
<1>1. CASE UNCHANGED <<at, frames, sent, delivered>>
  BY <1>1 DEF OnceInv, SoleCopies, NotAhead, Single
<1>2. ASSUME NEW h \in Hosts, Move(h) PROVE OnceInv'
  <2>1. at'[h] # HomeOf[h]
    BY <1>2 DEF Move, FInv
  <2> QED BY <2>1 DEF OnceInv
<1>3. ASSUME NEW b \in Bridges, StopBridge(b) PROVE OnceInv'
  <2>1. /\ UNCHANGED <<at, sent, delivered>>
        /\ frames' = [frames EXCEPT ![b] = [p \in Ports(b) |-> <<>>]]
        /\ DOMAIN frames = Bridges
    BY <1>3 DEF StopBridge, FInv, GoodQueues
  <2>2. \A c \in Bridges : \A q \in Ports(c) : \A i \in DOMAIN frames'[c][q] :
           i \in DOMAIN frames[c][q] /\ frames'[c][q][i] = frames[c][q][i]
    <3> SUFFICES ASSUME NEW c \in Bridges, NEW q \in Ports(c), NEW i \in DOMAIN frames'[c][q]
                 PROVE  i \in DOMAIN frames[c][q] /\ frames'[c][q][i] = frames[c][q][i]
      OBVIOUS
    <3>1. CASE c = b
      BY <2>1, <3>1
    <3>2. CASE c # b
      BY <2>1, <3>2
    <3> QED BY <3>1, <3>2
  <2>3. SoleCopies(frames) => SoleCopies(frames')
    BY <2>2 DEF SoleCopies
  <2>4. NotAhead(frames) => NotAhead(frames)'
    BY <2>1, <2>2 DEF NotAhead
  <2> QED BY <2>1, <2>3, <2>4 DEF OnceInv, SoleCopies, Single
<1>4. ASSUME NEW b \in Bridges,
             StartBridge(b) \/ \E read \in SUBSET Ports(b) : TurnAndForget(b, read)
      PROVE  UNCHANGED <<at, frames, sent, delivered>>
  BY <1>4 DEF StartBridge, TurnAndForget, data
<1> QED BY <1>1, <1>2, <1>3, <1>4 DEF allVars, data

(* Where the LANs and bridges form no circle no frame is put on the LAN of *)
(* its host twice, whatever the tables and the port statuses: until a host *)
(* moves (ForwardingRequest.handle and its broadcast).                     *)
THEOREM DeliversOnce == NoCircle => (ForwardingSpec => []AtMostOnce)
<1> SUFFICES ASSUME NoCircle PROVE ForwardingSpec => []AtMostOnce
  OBVIOUS
<1>1. ForwardingInit => OnceInv
  <2> SUFFICES ASSUME ForwardingInit PROVE SoleCopies(frames) /\ NotAhead(frames) /\ Single
    BY DEF OnceInv
  <2>1. \A c \in Bridges : \A q \in Ports(c) : DOMAIN frames[c][q] = {}
    BY DEF ForwardingInit
  <2> QED BY <2>1 DEF ForwardingInit, SoleCopies, NotAhead, Single
<1>2. FInv /\ OnceInv /\ [ForwardingNext]_allVars => OnceInv'
  <2> SUFFICES ASSUME FInv, OnceInv, [ForwardingNext]_allVars PROVE OnceInv'
    OBVIOUS
  <2>1. ASSUME NEW h \in Hosts, NEW g \in Hosts, HostSends(h, g) PROVE OnceInv'
    BY <2>1, HostSendsOnce
  <2>2. ASSUME NEW b \in Bridges, NEW p \in Ports(b), HandleFrame(b, p) PROVE OnceInv'
    BY <2>2, HandleFrameOnce
  <2> QED BY <2>1, <2>2, OtherStepsOnce DEF ForwardingNext
<1>3. OnceInv => AtMostOnce
  BY DEF OnceInv, Single, AtMostOnce
<1> QED BY <1>1, <1>2, <1>3, ForwardingInvariance, PTL DEF ForwardingSpec
=============================================================================
