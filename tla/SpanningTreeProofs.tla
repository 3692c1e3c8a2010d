------------------------- MODULE SpanningTreeProofs -------------------------
(***************************************************************************)
(* Theorems about SpanningTree: for every set of bridges, every way they   *)
(* are connected, every order of BPDUs and every moment of a stop.         *)
(***************************************************************************)
EXTENDS SpanningTree, TLAPS, FiniteSetTheorems, SequenceTheorems,
        WellFoundedInduction

-----------------------------------------------------------------------------
(* Numbers, ports and sequences.                                           *)

(* A set of natural numbers has a least one.                               *)
LEMMA LeastNatural ==
    ASSUME NEW T, T \subseteq Nat, T # {}
    PROVE  \E n \in T : \A m \in T : n <= m
<1> DEFINE Less == {s \in Nat \X Nat : s[1] < s[2]}
<1>1. IsWellFoundedOn(Less, Nat)
  BY NatLessThanWellFounded DEF OpToRel
<1> HIDE DEF Less
<1>2. PICK n \in T : \A m \in T : ~(<<m, n>> \in Less)
  BY <1>1, WFMin
<1>3. \A m \in T : ~(m < n)
  BY <1>2 DEF Less
<1>4. QED
  BY <1>3

(* The indices of ports are positive, so none of them is None.             *)
LEMMA PortsArePositive ==
    ASSUME NEW b \in Bridges, NEW p \in Ports(b)
    PROVE  p \in Nat /\ p # None
<1>1. LanOf[b] \in Seq(Lans)
  BY LanAssumption
<1>2. Ports(b) = 1..Len(LanOf[b])
  BY <1>1, LenProperties DEF Ports
<1>3. QED
  BY <1>1, <1>2, LenProperties DEF None

LEMMA BridgesAreNumbers == \A b \in Bridges : b \in Nat
BY BridgesAssumption

(* The first BPDU of an announcement belongs to it.                        *)
LEMMA FirstIsSent ==
    ASSUME NEW sent \in SUBSET BPDU, sent # {}
    PROVE  FirstOf(sent) \in sent
<1> DEFINE T == {x.port : x \in sent}
<1>1. T \subseteq Nat /\ T # {}
  BY DEF BPDU
<1>2. PICK n \in T : \A m \in T : n <= m
  BY <1>1, LeastNatural
<1>3. \E x \in sent : \A y \in sent : x.port <= y.port
  BY <1>2
<1>4. QED
  BY <1>3 DEF FirstOf

(* What may be under way to port q of bridge c.                            *)
GoodBox(c, q, box) ==
    /\ box \in Seq(SUBSET BPDU)
    /\ \A i \in DOMAIN box : box[i] # {} /\ \A x \in box[i] : Audible(c, q, x)

LEMMA ReadLeavesGoodBox ==
    ASSUME NEW c, NEW q, NEW box, GoodBox(c, q, box), box # <<>>
    PROVE  /\ GoodBox(c, q, Unread(box))
           /\ Audible(c, q, FirstOf(Head(box)))
<1>1. /\ box \in Seq(SUBSET BPDU)
      /\ 1 \in DOMAIN box
      /\ Head(box) = box[1]
      /\ Head(box) \in SUBSET BPDU
      /\ Head(box) # {}
  BY LenProperties DEF GoodBox
<1>2. FirstOf(Head(box)) \in Head(box)
  BY <1>1, FirstIsSent
<1>3. Audible(c, q, FirstOf(Head(box)))
  BY <1>1, <1>2 DEF GoodBox
<1>4. CASE Cardinality(Head(box)) = 1
  <2>1. Unread(box) = Tail(box)
    BY <1>4 DEF Unread
  <2>2. /\ Tail(box) \in Seq(SUBSET BPDU)
        /\ \A i \in DOMAIN Tail(box) :
              i + 1 \in DOMAIN box /\ Tail(box)[i] = box[i + 1]
    BY <1>1
  <2>3. QED
    BY <1>3, <2>1, <2>2 DEF GoodBox
<1>5. CASE Cardinality(Head(box)) # 1
  <2>1. Unread(box) = [box EXCEPT ![1] = @ \ {FirstOf(@)}]
    BY <1>5 DEF Unread
  <2>2. Head(box) # {FirstOf(Head(box))}
    BY <1>5, FS_Singleton
  <2>3. box[1] \ {FirstOf(box[1])} # {}
    BY <1>1, <1>2, <2>2
  <2>4. Unread(box) \in Seq(SUBSET BPDU)
    BY <1>1, <2>1, ExceptSeq
  <2>5. DOMAIN Unread(box) = DOMAIN box
    BY <1>1, <2>1
  <2>6. \A i \in DOMAIN box : Unread(box)[i] # {} /\ Unread(box)[i] \subseteq box[i]
    BY <1>1, <2>1, <2>3 DEF GoodBox
  <2>7. QED
    BY <1>3, <2>4, <2>5, <2>6 DEF GoodBox
<1>6. QED
  BY <1>4, <1>5

-----------------------------------------------------------------------------
(* Costs and the order of BPDUs.                                           *)

(* A walk is made longer at its start.                                     *)
LEMMA WalkExtends ==
    ASSUME NEW b \in Bridges, NEW c \in Neighbours(b), NEW r, NEW n \in Nat,
           Walk(c, r, n)
    PROVE  Walk(b, r, n + 1)
<1>1. PICK w \in [0..n -> Bridges] :
        /\ w[0] = c /\ w[n] = r
        /\ \A i \in 1..n : w[i] \in Neighbours(w[i - 1])
  BY DEF Walk
<1> DEFINE v == [i \in 0..(n + 1) |-> IF i = 0 THEN b ELSE w[i - 1]]
<1>2. v \in [0..(n + 1) -> Bridges]
  BY <1>1
<1>3. v[0] = b /\ v[n + 1] = r
  BY <1>1
<1>4. ASSUME NEW i \in 1..(n + 1) PROVE v[i] \in Neighbours(v[i - 1])
  <2>1. CASE i = 1
    BY <2>1, <1>1
  <2>2. CASE i # 1
    <3>1. i - 1 \in 1..n /\ v[i] = w[i - 1] /\ v[i - 1] = w[(i - 1) - 1]
      BY <2>2
    <3>2. QED
      BY <3>1, <1>1
  <2>3. QED
    BY <2>1, <2>2
<1> HIDE DEF v
<1>5. QED
  BY <1>2, <1>3, <1>4 DEF Walk

(* A bridge is a walk of length 0 from itself.                             *)
LEMMA DefaultIsGenuine ==
    ASSUME NEW b \in Bridges
    PROVE  Default(b) \in BPDU /\ Genuine(Default(b))
<1>1. Default(b) \in BPDU
  BY DEF Default, BPDU, None
<1>2. Walk(b, b, 0)
  <2> DEFINE w == [i \in 0..0 |-> b]
  <2>1. w \in [0..0 -> Bridges] /\ w[0] = b
    OBVIOUS
  <2>2. \A i \in 1..0 : w[i] \in Neighbours(w[i - 1])
    OBVIOUS
  <2>3. QED
    BY <2>1, <2>2 DEF Walk
<1>3. QED
  BY <1>1, <1>2 DEF Default, Genuine, Sound

(* What a bridge makes of a BPDU it hears is genuine too.                  *)
LEMMA AdoptedIsGenuine ==
    ASSUME NEW b \in Bridges, NEW p \in Ports(b), NEW x, Audible(b, p, x),
           NEW adjusted, adjusted = CostAdjusted(x),
           NEW adopted, adopted = OwnBy(b, adjusted)
    PROVE  /\ adjusted \in BPDU /\ adopted \in BPDU
           /\ adopted.id = b /\ adopted.port # None
           /\ adopted.root = x.root /\ adopted.cost = x.cost + 1
           /\ adjusted.root = x.root /\ adjusted.cost = x.cost + 1
           /\ adjusted.port = x.port
           /\ Genuine(adopted)
<1>1. x \in BPDU
  BY DEF Audible
<1>2. /\ adjusted \in BPDU /\ adopted \in BPDU
      /\ adopted.id = b /\ adopted.port = x.port
      /\ adopted.root = x.root /\ adopted.cost = x.cost + 1
      /\ adjusted.root = x.root /\ adjusted.cost = x.cost + 1
      /\ adjusted.port = x.port
  <2>1. adjusted = [root |-> x.root, cost |-> x.cost + 1,
                    port |-> x.port, id |-> x.id]
    BY <1>1 DEF BPDU, CostAdjusted
  <2>2. adopted = [root |-> x.root, cost |-> x.cost + 1,
                   port |-> x.port, id |-> b]
    BY <2>1 DEF OwnBy
  <2>3. QED
    BY <1>1, <2>1, <2>2 DEF BPDU
<1>3. adopted.port # None
  <2>1. x.port # None
    BY <1>1, PortsArePositive DEF Audible, BPDU
  <2>2. QED
    BY <1>2, <2>1
<1>4. x.id \in Neighbours(b)
  BY <1>1 DEF Audible, Neighbours, BPDU
<1>5. Walk(x.id, x.root, x.cost)
  BY DEF Audible, Genuine, Sound
<1>6. Walk(b, x.root, x.cost + 1)
  BY <1>1, <1>4, <1>5, WalkExtends DEF BPDU
<1>7. Genuine(adopted)
  <2>1. x.cost + 1 # 0
    BY <1>1 DEF BPDU
  <2>2. QED
    BY <1>2, <1>6, <2>1 DEF Genuine, Sound
<1>8. QED
  BY <1>2, <1>3, <1>7

LEMMA SendableFields ==
    ASSUME NEW b \in Bridges, NEW p \in Ports(b), NEW x \in BPDU
    PROVE  /\ Sendable(b, p, x) \in BPDU
           /\ Sendable(b, p, x).id = b /\ Sendable(b, p, x).port = p
           /\ Sendable(b, p, x).root = x.root /\ Sendable(b, p, x).cost = x.cost
BY PortsArePositive DEF Sendable, BPDU

(* What bridge b sends of a genuine belief, port q of c hears as audible.  *)
LEMMA SentIsAudible ==
    ASSUME NEW b \in Bridges, NEW p \in Ports(b),
           NEW c \in Bridges, NEW q \in Ports(c),
           NEW x \in BPDU, x.id = b, Genuine(x),
           LanOf[c][q] = LanOf[b][p], ~(c = b /\ q = p)
    PROVE  Audible(c, q, Sendable(b, p, x))
<1> DEFINE m == Sendable(b, p, x)
<1>1. /\ m \in BPDU /\ m.id = b /\ m.port = p
      /\ m.root = x.root /\ m.cost = x.cost
  BY SendableFields
<1>2. Genuine(m)
  <2> HIDE DEF m
  <2>1. QED
    BY <1>1 DEF Genuine, Sound
<1> HIDE DEF m
<1>3. Audible(c, q, m)
  BY <1>1, <1>2 DEF Audible
<1>4. QED
  BY <1>3 DEF m

(* A BPDU that is not better than the one sent is not nearer to the root.  *)
LEMMA NotBetterNotNearer ==
    ASSUME NEW b \in Bridges, NEW p \in Ports(b),
           NEW x \in BPDU, NEW y \in BPDU, ~Better(x, Sendable(b, p, y))
    PROVE  ~Nearer(x, y)
<1>1. Sendable(b, p, y).root = y.root /\ Sendable(b, p, y).cost = y.cost
  BY SendableFields
<1>2. QED
  BY <1>1 DEF Better, Nearer

(* What is not nearer than y is not nearer than something better than y.   *)
LEMMA NotNearerThanBetter ==
    ASSUME NEW x \in BPDU, NEW y \in BPDU, NEW z \in BPDU,
           Better(z, y), ~Nearer(x, y)
    PROVE  ~Nearer(x, z)
BY BridgesAreNumbers DEF Better, Nearer, BPDU

-----------------------------------------------------------------------------
(* Announcements.                                                          *)

LEMMA BoxesAreGood ==
    ASSUME IInv
    PROVE  \A c \in Bridges : \A q \in Ports(c) : GoodBox(c, q, inbox[c][q])
BY DEF IInv, TypeOK, PortInv, GoodBox

(* An announcement of a genuine belief leaves good inboxes.                *)
LEMMA AnnounceKeepsBoxes ==
    ASSUME IInv, NEW b \in Bridges, NEW box,
           \A c \in Bridges : \A q \in Ports(c) : GoodBox(c, q, box[c][q]),
           root_bpdu'[b] \in BPDU, root_bpdu'[b].id = b, Genuine(root_bpdu'[b]),
           Announce(b, box)
    PROVE  /\ DOMAIN inbox' = Bridges
           /\ \A c \in Bridges :
                inbox'[c] \in [Ports(c) -> Seq(SUBSET BPDU)]
           /\ \A c \in Bridges : \A q \in Ports(c) : GoodBox(c, q, inbox'[c][q])
           /\ DOMAIN last_sent' = Bridges
           /\ \A c \in Bridges : last_sent'[c] \in [Ports(c) -> BPDU]
           /\ \A c \in Bridges : c # b => last_sent'[c] = last_sent[c]
           /\ \A p \in Ports(b) : last_sent'[b][p] = Sendable(b, p, root_bpdu'[b])
<1>1. last_sent' = [last_sent EXCEPT
            ![b] = [p \in Ports(b) |-> Sendable(b, p, root_bpdu'[b])]]
  BY DEF Announce
<1>2. /\ DOMAIN last_sent = Bridges
      /\ \A c \in Bridges : last_sent[c] \in [Ports(c) -> BPDU]
  BY DEF IInv, TypeOK
<1>3. \A p \in Ports(b) : /\ Sendable(b, p, root_bpdu'[b]) \in BPDU
                          /\ Sendable(b, p, root_bpdu'[b]).id = b
                          /\ Sendable(b, p, root_bpdu'[b]).port = p
  BY SendableFields
<1>4. last_sent'[b] = [p \in Ports(b) |-> Sendable(b, p, root_bpdu'[b])]
  BY <1>1, <1>2
<1>5. /\ DOMAIN last_sent' = Bridges
      /\ \A c \in Bridges : last_sent'[c] \in [Ports(c) -> BPDU]
      /\ \A c \in Bridges : c # b => last_sent'[c] = last_sent[c]
      /\ \A p \in Ports(b) : last_sent'[b][p] = Sendable(b, p, root_bpdu'[b])
  BY <1>1, <1>2, <1>3, <1>4
<1> DEFINE sent == {last_sent'[b][p] : p \in Ports(b)}
<1>6. inbox' = [c \in Bridges |-> [q \in Ports(c) |->
                  Arrive(c, q, box[c][q], sent)]]
  BY DEF Announce
<1>7. ASSUME NEW c \in Bridges, NEW q \in Ports(c)
      PROVE  GoodBox(c, q, Arrive(c, q, box[c][q], sent))
  <2> DEFINE heard == {m \in sent : Hears(c, q, m)}
             arrived == Arrive(c, q, box[c][q], sent)
  <2>1. GoodBox(c, q, box[c][q])
    OBVIOUS
  <2>2. ASSUME NEW m \in heard PROVE Audible(c, q, m)
    <3>1. PICK p \in Ports(b) : m = Sendable(b, p, root_bpdu'[b])
      BY <1>5
    <3>2. LanOf[c][q] = LanOf[b][p] /\ ~(c = b /\ q = p)
      BY <1>3, <3>1 DEF Hears
    <3>3. QED
      BY <3>1, <3>2, SentIsAudible
  <2>3. heard \in SUBSET BPDU
    BY <2>2 DEF Audible
  <2>4. CASE heard = {} \/ Len(box[c][q]) >= Capacity
    <3>1. arrived = box[c][q]
      BY <2>4 DEF Arrive
    <3>2. QED
      BY <2>1, <3>1
  <2>5. CASE ~(heard = {} \/ Len(box[c][q]) >= Capacity)
    <3>1. arrived = Append(box[c][q], heard)
      BY <2>5 DEF Arrive
    <3> HIDE DEF heard, arrived
    <3>2. box[c][q] \in Seq(SUBSET BPDU)
      BY <2>1 DEF GoodBox
    <3>3. /\ arrived \in Seq(SUBSET BPDU)
          /\ \A i \in DOMAIN arrived :
                \/ i \in DOMAIN box[c][q] /\ arrived[i] = box[c][q][i]
                \/ arrived[i] = heard
      BY <2>3, <3>1, <3>2, AppendProperties, LenProperties
    <3>4. GoodBox(c, q, arrived)
      BY <2>1, <2>2, <2>5, <3>3 DEF GoodBox
    <3>5. QED
      BY <3>4 DEF arrived
  <2>6. QED
    BY <2>4, <2>5
<1>8. \A c \in Bridges : \A q \in Ports(c) :
         inbox'[c][q] \in Seq(SUBSET BPDU) /\ GoodBox(c, q, inbox'[c][q])
  BY <1>6, <1>7 DEF GoodBox
<1>9. /\ DOMAIN inbox' = Bridges
      /\ \A c \in Bridges : inbox'[c] \in [Ports(c) -> Seq(SUBSET BPDU)]
  <2> HIDE DEF sent
  <2>1. QED
    BY <1>6, <1>8
<1>10. QED
  BY <1>5, <1>8, <1>9

-----------------------------------------------------------------------------
(* The inductive invariant holds at the start.                             *)
LEMMA InitInvariant == Init => IInv
<1> SUFFICES ASSUME Init PROVE IInv
  OBVIOUS
<1>1. \A b \in Bridges : Default(b) \in BPDU /\ Genuine(Default(b))
  BY DefaultIsGenuine
<1>2. ASSUME NEW b \in Bridges, NEW p \in Ports(b)
      PROVE  Sendable(b, p, Default(b)) \in BPDU
  BY <1>1, SendableFields
<1>3. TypeOK
  <2>1. \A b \in Bridges :
          /\ status[b] \in [Ports(b) -> {DESIGNATED, DISABLED}]
          /\ last_sent[b] \in [Ports(b) -> BPDU]
          /\ seen[b] \in [Ports(b) -> SUBSET BPDU]
          /\ inbox[b] \in [Ports(b) -> Seq(SUBSET BPDU)]
    BY <1>2 DEF Init
  <2>2. \A b \in Bridges : root_bpdu[b] = Default(b) /\ root_bpdu[b].id = b
    BY DEF Init, Default
  <2>3. QED
    BY <1>1, <2>1, <2>2 DEF Init, TypeOK, None
<1>4. NeverRaises
  BY DEF Init, NeverRaises
<1>5. RootStaysOpen
  BY DEF Init, RootStaysOpen
<1>6. ASSUME NEW b \in Bridges PROVE BelievesOf(b)
  BY <1>1 DEF Init, BelievesOf
<1>7. ASSUME NEW b \in Bridges, NEW p \in Ports(b) PROVE PortInv(b, p)
  <2>1. /\ last_sent[b][p] = Sendable(b, p, root_bpdu[b])
        /\ seen[b][p] = {} /\ inbox[b][p] = <<>>
    BY DEF Init
  <2>2. QED
    BY <2>1 DEF PortInv
<1>8. QED
  BY <1>3, <1>4, <1>5, <1>6, <1>7 DEF IInv

(* Starting a bridge keeps the invariant.                                  *)
LEMMA StartKeepsInvariant ==
    ASSUME IInv, NEW b \in Bridges, Start(b)
    PROVE  IInv'
<1>1. /\ up' = [up EXCEPT ![b] = "on"]
      /\ UNCHANGED <<root_port, root_bpdu, status, seen>>
      /\ Announce(b, inbox)
  BY DEF Start
<1>2. root_bpdu'[b] \in BPDU /\ root_bpdu'[b].id = b /\ Genuine(root_bpdu'[b])
  BY <1>1 DEF IInv, TypeOK, BelievesOf
<1>3. /\ DOMAIN inbox' = Bridges
      /\ \A c \in Bridges : inbox'[c] \in [Ports(c) -> Seq(SUBSET BPDU)]
      /\ \A c \in Bridges : \A q \in Ports(c) : GoodBox(c, q, inbox'[c][q])
      /\ DOMAIN last_sent' = Bridges
      /\ \A c \in Bridges : last_sent'[c] \in [Ports(c) -> BPDU]
      /\ \A c \in Bridges : c # b => last_sent'[c] = last_sent[c]
      /\ \A p \in Ports(b) : last_sent'[b][p] = Sendable(b, p, root_bpdu'[b])
  BY <1>1, <1>2, BoxesAreGood, AnnounceKeepsBoxes
<1>4. TypeOK'
  BY <1>1, <1>3 DEF IInv, TypeOK
<1>5. NeverRaises'
  BY <1>1 DEF IInv, NeverRaises, TypeOK
<1>6. RootStaysOpen'
  BY <1>1 DEF IInv, RootStaysOpen
<1>7. ASSUME NEW c \in Bridges PROVE BelievesOf(c)'
  BY <1>1 DEF IInv, BelievesOf
<1>8. ASSUME NEW c \in Bridges, NEW q \in Ports(c) PROVE PortInv(c, q)'
  <2>1. PortInv(c, q)
    BY DEF IInv
  <2>2. last_sent'[c][q] = Sendable(c, q, root_bpdu'[c])
    BY <1>1, <1>3, <2>1 DEF PortInv
  <2>3. QED
    BY <1>1, <1>3, <2>1, <2>2 DEF PortInv, GoodBox
<1>9. QED
  BY <1>4, <1>5, <1>6, <1>7, <1>8 DEF IInv

(* Stopping a bridge keeps the invariant.                                  *)
LEMMA StopKeepsInvariant ==
    ASSUME IInv, NEW b \in Bridges, Stop(b)
    PROVE  IInv'
<1>1. /\ up' = [up EXCEPT ![b] = "stopped"]
      /\ inbox' = [inbox EXCEPT ![b] = [p \in Ports(b) |-> <<>>]]
      /\ UNCHANGED <<root_port, root_bpdu, status, last_sent, seen>>
  BY DEF Stop
<1>2. \A c \in Bridges : \A q \in Ports(c) :
         inbox'[c][q] = inbox[c][q] \/ inbox'[c][q] = <<>>
  BY <1>1 DEF IInv, TypeOK
<1>3. /\ DOMAIN inbox' = Bridges
      /\ \A c \in Bridges : inbox'[c] \in [Ports(c) -> Seq(SUBSET BPDU)]
  BY <1>1 DEF IInv, TypeOK
<1>4. TypeOK'
  BY <1>1, <1>3 DEF IInv, TypeOK
<1>5. NeverRaises'
  BY <1>1 DEF IInv, NeverRaises, TypeOK
<1>6. RootStaysOpen'
  BY <1>1 DEF IInv, RootStaysOpen
<1>7. ASSUME NEW c \in Bridges PROVE BelievesOf(c)'
  BY <1>1 DEF IInv, BelievesOf
<1>8. ASSUME NEW c \in Bridges, NEW q \in Ports(c) PROVE PortInv(c, q)'
  BY <1>1, <1>2 DEF IInv, PortInv
<1>9. QED
  BY <1>4, <1>5, <1>6, <1>7, <1>8 DEF IInv

-----------------------------------------------------------------------------
(* A turn of the loop.                                                     *)

(* What the requests of a turn leave of the ports of b, before b looks for *)
(* a new root: what is heard is audible, a port that is not disabled has   *)
(* heard of no nearer root, and the ports of a lowest bridge do not change. *)
PortsHandled(b) ==
    /\ DOMAIN seen' = Bridges /\ DOMAIN status' = Bridges
    /\ \A c \in Bridges : c # b => seen'[c] = seen[c] /\ status'[c] = status[c]
    /\ seen'[b] \in [Ports(b) -> SUBSET BPDU]
    /\ status'[b] \in [Ports(b) -> {DESIGNATED, DISABLED}]
    /\ \A p \in Ports(b) : \A x \in seen'[b][p] : Audible(b, p, x)
    /\ \A p \in Ports(b) : status'[b][p] = DESIGNATED =>
          \A x \in seen'[b][p] : ~Nearer(x, root_bpdu[b])
    /\ Lowest(b) => status'[b] = status[b]

(* Nothing better than its own default reaches a lowest bridge.            *)
LEMMA NothingBeatsLowest ==
    ASSUME NEW b \in Bridges, NEW p \in Ports(b), NEW x, Audible(b, p, x),
           Lowest(b)
    PROVE  ~Better(x, Sendable(b, p, Default(b)))
<1> DEFINE m == Sendable(b, p, Default(b))
<1>1. m.root = b /\ m.cost = 0 /\ m.port = p /\ m.id = b
  BY DefaultIsGenuine, SendableFields DEF Default
<1> HIDE DEF m
<1>2. /\ x \in BPDU
      /\ x.cost = 0 => x.root = x.id
      /\ x.port \in Ports(x.id) /\ LanOf[x.id][x.port] = LanOf[b][p]
      /\ ~(x.id = b /\ x.port = p)
  BY DEF Audible, Genuine
<1>3. b <= x.root /\ x.cost \in Nat /\ x.root \in Nat /\ b \in Nat
  BY <1>2, BridgesAreNumbers DEF Lowest, BPDU
<1>4. SUFFICES ASSUME Better(x, m) PROVE FALSE
  BY DEF m
<1>5. x.root = b /\ x.cost = 0
  BY <1>1, <1>3, <1>4 DEF Better
<1>6. x.id = b
  BY <1>2, <1>5
<1>7. x.port # p
  BY <1>2, <1>6
<1>8. QED
  BY <1>2, <1>6, <1>7 DEF Lowest

LEMMA HandlingKeepsPorts ==
    ASSUME IInv, NEW b \in Bridges, NEW read \in SUBSET Ports(b), Turn(b, read)
    PROVE  PortsHandled(b)
<1>1. /\ DOMAIN seen = Bridges /\ DOMAIN status = Bridges
      /\ seen[b] \in [Ports(b) -> SUBSET BPDU]
      /\ status[b] \in [Ports(b) -> {DESIGNATED, DISABLED}]
      /\ root_bpdu[b] \in BPDU
  BY DEF IInv, TypeOK
<1>2. PICK expired \in SUBSET Expirable(b, read) :
        /\ seen' = [seen EXCEPT ![b] = [p \in Ports(b) |->
              IF p \in Handled(b, read, expired)
              THEN Heard(b, p, expired) ELSE seen[b][p]]]
        /\ status' = [status EXCEPT ![b] = [p \in Ports(b) |->
              IF p \in Handled(b, read, expired)
              THEN StatusAfter(b, p, Heard(b, p, expired)) ELSE status[b][p]]]
  BY DEF Turn
<1> DEFINE handled == Handled(b, read, expired)
<1>3. handled \subseteq read
  BY DEF Handled
<1>4. ASSUME NEW p \in read PROVE Audible(b, p, Received(b, p))
  <2>1. inbox[b][p] # <<>> /\ GoodBox(b, p, inbox[b][p])
    BY BoxesAreGood DEF Turn
  <2>2. QED
    BY <2>1, ReadLeavesGoodBox DEF Received
<1>5. ASSUME NEW p \in Ports(b), NEW x \in seen[b][p]
      PROVE  Audible(b, p, x)
  BY DEF IInv, PortInv
<1>6. ASSUME NEW p \in read, NEW x \in Heard(b, p, expired)
      PROVE  Audible(b, p, x) /\ x \in BPDU
  BY <1>4, <1>5 DEF Heard, Audible
<1>7. ASSUME NEW p \in read,
             StatusAfter(b, p, Heard(b, p, expired)) = DESIGNATED,
             NEW x \in Heard(b, p, expired)
      PROVE  ~Nearer(x, root_bpdu[b])
  <2>1. ~Better(x, last_sent[b][p])
    BY <1>7 DEF StatusAfter, DESIGNATED, DISABLED
  <2>2. last_sent[b][p] = Sendable(b, p, root_bpdu[b])
    BY DEF IInv, PortInv
  <2>3. QED
    BY <1>1, <1>6, <2>1, <2>2, NotBetterNotNearer
<1>8. \A p \in Ports(b) :
        /\ seen'[b][p] = IF p \in handled THEN Heard(b, p, expired) ELSE seen[b][p]
        /\ status'[b][p] = IF p \in handled
                           THEN StatusAfter(b, p, Heard(b, p, expired))
                           ELSE status[b][p]
  BY <1>1, <1>2
<1> HIDE DEF handled
<1>9. /\ DOMAIN seen' = Bridges /\ DOMAIN status' = Bridges
      /\ \A c \in Bridges : c # b => seen'[c] = seen[c] /\ status'[c] = status[c]
  BY <1>1, <1>2
<1>10. seen'[b] \in [Ports(b) -> SUBSET BPDU]
  <2>1. ASSUME NEW p \in Ports(b) PROVE seen'[b][p] \in SUBSET BPDU
    BY <1>1, <1>3, <1>6, <1>8
  <2>2. seen'[b] = [p \in Ports(b) |-> seen'[b][p]]
    BY <1>1, <1>2
  <2>3. QED
    BY <2>1, <2>2
<1>11. status'[b] \in [Ports(b) -> {DESIGNATED, DISABLED}]
  <2>1. ASSUME NEW p \in Ports(b) PROVE status'[b][p] \in {DESIGNATED, DISABLED}
    BY <1>1, <1>8 DEF StatusAfter
  <2>2. status'[b] = [p \in Ports(b) |-> status'[b][p]]
    BY <1>1, <1>2
  <2>3. QED
    BY <2>1, <2>2
<1>12. ASSUME NEW p \in Ports(b), NEW x \in seen'[b][p] PROVE Audible(b, p, x)
  BY <1>3, <1>5, <1>6, <1>8
<1>13. ASSUME NEW p \in Ports(b), status'[b][p] = DESIGNATED, NEW x \in seen'[b][p]
       PROVE  ~Nearer(x, root_bpdu[b])
  <2>1. CASE p \in handled
    BY <1>3, <1>7, <1>8, <1>13, <2>1
  <2>2. CASE p \notin handled
    BY <1>8, <1>13, <2>2 DEF IInv, PortInv
  <2>3. QED
    BY <2>1, <2>2
<1>14. ASSUME Lowest(b) PROVE status'[b] = status[b]
  <2>1. root_bpdu[b] = Default(b)
    BY <1>14 DEF IInv, BelievesOf
  <2>2. \A p \in Ports(b) : /\ status[b][p] = DESIGNATED
                            /\ last_sent[b][p] = Sendable(b, p, Default(b))
    BY <1>14, <2>1 DEF IInv, PortInv, RootStaysOpen
  <2>3. ASSUME NEW p \in handled
        PROVE  StatusAfter(b, p, Heard(b, p, expired)) = DESIGNATED
    BY <1>3, <1>6, <1>14, <2>2, NothingBeatsLowest DEF StatusAfter
  <2>4. \A p \in Ports(b) : status'[b][p] = status[b][p]
    BY <1>8, <2>2, <2>3
  <2>5. QED
    BY <1>1, <1>11, <2>4
<1>15. QED
  BY <1>9, <1>10, <1>11, <1>12, <1>13, <1>14 DEF PortsHandled

(* Looking for a new root raises nothing and keeps what is believed true.  *)
RootHandled(b) ==
    /\ up' = up
    /\ root_port' \in [Bridges -> Nat]
    /\ root_port'[b] \in Ports(b) \cup {None}
    /\ root_bpdu' \in [Bridges -> BPDU]
    /\ root_bpdu'[b].id = b
    /\ \A c \in Bridges : c # b => /\ root_port'[c] = root_port[c]
                                  /\ root_bpdu'[c] = root_bpdu[c]
    /\ BelievesOf(b)'
    /\ \A p \in Ports(b) : status'[b][p] = DESIGNATED =>
          \A x \in seen'[b][p] : ~Nearer(x, root_bpdu'[b])
    /\ Lowest(b) => root_port'[b] = root_port[b]

LEMMA UnchangedRootHandled ==
    ASSUME IInv, NEW b \in Bridges, PortsHandled(b),
           UNCHANGED <<up, root_port, root_bpdu>>
    PROVE  RootHandled(b)
BY DEF IInv, TypeOK, PortsHandled, RootHandled, BelievesOf

(* A new belief is at least as good as the old one, or no root heard of is *)
(* nearer than it.                                                         *)
LEMMA UpdatedRootHandled ==
    ASSUME IInv, NEW b \in Bridges, PortsHandled(b), ~Lowest(b), up' = up,
           NEW port \in Ports(b) \cup {None}, NEW x \in BPDU,
           x.id = b, Genuine(x), x.port = None => x = Default(b),
           UpdateRoot(b, port, x),
           \A p \in Ports(b) : status'[b][p] = DESIGNATED =>
              \A y \in seen'[b][p] : ~Nearer(y, x)
    PROVE  RootHandled(b)
<1>1. /\ root_port \in [Bridges -> Nat] /\ root_bpdu \in [Bridges -> BPDU]
      /\ root_bpdu[b].id = b
      /\ BelievesOf(b)
  BY DEF IInv, TypeOK
<1>2. port \in Nat
  BY PortsArePositive DEF None
<1>3. /\ root_port' \in [Bridges -> Nat] /\ root_port'[b] = port
      /\ \A c \in Bridges : c # b => root_port'[c] = root_port[c]
  BY <1>1, <1>2 DEF UpdateRoot
<1>4. /\ root_bpdu' \in [Bridges -> BPDU]
      /\ root_bpdu'[b] = x \/ root_bpdu'[b] = root_bpdu[b]
      /\ \A c \in Bridges : c # b => root_bpdu'[c] = root_bpdu[c]
  BY <1>1 DEF UpdateRoot
<1>5. BelievesOf(b)'
  BY <1>1, <1>4 DEF BelievesOf
<1>6. \A p \in Ports(b) : status'[b][p] = DESIGNATED =>
          \A y \in seen'[b][p] : ~Nearer(y, root_bpdu'[b])
  BY <1>4 DEF PortsHandled
<1>7. QED
  BY <1>1, <1>3, <1>4, <1>5, <1>6 DEF RootHandled

LEMMA CalculatedRootHandled ==
    ASSUME IInv, NEW b \in Bridges, PortsHandled(b), ~Lowest(b), CalculateRoot(b)
    PROVE  RootHandled(b)
<1>1. CASE BecomeRoot(b)
  <2>1. Default(b) \in BPDU /\ Default(b).id = b /\ Genuine(Default(b))
    BY DefaultIsGenuine DEF Default
  <2>2. ASSUME NEW p \in Ports(b), NEW y \in seen'[b][p]
        PROVE  ~Nearer(y, Default(b))
    <3>1. y \in BPDU /\ b <= y.root
      BY <1>1 DEF PortsHandled, BecomeRoot
    <3>2. Default(b).root = b /\ Default(b).cost = 0
      BY DEF Default
    <3>3. QED
      BY <3>1, <3>2, BridgesAreNumbers DEF Nearer, BPDU
  <2>3. UpdateRoot(b, None, Default(b)) /\ up' = up
    BY <1>1 DEF BecomeRoot
  <2>4. QED
    BY <2>1, <2>2, <2>3, UpdatedRootHandled
<1>2. ASSUME NEW p \in Ports(b), NEW x \in seen'[b][p],
             BestHeard(b, p, x), x.root # b,
             up' = [up EXCEPT ![b] = IF Raises(b, p, CostAdjusted(x))
                                     THEN "crashed" ELSE @],
             \/ KeepRoot(b, CostAdjusted(x))
             \/ AdoptRoot(b, p, CostAdjusted(x))
      PROVE  RootHandled(b)
  <2> DEFINE adjusted == CostAdjusted(x)
             adopted == OwnBy(b, adjusted)
  <2>1. Audible(b, p, x)
    BY DEF PortsHandled
  <2>0. adjusted = CostAdjusted(x) /\ adopted = OwnBy(b, adjusted)
    OBVIOUS
  <2> HIDE DEF adjusted, adopted
  <2>2. /\ x \in BPDU /\ adjusted \in BPDU /\ adopted \in BPDU
        /\ adopted.id = b /\ adopted.port # None
        /\ adopted.root = x.root /\ adopted.cost = x.cost + 1
        /\ adjusted.root = x.root /\ adjusted.cost = x.cost + 1
        /\ adjusted.port = x.port
        /\ Genuine(adopted)
    <3>1. x \in BPDU
      BY <2>1 DEF Audible
    <3>2. QED
      BY <2>0, <2>1, <3>1, AdoptedIsGenuine
  <2>3. root_bpdu[b] \in BPDU /\ (root_bpdu[b].port = None => root_bpdu[b].root = b)
    BY DEF IInv, TypeOK, BelievesOf, Default
  <2>4. ~(Better(adjusted, root_bpdu[b]) /\ status'[b][p] # DISABLED)
    <3> SUFFICES ASSUME Better(adjusted, root_bpdu[b]), status'[b][p] # DISABLED
                 PROVE  FALSE
      OBVIOUS
    <3>1. status'[b][p] = DESIGNATED
      BY DEF PortsHandled
    <3>2. ~Nearer(x, root_bpdu[b])
      BY <3>1 DEF PortsHandled
    <3>3. x.cost < x.cost + 1 /\ x.cost \in Nat /\ root_bpdu[b].cost \in Nat
      BY <2>2, <2>3 DEF BPDU
    <3>4. QED
      BY <2>2, <3>2, <3>3 DEF Better, Nearer
  <2>5. ~Raises(b, p, adjusted)
    BY <1>2, <2>2, <2>3, <2>4 DEF Raises
  <2>6. up' = up
    BY <1>2, <2>5 DEF adjusted, IInv, TypeOK
  <2>7. CASE KeepRoot(b, adjusted)
    BY <2>6, <2>7, UnchangedRootHandled DEF KeepRoot
  <2>8. CASE AdoptRoot(b, p, adjusted)
    <3>1. Better(adjusted, root_bpdu[b]) /\ UpdateRoot(b, p, adopted)
      BY <2>8 DEF AdoptRoot, adopted
    <3>2. ASSUME NEW q \in Ports(b), status'[b][q] = DESIGNATED,
                 NEW y \in seen'[b][q]
          PROVE  ~Nearer(y, adopted)
      <4>1. y \in BPDU /\ ~Nearer(y, root_bpdu[b])
        BY <3>2 DEF PortsHandled
      <4>2. ~Nearer(y, adjusted)
        BY <2>2, <2>3, <3>1, <4>1, NotNearerThanBetter
      <4>3. QED
        BY <2>2, <4>2 DEF Nearer
    <3>3. QED
      BY <2>2, <2>6, <3>1, <3>2, UpdatedRootHandled
  <2>9. QED
    BY <1>2, <2>7, <2>8 DEF adjusted
<1>3. QED
  BY <1>1, <1>2 DEF CalculateRoot

(* A turn of the loop keeps the invariant.                                 *)
LEMMA TurnKeepsInvariant ==
    ASSUME IInv, NEW b \in Bridges, NEW read \in SUBSET Ports(b), Turn(b, read)
    PROVE  IInv'
<1>1. PortsHandled(b)
  BY HandlingKeepsPorts
<1>2. RootHandled(b)
  <2>1. CASE status'[b] = status[b]
    BY <1>1, <2>1, UnchangedRootHandled DEF Turn
  <2>2. CASE status'[b] # status[b]
    BY <1>1, <2>2, CalculatedRootHandled DEF Turn, PortsHandled
  <2>3. QED
    BY <2>1, <2>2
<1> DEFINE box == [inbox EXCEPT ![b] = [p \in Ports(b) |->
                     IF p \in read THEN Unread(@[p]) ELSE @[p]]]
<1>3. /\ DOMAIN box = Bridges
      /\ \A c \in Bridges : c # b => box[c] = inbox[c]
      /\ box[b] = [p \in Ports(b) |-> IF p \in read THEN Unread(inbox[b][p])
                                                   ELSE inbox[b][p]]
  BY DEF IInv, TypeOK
<1>4. \/ Announce(b, box)
      \/ /\ up'[b] = "on" => ~RootChanges(b)
         /\ inbox' = box
         /\ UNCHANGED last_sent
  BY DEF Turn
<1> HIDE DEF box
<1>5. ASSUME NEW c \in Bridges, NEW q \in Ports(c) PROVE GoodBox(c, q, box[c][q])
  <2>1. GoodBox(c, q, inbox[c][q])
    BY BoxesAreGood
  <2>2. CASE c = b /\ q \in read
    <3>1. box[c][q] = Unread(inbox[c][q]) /\ inbox[c][q] # <<>>
      BY <1>3, <2>2 DEF Turn
    <3>2. QED
      BY <2>1, <3>1, ReadLeavesGoodBox
  <2>3. CASE ~(c = b /\ q \in read)
    BY <1>3, <2>1, <2>3
  <2>4. QED
    BY <2>2, <2>3
<1>6. \A c \in Bridges : box[c] \in [Ports(c) -> Seq(SUBSET BPDU)]
  <2>1. \A c \in Bridges : inbox[c] \in [Ports(c) -> Seq(SUBSET BPDU)]
    BY DEF IInv, TypeOK
  <2>2. \A p \in Ports(b) : box[b][p] \in Seq(SUBSET BPDU)
    BY <1>5 DEF GoodBox
  <2>3. box[b] \in [Ports(b) -> Seq(SUBSET BPDU)]
    BY <1>3, <2>2
  <2>4. QED
    BY <1>3, <2>1, <2>3
<1>7. /\ DOMAIN inbox' = Bridges
      /\ \A c \in Bridges : inbox'[c] \in [Ports(c) -> Seq(SUBSET BPDU)]
      /\ \A c \in Bridges : \A q \in Ports(c) : GoodBox(c, q, inbox'[c][q])
      /\ DOMAIN last_sent' = Bridges
      /\ \A c \in Bridges : last_sent'[c] \in [Ports(c) -> BPDU]
      /\ \A c \in Bridges : c # b => last_sent'[c] = last_sent[c]
      /\ \A p \in Ports(b) : last_sent'[b][p] = Sendable(b, p, root_bpdu'[b])
  <2>1. CASE Announce(b, box)
    <3>1. root_bpdu'[b] \in BPDU /\ root_bpdu'[b].id = b /\ Genuine(root_bpdu'[b])
      BY <1>2 DEF RootHandled, BelievesOf
    <3>2. QED
      BY <1>5, <2>1, <3>1, AnnounceKeepsBoxes
  <2>2. CASE /\ up'[b] = "on" => ~RootChanges(b)
             /\ inbox' = box
             /\ UNCHANGED last_sent
    <3>1. up'[b] = "on"
      BY <1>2 DEF RootHandled, Turn, On
    <3>2. root_bpdu'[b] = root_bpdu[b]
      BY <2>2, <3>1 DEF RootChanges
    <3>3. QED
      BY <1>3, <1>5, <1>6, <2>2, <3>2 DEF IInv, TypeOK, PortInv
  <2>3. QED
    BY <1>4, <2>1, <2>2
<1>8. TypeOK'
  BY <1>1, <1>2, <1>7 DEF IInv, TypeOK, PortsHandled, RootHandled
<1>9. NeverRaises'
  BY <1>2 DEF IInv, NeverRaises, RootHandled
<1>10. RootStaysOpen'
  BY <1>1, <1>2 DEF IInv, RootStaysOpen, PortsHandled, RootHandled
<1>11. ASSUME NEW c \in Bridges PROVE BelievesOf(c)'
  BY <1>2 DEF IInv, BelievesOf, RootHandled
<1>12. ASSUME NEW c \in Bridges, NEW q \in Ports(c) PROVE PortInv(c, q)'
  <2>1. CASE c = b
    BY <1>1, <1>2, <1>7, <2>1 DEF PortInv, PortsHandled, RootHandled, GoodBox
  <2>2. CASE c # b
    <3>1. PortInv(c, q)
      BY DEF IInv
    <3>2. /\ root_bpdu'[c] = root_bpdu[c] /\ status'[c] = status[c]
          /\ seen'[c] = seen[c] /\ last_sent'[c] = last_sent[c]
      BY <1>1, <1>2, <1>7, <2>2 DEF PortsHandled, RootHandled
    <3>3. QED
      BY <1>7, <3>1, <3>2 DEF PortInv, GoodBox
  <2>3. QED
    BY <2>1, <2>2
<1>13. QED
  BY <1>8, <1>9, <1>10, <1>11, <1>12 DEF IInv

-----------------------------------------------------------------------------
(* The inductive invariant holds in every network of bridges.              *)
THEOREM Invariance == Spec => []IInv
<1>1. Init => IInv
  BY InitInvariant
<1>2. IInv /\ [Next]_vars => IInv'
  <2> SUFFICES ASSUME IInv, [Next]_vars PROVE IInv'
    OBVIOUS
  <2>1. ASSUME NEW b \in Bridges, Start(b) PROVE IInv'
    BY <2>1, StartKeepsInvariant
  <2>2. ASSUME NEW b \in Bridges, Stop(b) PROVE IInv'
    BY <2>2, StopKeepsInvariant
  <2>3. ASSUME NEW b \in Bridges, NEW read \in SUBSET Ports(b), Turn(b, read)
        PROVE  IInv'
    BY <2>3, TurnKeepsInvariant
  <2>4. CASE UNCHANGED vars
    BY <2>4 DEF IInv, TypeOK, NeverRaises, RootStaysOpen, BelievesOf, PortInv, vars
  <2>5. QED
    BY <2>1, <2>2, <2>3, <2>4 DEF Next
<1>3. QED
  BY <1>1, <1>2, PTL DEF Spec

(* The variables keep their types: bridge.py, port.py.                     *)
THEOREM TypeCorrect == Spec => []TypeOK
<1>1. IInv => TypeOK
  BY DEF IInv
<1>2. QED
  BY <1>1, Invariance, PTL

(* The RuntimeError of calculated_root_changed is never raised, nor is a   *)
(* port compared with None, whatever is lost, delayed, expired or stopped. *)
THEOREM RaisesNothing == Spec => []NeverRaises
<1>1. IInv => NeverRaises
  BY DEF IInv
<1>2. QED
  BY <1>1, Invariance, PTL

(* The bridge with the lowest identity forwards on all its ports for ever  *)
(* and never follows another bridge.                                       *)
THEOREM LowestStaysOpen == Spec => []RootStaysOpen
<1>1. IInv => RootStaysOpen
  BY DEF IInv
<1>2. QED
  BY <1>1, Invariance, PTL

(* No bridge ever claims to be nearer to a root than it is.                *)
THEOREM ClaimsAreSound == Spec => []CostsAreSound
<1>1. IInv => CostsAreSound
  BY DEF IInv, BelievesOf, PortInv, Audible, Genuine, CostsAreSound
<1>2. QED
  BY <1>1, Invariance, PTL
=============================================================================
