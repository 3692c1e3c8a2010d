------------------------------- MODULE Routes -------------------------------
(***************************************************************************)
(* The forwarding table of 3700Router: update messages, the order of       *)
(* preference among them and the choice of a route for an address.         *)
(***************************************************************************)
EXTENDS Integers, Sequences, SequencesExt

CONSTANT Width      \* bits of an address: 32 in the code, few in a model

ASSUME WidthAssumption == Width \in Nat \ {0}

(* An address shifted to the right by n bits is divided by Power[n].       *)
Power[n \in Nat] == IF n = 0 THEN 1 ELSE 2 * Power[n - 1]

IGP == "IGP"
EGP == "EGP"
UNK == "UNK"

Address == 0 .. Power[Width] - 1

(* Attributes that come with a prefix: ASPath is the path of the update.   *)
UpdateMsg == [network : Address, length : 0..Width, ASPath : Seq(Nat),
              localpref : Nat, selfOrigin : BOOLEAN,
              origin : {IGP, EGP, UNK}]

Prefix(m) == [network |-> m.network, length |-> m.length]

(* A SubnetMask is known by its length.                                    *)
prefix_shift_amount(m) == Width - m.length

(* Handler.matched_subnet.                                                 *)
matched_subnet(a, m) ==
    LET shift == Power[prefix_shift_amount(m)]
    IN  m.network \div shift = a \div shift

-----------------------------------------------------------------------------
(* A table is a sequence of entries [msg, from] in the order of the dict:  *)
(* a message stored again keeps its place and gets the new sender.         *)

(* Mutated forms: the same message twice makes two entries; a network has  *)
(* one entry only.                                                         *)
StoredByNetwork(table, m, n) ==
    Append(SelectSeq(table, LAMBDA e : Prefix(e.msg) # Prefix(m)),
           [msg |-> m, from |-> n])
StoredAgain(table, m, n) == Append(table, [msg |-> m, from |-> n])

Stored(table, m, n) ==
    IF \E e \in ToSet(table) : e.msg = m
    THEN [i \in DOMAIN table |->
             IF table[i].msg = m THEN [msg |-> m, from |-> n] ELSE table[i]]
    ELSE Append(table, [msg |-> m, from |-> n])

(* Mutated form: the first entry for the prefix goes, whoever sent it.     *)
WithdrawnFromAny(table, n, p) ==
    RemoveFirstMatch(table, LAMBDA e : Prefix(e.msg) = p)

(* The first entry for prefix p that n has sent is deleted.                *)
Withdrawn(table, n, p) ==
    RemoveFirstMatch(table, LAMBDA e : Prefix(e.msg) = p /\ e.from = n)

-----------------------------------------------------------------------------
(* AutonomousSystemOrigin: __gt__ holds of IGP and EGP against all others, *)
(* __lt__ of UNK only.                                                      *)
OriginGreater(x, y) == x # y /\ x # UNK
OriginLess(x, y) == x # y /\ ~OriginGreater(x, y)

(* Mutated form: the longer path wins.                                     *)
KeepsLongerPath(largest, contending) ==
    LET l == largest.msg
        c == contending.msg
    IN  \/ l.localpref > c.localpref
        \/ /\ l.localpref = c.localpref
           /\ \/ l.selfOrigin /\ ~c.selfOrigin
              \/ /\ l.selfOrigin = c.selfOrigin
                 /\ \/ Len(l.ASPath) > Len(c.ASPath)
                    \/ /\ Len(l.ASPath) = Len(c.ASPath)
                       /\ \/ OriginLess(l.origin, c.origin)
                          \/ l.origin = c.origin /\ largest.from < contending.from

(* _determine_best_route: the entry found so far is kept.                  *)
Keeps(largest, contending) ==
    LET l == largest.msg
        c == contending.msg
    IN  \/ l.localpref > c.localpref
        \/ /\ l.localpref = c.localpref
           /\ \/ l.selfOrigin /\ ~c.selfOrigin
              \/ /\ l.selfOrigin = c.selfOrigin
                 /\ \/ Len(l.ASPath) < Len(c.ASPath)
                    \/ /\ Len(l.ASPath) = Len(c.ASPath)
                       /\ \/ OriginLess(l.origin, c.origin)
                          \/ l.origin = c.origin /\ largest.from < contending.from

(* The loop of DataPacketHandler.process: <<>> or <<the entry found>>.     *)
BestRoute(table, a) ==
    FoldLeft(LAMBDA best, e :
                IF matched_subnet(a, e.msg)
                   /\ \/ best = <<>>
                      \/ e.msg.length > best[1].msg.length
                      \/ e.msg.length = best[1].msg.length /\ ~Keeps(best[1], e)
                THEN <<e>> ELSE best,
             <<>>, table)

-----------------------------------------------------------------------------
(* What the comments in the code say of the choice: the longest prefix;    *)
(* then the highest localpref, selfOrigin, the shortest ASPath, the best   *)
(* origin (IGP < EGP < UNK), the lowest address of the neighbor.           *)
OriginRank == [o \in {IGP, EGP, UNK} |->
                  CASE o = IGP -> 1 [] o = EGP -> 2 [] o = UNK -> 3]

Rank(e) == << -e.msg.length, -e.msg.localpref,
              IF e.msg.selfOrigin THEN 0 ELSE 1,
              Len(e.msg.ASPath), OriginRank[e.msg.origin], e.from >>

Before(r, s) ==
    \E i \in DOMAIN r : r[i] < s[i] /\ \A j \in 1 .. i - 1 : r[j] = s[j]

Candidates(table, a) == {e \in ToSet(table) : matched_subnet(a, e.msg)}

IsBest(e, table, a) ==
    /\ e \in Candidates(table, a)
    /\ \A x \in Candidates(table, a) : ~Before(Rank(x), Rank(e))
=============================================================================
