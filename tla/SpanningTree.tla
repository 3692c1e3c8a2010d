---------------------------- MODULE SpanningTree ----------------------------
(***************************************************************************)
(* The spanning tree protocol of 3700Bridge: bridges that start, announce  *)
(* the root they believe in on every LAN they are connected to, disable    *)
(* ports, choose a root port and may be stopped.                           *)
(*                                                                         *)
(* A step of a bridge is one turn of the loop of Bridge.launch: the BPDUs  *)
(* read, their handling, the recalculation of the root, the announcement.  *)
(* Data frames are in Forwarding.                                          *)
(***************************************************************************)
EXTENDS Integers, Sequences, FiniteSets

CONSTANTS
    Bridges,    \* the identities of the bridges, ordered as the strings are
    Lans,       \* the LANs of the configuration
    LanOf,      \* LanOf[b][p] is the LAN on port p of bridge b
    Capacity,   \* announcements a UDP socket holds before it drops what arrives
    MayStop,    \* the bridges the configuration stops at some time
    Expires,    \* a BPDU may go unheard until the port forgets it
    Prompt,     \* all of a bridge's BPDUs are read within MESSAGE_SECOND_TIMEOUT
    MaxCost     \* bound: no bridge adopts a root farther than this

Ports(b) == DOMAIN LanOf[b]

ASSUME BridgesAssumption == Bridges \subseteq Nat
ASSUME LanAssumption == LanOf \in [Bridges -> Seq(Lans)]
ASSUME StopAssumption == MayStop \subseteq Bridges
ASSUME TimeAssumption == Expires \in BOOLEAN /\ Prompt \in BOOLEAN
ASSUME CapacityAssumption == Capacity \in Nat /\ MaxCost \in Nat

None == 0   \* no root port: the ports of the model count from 1
DESIGNATED == "designated"
DISABLED == "disabled"

BPDU == [root : Bridges, cost : Nat, port : Nat, id : Bridges]

VARIABLES
    up,          \* up[b]: "off", "on", "stopped" or "crashed"
    root_port,   \* root_port[b]: index of the port towards the root, or None
    root_bpdu,   \* root_bpdu[b]: what b believes of the root
    status,      \* status[b][p]: DESIGNATED or DISABLED
    last_sent,   \* last_sent[b][p]: the BPDU last sent on port p
    seen,        \* seen[b][p]: the BPDUs heard on p and not expired
    inbox        \* inbox[b][p]: announcements on their way to the socket of
                 \* p, each the set of BPDUs one send_bpdus sends to it

vars == <<up, root_port, root_bpdu, status, last_sent, seen, inbox>>

On(b) == up[b] = "on"

-----------------------------------------------------------------------------
(* Mutated form: a comparison the wrong way round.                         *)
BetterHighestRoot(x, y) == x.root > y.root

(* Mutated form: equal costs are not told apart.                           *)
BetterUntied(x, y) ==
    x.root < y.root \/ (x.root = y.root /\ x.cost < y.cost)

(* The order of the dataclass BPDU, field by field.                        *)
Better(x, y) ==
    \/ x.root < y.root
    \/ /\ x.root = y.root
       /\ \/ x.cost < y.cost
          \/ /\ x.cost = y.cost
             /\ \/ x.port < y.port
                \/ x.port = y.port /\ x.id < y.id

Default(b) == [root |-> b, cost |-> 0, port |-> None, id |-> b]

(* What bridge b sends on port p when it believes in x.                    *)
Sendable(b, p, x) == [x EXCEPT !.id = b, !.port = p]

Init ==
    /\ up = [b \in Bridges |-> "off"]
    /\ root_port = [b \in Bridges |-> None]
    /\ root_bpdu = [b \in Bridges |-> Default(b)]
    /\ status = [b \in Bridges |-> [p \in Ports(b) |-> DESIGNATED]]
    /\ last_sent = [b \in Bridges |->
                      [p \in Ports(b) |-> Sendable(b, p, Default(b))]]
    /\ seen = [b \in Bridges |-> [p \in Ports(b) |-> {}]]
    /\ inbox = [b \in Bridges |-> [p \in Ports(b) |-> <<>>]]

-----------------------------------------------------------------------------
(* A LAN passes a BPDU on to every socket that has ever sent on it, but    *)
(* not to the one it came from: a port hears the other ports of its own    *)
(* bridge on the same LAN.  What does not fit in a socket is lost.         *)
Hears(c, q, m) == /\ up'[c] = "on"
                  /\ LanOf[c][q] = LanOf[m.id][m.port]
                  /\ ~(c = m.id /\ q = m.port)

Arrive(c, q, box, sent) ==
    LET heard == {m \in sent : Hears(c, q, m)}
    IN  IF heard = {} \/ Len(box) >= Capacity THEN box ELSE Append(box, heard)

(* Bridge.send_bpdus, with box the inboxes after this turn's reads.        *)
Announce(b, box) ==
    /\ last_sent' = [last_sent EXCEPT
            ![b] = [p \in Ports(b) |-> Sendable(b, p, root_bpdu'[b])]]
    /\ inbox' = [c \in Bridges |-> [q \in Ports(c) |->
            Arrive(c, q, box[c][q], {last_sent'[b][p] : p \in Ports(b)})]]

Start(b) ==
    /\ up[b] = "off"
    /\ up' = [up EXCEPT ![b] = "on"]
    /\ UNCHANGED <<root_port, root_bpdu, status, seen>>
    /\ Announce(b, inbox)

(* The simulator terminates the process.                                   *)
Stop(b) ==
    /\ b \in MayStop
    /\ On(b)
    /\ up' = [up EXCEPT ![b] = "stopped"]
    /\ inbox' = [inbox EXCEPT ![b] = [p \in Ports(b) |-> <<>>]]
    /\ UNCHANGED <<root_port, root_bpdu, status, last_sent, seen>>

-----------------------------------------------------------------------------
(* Port.read_packet: the ports of a bridge send in the order of their      *)
(* indices.                                                                *)
FirstOf(sent) == CHOOSE x \in sent : \A y \in sent : x.port <= y.port
Received(b, p) == FirstOf(Head(inbox[b][p]))

Unread(box) == IF Cardinality(Head(box)) = 1 THEN Tail(box)
               ELSE [box EXCEPT ![1] = @ \ {FirstOf(@)}]

(* Mutated form: a port remembers the last BPDU only.                      *)
HeardLatest(b, p, expired) == {Received(b, p)}

(* SpanningTreeRequest.handle on port p, which forgets the BPDUs in        *)
(* expired and compares the others with the last one sent.                 *)
Heard(b, p, expired) ==
    {x \in seen[b][p] : <<p, x>> \notin expired} \cup {Received(b, p)}

(* Mutated form: a port is only disabled by a better root.                 *)
StatusAfterRootOnly(b, p, heard) ==
    IF \E x \in heard : x.root < last_sent[b][p].root THEN DISABLED ELSE DESIGNATED

StatusAfter(b, p, heard) ==
    IF \E x \in heard : Better(x, last_sent[b][p]) THEN DISABLED ELSE DESIGNATED

StatusChanges(b, p, expired) ==
    StatusAfter(b, p, Heard(b, p, expired)) # status[b][p]

(* The requests are handled up to the first that changes a status: "or" in *)
(* launch drops the others.                                                *)
Handled(b, read, expired) ==
    {p \in read : \A q \in read : q < p => ~StatusChanges(b, q, expired)}

Expirable(b, read) ==
    IF Expires THEN UNION {{p} \X seen[b][p] : p \in read} ELSE {}

-----------------------------------------------------------------------------
(* Bridge.calculated_root_changed.  The sort is stable: of equal BPDUs the *)
(* one on the lowest port comes first.                                     *)
BestHeard(b, p, x) ==
    /\ x \in seen'[b][p]
    /\ \A q \in Ports(b) : \A y \in seen'[b][q] :
          Better(x, y) \/ (x = y /\ p <= q)

(* "update_port(..) or update_bpdu(..)": the second is not evaluated when  *)
(* the first has changed something.                                        *)
UpdateRoot(b, port, bpdu) ==
    /\ root_port' = [root_port EXCEPT ![b] = port]
    /\ root_bpdu' = [root_bpdu EXCEPT
            ![b] = IF port = root_port[b] THEN bpdu ELSE @]

(* Mutated forms: the cost of the last hop, and the own id, are forgotten.  *)
CostAdjustedNot(x) == x
OwnByNobody(b, x) == x

(* A BPDU with its sender's cost made the receiver's, and made b's own.    *)
CostAdjusted(x) == [x EXCEPT !.cost = @ + 1]
OwnBy(b, x) == [x EXCEPT !.id = b]

(* The RuntimeError of a possible root port that is not disabled, and the  *)
(* TypeError of comparing a port with None.                                *)
Raises(b, p, adjusted) ==
    \/ Better(adjusted, root_bpdu[b]) /\ status'[b][p] # DISABLED
    \/ /\ adjusted.root = root_bpdu[b].root
       /\ adjusted.cost = root_bpdu[b].cost
       /\ root_bpdu[b].port = None

KeepRoot(b, adjusted) ==
    /\ ~Better(adjusted, root_bpdu[b])
    /\ UNCHANGED <<root_port, root_bpdu>>

AdoptRoot(b, p, adjusted) ==
    /\ Better(adjusted, root_bpdu[b])
    /\ adjusted.cost <= MaxCost
    /\ UpdateRoot(b, p, OwnBy(b, adjusted))

BecomeRoot(b) ==
    /\ \A p \in Ports(b) : \A x \in seen'[b][p] : b <= x.root
    /\ (\E p \in Ports(b) : seen'[b][p] # {})
       => \E p \in Ports(b) : \E x \in seen'[b][p] : x.root = b
    /\ UpdateRoot(b, None, Default(b))
    /\ UNCHANGED up

CalculateRoot(b) ==
    \/ BecomeRoot(b)
    \/ \E p \in Ports(b) : \E x \in seen'[b][p] :
          LET adjusted == CostAdjusted(x) IN
          /\ BestHeard(b, p, x)
          /\ x.root # b
          /\ up' = [up EXCEPT
                ![b] = IF Raises(b, p, adjusted) THEN "crashed" ELSE @]
          /\ KeepRoot(b, adjusted) \/ AdoptRoot(b, p, adjusted)

-----------------------------------------------------------------------------
RootChanges(b) == \/ root_port'[b] # root_port[b]
                  \/ root_bpdu'[b] # root_bpdu[b]

(* The timer of the announcements.                                         *)
MayRepeat(b, box) ==
    Prompt => \A c \in Bridges : \A q \in Ports(c) :
                 \A i \in DOMAIN box[c][q] : \A x \in box[c][q][i] : x.id # b

(* Accept what the ports in read hold, handle it, recalculate the root if  *)
(* the status of a port has changed, announce what has changed.            *)
Turn(b, read) ==
    /\ On(b)
    /\ \A p \in read : inbox[b][p] # <<>>
    /\ \E expired \in SUBSET Expirable(b, read) :
          LET handled == Handled(b, read, expired) IN
          /\ seen' = [seen EXCEPT ![b] = [p \in Ports(b) |->
                IF p \in handled THEN Heard(b, p, expired) ELSE seen[b][p]]]
          /\ status' = [status EXCEPT ![b] = [p \in Ports(b) |->
                IF p \in handled THEN StatusAfter(b, p, Heard(b, p, expired))
                                 ELSE status[b][p]]]
    /\ IF status'[b] = status[b] THEN UNCHANGED <<up, root_port, root_bpdu>>
                                 ELSE CalculateRoot(b)
    /\ LET box == [inbox EXCEPT ![b] = [p \in Ports(b) |->
                     IF p \in read THEN Unread(@[p]) ELSE @[p]]]
       IN  \/ /\ up'[b] = "on"
              /\ RootChanges(b) \/ MayRepeat(b, box)
              /\ Announce(b, box)
           \/ /\ up'[b] = "on" => ~RootChanges(b)
              /\ inbox' = box
              /\ UNCHANGED last_sent

Next == \E b \in Bridges :
            \/ Start(b)
            \/ Stop(b)
            \/ \E read \in SUBSET Ports(b) : Turn(b, read)

Spec == Init /\ [][Next]_vars

-----------------------------------------------------------------------------
(* Every bridge of the configuration is started, a socket that has a BPDU  *)
(* is read, and a BPDU is sent at least every MESSAGE_SECOND_TIMEOUT.      *)
Read(b, p) == \E read \in SUBSET Ports(b) : p \in read /\ Turn(b, read)

Repeat(b) == /\ Turn(b, {})
             /\ \E c \in Bridges : \E q \in Ports(c) : inbox'[c][q] # inbox[c][q]

Fairness == \A b \in Bridges :
                /\ WF_vars(Start(b))
                /\ \A p \in Ports(b) : WF_vars(Read(b, p))
                /\ WF_vars(Repeat(b))

FairSpec == Spec /\ Fairness
-----------------------------------------------------------------------------
(* The types of the variables; a root BPDU carries its bridge's own id.    *)
TypeOK ==
    /\ up \in [Bridges -> {"off", "on", "stopped", "crashed"}]
    /\ root_port \in [Bridges -> Nat]
    /\ root_bpdu \in [Bridges -> BPDU]
    /\ DOMAIN status = Bridges /\ DOMAIN last_sent = Bridges
    /\ DOMAIN seen = Bridges /\ DOMAIN inbox = Bridges
    /\ \A b \in Bridges :
          /\ root_port[b] \in Ports(b) \cup {None}
          /\ root_bpdu[b].id = b
          /\ status[b] \in [Ports(b) -> {DESIGNATED, DISABLED}]
          /\ last_sent[b] \in [Ports(b) -> BPDU]
          /\ seen[b] \in [Ports(b) -> SUBSET BPDU]
          /\ inbox[b] \in [Ports(b) -> Seq(SUBSET BPDU)]

(* The RuntimeError of bridge.py ("should always be the case as this port  *)
(* has NOT sent the best BPDU on the LAN") is never raised, although the   *)
(* statuses of the other ports are as old as the last BPDU each has heard. *)
NeverRaises == \A b \in Bridges : up[b] # "crashed"

(* No bridge, and no BPDU on its way, claims a root nearer than it is: a   *)
(* root at cost n is n LANs away or less, whatever has expired or stopped. *)
Neighbours(b) == {c \in Bridges : \E p \in Ports(b) : \E q \in Ports(c) :
                                      LanOf[b][p] = LanOf[c][q]}
Walk(b, r, n) ==
    \E w \in [0..n -> Bridges] :
        /\ w[0] = b /\ w[n] = r
        /\ \A i \in 1..n : w[i] \in Neighbours(w[i - 1])
Sound(x) == Walk(x.id, x.root, x.cost)
CostsAreSound ==
    \A b \in Bridges :
        /\ Sound(root_bpdu[b])
        /\ \A p \in Ports(b) : \A i \in DOMAIN inbox[b][p] :
              \A x \in inbox[b][p][i] : Sound(x)

(* The bridge with the lowest identity never disables a port, nor takes a  *)
(* root port, unless two of its ports are on one LAN.                      *)
Lowest(b) == /\ \A c \in Bridges : b <= c
             /\ \A p, q \in Ports(b) : p # q => LanOf[b][p] # LanOf[b][q]
RootStaysOpen ==
    \A b \in Bridges :
        Lowest(b) => /\ root_port[b] = None
                     /\ \A p \in Ports(b) : status[b][p] = DESIGNATED

-----------------------------------------------------------------------------
(* The inductive invariant.  A BPDU that is heard on port p was sent by    *)
(* another port of that LAN, and claims no root without a walk to it.      *)
Genuine(x) == /\ x.cost = 0 => x.root = x.id
              /\ Sound(x)

Audible(b, p, x) == /\ x \in BPDU
                    /\ x.port \in Ports(x.id)
                    /\ LanOf[x.id][x.port] = LanOf[b][p]
                    /\ ~(x.id = b /\ x.port = p)
                    /\ Genuine(x)

Nearer(x, y) == x.root < y.root \/ (x.root = y.root /\ x.cost < y.cost)

BelievesOf(b) == /\ Genuine(root_bpdu[b])
                 /\ root_bpdu[b].port = None => root_bpdu[b] = Default(b)
                 /\ Lowest(b) => root_bpdu[b] = Default(b)

(* A port that is not disabled has heard of no root nearer than the one    *)
(* its bridge believes in now, however long ago it heard anything.         *)
PortInv(b, p) ==
    /\ last_sent[b][p] = Sendable(b, p, root_bpdu[b])
    /\ status[b][p] = DESIGNATED
         => \A x \in seen[b][p] : ~Nearer(x, root_bpdu[b])
    /\ \A x \in seen[b][p] : Audible(b, p, x)
    /\ \A i \in DOMAIN inbox[b][p] :
          inbox[b][p][i] # {} /\ \A x \in inbox[b][p][i] : Audible(b, p, x)

(* What the proofs of the properties above rest on.                        *)
IInv == /\ TypeOK
        /\ NeverRaises
        /\ RootStaysOpen
        /\ \A b \in Bridges : BelievesOf(b) /\ \A p \in Ports(b) : PortInv(b, p)

-----------------------------------------------------------------------------
(* Mutated form: the root port is forgotten.                               *)
ActiveDesignatedOnly(b, p) == On(b) /\ status[b][p] = DESIGNATED

(* The ports on which frames are forwarded.                                *)
Active(b, p) == On(b) /\ (status[b][p] = DESIGNATED \/ p = root_port[b])
ActivePorts ==
    UNION {{b} \X {p \in Ports(b) : Active(b, p)} : b \in Bridges}
LanAt(a) == LanOf[a[1]][a[2]]

(* Exactly one port of every LAN with bridges is designated.               *)
OneDesignated ==
    \A l \in Lans :
        LET on == UNION {{b} \X {p \in Ports(b) : On(b) /\ LanOf[b][p] = l} :
                            b \in Bridges}
        IN  on # {} =>
            Cardinality({a \in on : status[a[1]][a[2]] = DESIGNATED}) = 1

(* In the end frames cannot circle: no set of active ports has each of its *)
(* bridges and each of its LANs twice.                                     *)
LoopFree ==
    \A C \in SUBSET ActivePorts :
        C # {} => \E a \in C :
            \/ \A c \in C : c[1] = a[1] => c = a
            \/ \A c \in C : LanAt(c) = LanAt(a) => c = a
EventuallyLoopFree == <>[]LoopFree

(* In the end frames reach every LAN: some bridge leads out of every       *)
(* proper part of the LANs.                                                *)
Connected ==
    \A S \in SUBSET Lans \ {{}, Lans} :
        \E a, c \in ActivePorts :
            a[1] = c[1] /\ LanAt(a) \in S /\ LanAt(c) \notin S
EventuallyConnected == <>[]Connected

(* In the end all bridges believe in the bridge with the lowest identity.  *)
Elected == \A b, c \in Bridges : On(b) /\ On(c) => root_bpdu[b].root <= c
EventuallyElected == <>[]Elected

(* The bridges stop changing their minds.                                  *)
Settled == UNCHANGED <<root_port, root_bpdu, status>>
EventuallySettled == <>[][Settled]_<<root_port, root_bpdu, status>>
=============================================================================
