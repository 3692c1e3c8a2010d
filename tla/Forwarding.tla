----------------------------- MODULE Forwarding -----------------------------
(***************************************************************************)
(* The data frames of 3700Bridge on top of its spanning tree: hosts send,  *)
(* bridges learn where hosts are, forward, broadcast and refuse.           *)
(*                                                                         *)
(* A frame is known by its number; its message is read into an object and  *)
(* written anew by each bridge that forwards it (Serialization).           *)
(*                                                                         *)
(* The sockets hold BPDUs and frames in queues of their own, so a frame    *)
(* may overtake a BPDU.  The entries of the forwarding table for bridges   *)
(* are left out: no frame is sent to one.                                  *)
(***************************************************************************)
EXTENDS SpanningTree, Serialization

CONSTANTS
    Hosts,       \* the end hosts
    HomeOf,      \* HomeOf[h] is the LAN on which the simulator puts host h
    MayMove,     \* the hosts that move to another LAN some time
    HostsWait,   \* the first frame is sent only when the bridges are started
                 \* and each LAN has one designated port
    MaxFrames,   \* bound: frames sent in a run
    ContentOf    \* ContentOf[n]: the message of frame n, a JSON object

ASSUME HostAssumption == /\ HomeOf \in [Hosts -> Lans]
                         /\ MayMove \subseteq Hosts
                         /\ HostsWait \in BOOLEAN
                         /\ MaxFrames \in Nat
                         /\ DOMAIN ContentOf = 1..MaxFrames
                         /\ \A n \in 1..MaxFrames :
                               ContentOf[n] \in [DOMAIN ContentOf[n] -> JSON]

VARIABLES
    at,         \* at[h]: the LAN host h is on
    table,      \* table[b][h]: the port of b behind which h is, or None
    frames,     \* frames[b][p]: frames on their way to the socket of p
    sent,       \* frames sent so far
    delivered   \* delivered[n]: how often frame n was put on the LAN of its
                \* host; bound: 2 stands for more than once

data == <<at, table, frames, sent, delivered>>

(* A frame carries a message of the names its host gave it.                *)
IsFrame(f) == /\ f.src \in Hosts /\ f.dst \in Hosts
              /\ f.n \in 1..MaxFrames
              /\ f.message \in [DOMAIN ContentOf[f.n] -> JSON]

Unknown == [h \in Hosts |-> None]

ForwardingInit ==
    /\ Init
    /\ at = HomeOf
    /\ table = [b \in Bridges |-> Unknown]
    /\ frames = [b \in Bridges |-> [p \in Ports(b) |-> <<>>]]
    /\ sent = 0
    /\ delivered = [n \in 1..MaxFrames |-> 0]

(* Bridge b reads frame f and sends it on the ports in out; the LANs pass  *)
(* it to the ports on them, but not to the one it came from.               *)
Pass(box, b, out, f) ==
    frames' = [c \in Bridges |-> [q \in Ports(c) |->
        LET from == {p \in out : LanOf[b][p] = LanOf[c][q] /\ <<b, p>> # <<c, q>>}
            copy == [f EXCEPT !.message = Serialize(Deserialize(@))]
        IN  IF On(c) THEN box[c][q] \o [i \in 1..Cardinality(from) |-> copy]
                     ELSE box[c][q]]]

AllOn == \A b \in Bridges : On(b)

HostSends(h, g) ==
    /\ h # g
    /\ sent < MaxFrames
    /\ HostsWait => AllOn /\ OneDesignated
    /\ sent' = sent + 1
    /\ LET f == [src |-> h, dst |-> g, n |-> sent', message |-> ContentOf[sent']]
       IN  /\ frames' = [c \in Bridges |-> [q \in Ports(c) |->
                IF On(c) /\ LanOf[c][q] = at[h] THEN Append(frames[c][q], f)
                                                ELSE frames[c][q]]]
           /\ delivered' = [delivered EXCEPT
                ![sent'] = IF at[g] = at[h] THEN 1 ELSE 0]
    /\ UNCHANGED <<at, table, vars>>

Move(h) ==
    /\ h \in MayMove
    /\ at[h] = HomeOf[h]
    /\ \E l \in Lans \ {at[h]} : at' = [at EXCEPT ![h] = l]
    /\ UNCHANGED <<table, frames, sent, delivered, vars>>

-----------------------------------------------------------------------------
(* Mutated forms: the table keeps the next port for the port; the           *)
(* destination is learnt for the source.                                   *)
LearntNextPort(b, p, f) == [table[b] EXCEPT ![f.src] = p + 1]
LearntDestination(b, p, f) == [table[b] EXCEPT ![f.dst] = p]

(* ForwardingRequest.handle.                                               *)
Learnt(b, p, f) ==
    [table[b] EXCEPT ![f.src] = IF @ = None THEN p ELSE @]

(* Mutated form: frames on the root port are refused.                      *)
RefusedOnRootPort(b, p) == status[b][p] = DISABLED

Refused(b, p) == status[b][p] = DISABLED /\ p # root_port[b]

Twice(k) == IF k < 2 THEN k ELSE 2

(* Mutated forms: a frame for a host on the LAN it came from is sent back   *)
(* there; a broadcast goes to the port it came from too.                   *)
OutSentBack(b, p, f) ==
    LET known == Learnt(b, p, f)[f.dst]
    IN  IF Refused(b, p) THEN {}
        ELSE IF known = None THEN {q \in Ports(b) \ {p} : Active(b, q)}
        ELSE {known}
OutEverywhere(b, p, f) ==
    LET known == Learnt(b, p, f)[f.dst]
    IN  IF Refused(b, p) THEN {}
        ELSE IF known = None THEN {q \in Ports(b) : Active(b, q)}
        ELSE {known} \ {p}

(* The ports on which a frame that came in on p is sent.                   *)
Out(b, p, f) ==
    LET known == Learnt(b, p, f)[f.dst]
    IN  IF Refused(b, p) THEN {}
        ELSE IF known = None THEN {q \in Ports(b) \ {p} : Active(b, q)}
        ELSE {known} \ {p}

HandleFrame(b, p) ==
    /\ On(b)
    /\ frames[b][p] # <<>>
    /\ LET f == Head(frames[b][p])
           out == Out(b, p, f)
       IN  /\ table' = [table EXCEPT ![b] = Learnt(b, p, f)]
           /\ Pass([frames EXCEPT ![b][p] = Tail(@)], b, out, f)
           /\ delivered' = [delivered EXCEPT ![f.n] =
                 Twice(@ + Cardinality({q \in out : LanOf[b][q] = at[f.dst]}))]
    /\ UNCHANGED <<at, sent, vars>>

(* A status change in a turn starts the table anew.                        *)
TurnAndForget(b, read) ==
    /\ Turn(b, read)
    /\ table' = IF status'[b] = status[b] THEN table
                                          ELSE [table EXCEPT ![b] = Unknown]
    /\ UNCHANGED <<at, frames, sent, delivered>>

StopBridge(b) ==
    /\ Stop(b)
    /\ frames' = [frames EXCEPT ![b] = [p \in Ports(b) |-> <<>>]]
    /\ UNCHANGED <<at, table, sent, delivered>>

StartBridge(b) == Start(b) /\ UNCHANGED data

ForwardingNext ==
    \/ \E h, g \in Hosts : HostSends(h, g)
    \/ \E h \in Hosts : Move(h)
    \/ \E b \in Bridges :
          \/ StartBridge(b)
          \/ StopBridge(b)
          \/ \E p \in Ports(b) : HandleFrame(b, p)
          \/ \E read \in SUBSET Ports(b) : TurnAndForget(b, read)

allVars == <<vars, data>>

ForwardingFairness ==
    /\ \A h, g \in Hosts : WF_allVars(HostSends(h, g))
    /\ \A b \in Bridges :
          /\ WF_allVars(StartBridge(b))
          /\ \A p \in Ports(b) :
                /\ WF_allVars(HandleFrame(b, p))
                /\ WF_allVars(\E read \in SUBSET Ports(b) :
                                 p \in read /\ TurnAndForget(b, read))
          /\ WF_allVars(Repeat(b) /\ TurnAndForget(b, {}))

ForwardingSpec == ForwardingInit /\ [][ForwardingNext]_allVars /\ ForwardingFairness
-----------------------------------------------------------------------------
(* The types of the variables.                                             *)
ForwardingTypeOK ==
    /\ at \in [Hosts -> Lans]
    /\ sent \in 0..MaxFrames
    /\ delivered \in [1..MaxFrames -> Nat]
    /\ \A b \in Bridges :
          /\ table[b] \in [Hosts -> Ports(b) \cup {None}]
          /\ DOMAIN frames[b] = Ports(b)
          /\ \A p \in Ports(b) : \A i \in DOMAIN frames[b][p] : IsFrame(frames[b][p][i])

(* Between LANs without a circle no frame is put twice on the LAN of its   *)
(* host, whatever the bridges believe of the root and have learnt so far   *)
(* (until a host moves: a frame may follow it).                            *)
AtMostOnce == at = HomeOf => \A n \in 1..MaxFrames : delivered[n] <= 1

(* A forwarding table is right: a host is behind the port it is filed      *)
(* under, that is, on a LAN that port leads to by way of other bridges; a  *)
(* host that has moved is there or where it was before, and no frame that  *)
(* overtakes another makes a bridge file it anywhere else.                 *)
LeadsTo(b, p, l) ==
    \A S \in SUBSET Lans :
        /\ LanOf[b][p] \in S
        /\ \A c \in Bridges \ {b} : \A q, r \in Ports(c) :
              LanOf[c][q] \in S => LanOf[c][r] \in S
        => l \in S
TableIsRight ==
    \A b \in Bridges : \A h \in Hosts :
        table[b][h] # None => \E l \in {HomeOf[h], at[h]} : LeadsTo(b, table[b][h], l)

(* Every bridge reads in a frame what its host has sent: to read a message *)
(* and to write it again, at any number of bridges, changes neither its    *)
(* class nor a value, even when a message of a host looks like a BPDU.     *)
ContentKept ==
    \A b \in Bridges : \A p \in Ports(b) : \A i \in DOMAIN frames[b][p] :
        LET f == frames[b][p][i]
        IN  Deserialize(f.message) = Deserialize(ContentOf[f.n])

(* A data frame carries what its host has sent (test_packet.py:55,71).     *)
ContentUntouched ==
    \A b \in Bridges : \A p \in Ports(b) : \A i \in DOMAIN frames[b][p] :
        frames[b][p][i].message = ContentOf[frames[b][p][i].n]

(* A frame sent when all bridges are up gets to the LAN of its host, if no *)
(* bridge stops and no host moves meanwhile.                               *)
EveryFrameArrives ==
    \A n \in 1..MaxFrames :
        (AllOn /\ sent = n - 1) ~> (delivered[n] > 0 \/ ~AllOn \/ at # HomeOf)

(* Frames do not circle for ever.                                          *)
NoFrames == \A b \in Bridges : \A p \in Ports(b) : frames[b][p] = <<>>
FramesDieOut == <>[]NoFrames

(* A host that has moved is found again when a bridge gets a frame of it   *)
(* on a port it does not refuse.                                           *)
FoundByItsFrames ==
    \A b \in Bridges : \A p \in Ports(b) :
        HandleFrame(b, p) /\ ~Refused(b, p)
            => table'[b][Head(frames[b][p]).src] = p
MovedHostIsFound == [][FoundByItsFrames]_allVars
=============================================================================
