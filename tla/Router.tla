------------------------------- MODULE Router -------------------------------
(***************************************************************************)
(* 3700Router and its neighbors: customers, peers and providers that       *)
(* announce and withdraw networks, send data and ask for dumps.            *)
(*                                                                         *)
(* Each neighbor has a socket of its own, so what one neighbor sends is    *)
(* handled in order and what two neighbors send in any order.  The groups  *)
(* in which Router.run reads packets make no difference: a handler looks   *)
(* at its own packet and at the tables only.                               *)
(***************************************************************************)
EXTENDS Aggregation, FiniteSetsExt, Functions

CONSTANTS
    Neighbors,      \* the addresses of the neighbors
    Relation,       \* Relation[n]: CUSTOMER, PEER or PROVIDER
    Announcements,  \* Announcements[n]: the updates neighbor n may send
    Repeats,        \* a network may be announced again before its withdrawal
    Endpoints,      \* the addresses data is sent to
    Asks,           \* the neighbors that ask for dumps
    ASN,            \* the number of the router's autonomous system
    MaxInFlight     \* bound: packets sent and not handled

CUSTOMER == "cust"
PEER == "peer"
PROVIDER == "prov"

ASSUME NeighborAssumption ==
    /\ Neighbors \subseteq Nat
    /\ Relation \in [Neighbors -> {CUSTOMER, PEER, PROVIDER}]
ASSUME AnnouncementAssumption ==
    /\ DOMAIN Announcements = Neighbors
    /\ \A n \in Neighbors : \A m \in Announcements[n] : m \in UpdateMsg
ASSUME RouterAssumption == /\ Repeats \in BOOLEAN
                           /\ Endpoints \subseteq Address
                           /\ Asks \subseteq Neighbors
                           /\ ASN \in Nat
                           /\ MaxInFlight \in Nat \ {0}

UPDATE == "update"
WITHDRAW == "withdraw"
DATA == "data"
DUMP == "dump"
TABLE == "table"
ROUTELESS == "no route"

VARIABLES
    forwarding_table,   \* entries [msg, from]
    revoked_addresses,  \* revoked_addresses[n]: prefixes n has ever withdrawn
    inbox,              \* inbox[n]: packets [type, body] of n, not handled
    nets,               \* nets[n]: what n has announced and not withdrawn
    told,               \* told[n]: the prefixes of which the router has sent n
                        \* updates and no withdrawal since
    sent                \* the packets sent, if the last step is the router's

vars == <<forwarding_table, revoked_addresses, inbox, nets, told, sent>>

Init ==
    /\ forwarding_table = <<>>
    /\ revoked_addresses = [n \in Neighbors |-> {}]
    /\ inbox = [n \in Neighbors |-> <<>>]
    /\ nets = [n \in Neighbors |-> {}]
    /\ told = [n \in Neighbors |-> {}]
    /\ sent = {}

-----------------------------------------------------------------------------
InFlight == FoldFunction(LAMBDA box, k : Len(box) + k, 0, inbox)

Post(n, type, body) ==
    /\ InFlight < MaxInFlight
    /\ inbox' = [inbox EXCEPT ![n] = Append(@, [type |-> type, body |-> body])]
    /\ sent' = {}
    /\ UNCHANGED <<forwarding_table, revoked_addresses, told>>

(* A neighbor knows one announcement of a network, the last.               *)
Announce(n, m) ==
    LET known == {x \in nets[n] : Prefix(x) = Prefix(m)}
    IN  /\ Repeats \/ known = {}
        /\ nets' = [nets EXCEPT ![n] = (@ \ known) \cup {m}]
        /\ Post(n, UPDATE, m)

Withdraw(n, prefixes) ==
    /\ prefixes # {}
    /\ nets' = [nets EXCEPT ![n] = {x \in @ : Prefix(x) \notin prefixes}]
    /\ Post(n, WITHDRAW, prefixes)

SendData(n, a) == Post(n, DATA, a) /\ UNCHANGED nets
SendDump(n) == n \in Asks /\ Post(n, DUMP, {}) /\ UNCHANGED nets

-----------------------------------------------------------------------------
Takes(n, type) ==
    /\ inbox[n] # <<>>
    /\ Head(inbox[n]).type = type
    /\ inbox' = [inbox EXCEPT ![n] = Tail(@)]
    /\ UNCHANGED nets

Packet(k, type, body) == [to |-> k, type |-> type, body |-> body]

(* Mutated forms: everybody is informed; customers only are.               *)
InformedAll(n) == Neighbors \ {n}
InformedCustomers(n) == {k \in Neighbors \ {n} : Relation[k] = CUSTOMER}

(* _inform_neighbors: what a peer or a provider announces or withdraws is  *)
(* for customers only.                                                     *)
Informed(n) ==
    {k \in Neighbors \ {n} : Relation[n] = CUSTOMER \/ Relation[k] = CUSTOMER}

HandleUpdate(n) ==
    LET m == Head(inbox[n]).body
        ping == [network |-> m.network, length |-> m.length,
                 ASPath |-> <<ASN>> \o m.ASPath]
    IN  /\ Takes(n, UPDATE)
        /\ forwarding_table' = Stored(forwarding_table, m, n)
        /\ sent' = {Packet(k, UPDATE, ping) : k \in Informed(n)}
        /\ told' = [k \in Neighbors |->
              IF k \in Informed(n) THEN told[k] \cup {Prefix(m)} ELSE told[k]]
        /\ UNCHANGED revoked_addresses

HandleWithdraw(n) ==
    LET withdrawals == Head(inbox[n]).body
    IN  /\ Takes(n, WITHDRAW)
        /\ revoked_addresses' = [revoked_addresses EXCEPT ![n] = @ \cup withdrawals]
        /\ forwarding_table' =
              FoldSet(LAMBDA p, t : Withdrawn(t, n, p), forwarding_table, withdrawals)
        /\ sent' = {Packet(k, WITHDRAW, withdrawals) : k \in Informed(n)}
        /\ told' = [k \in Neighbors |->
              IF k \in Informed(n) THEN told[k] \ withdrawals ELSE told[k]]

(* Mutated form: source and destination both have to be customers.         *)
AnswerBoth(n, a) ==
    LET best == BestRoute(forwarding_table, a)
        next == best[1].from
    IN  IF best = <<>> THEN {}
        ELSE IF Relation[n] = CUSTOMER /\ Relation[next] = CUSTOMER
        THEN {Packet(next, DATA, a)}
        ELSE {Packet(n, ROUTELESS, a)}

(* DataPacketHandler: what the router sends for data to address a by n.    *)
Answer(n, a) ==
    LET best == BestRoute(forwarding_table, a)
        next == best[1].from
    IN  IF best = <<>> THEN {}
        ELSE IF Relation[n] = CUSTOMER \/ Relation[next] = CUSTOMER
        THEN {Packet(next, DATA, a)}
        ELSE {Packet(n, ROUTELESS, a)}

HandleData(n) ==
    /\ Takes(n, DATA)
    /\ sent' = Answer(n, Head(inbox[n]).body)
    /\ UNCHANGED <<forwarding_table, revoked_addresses, told>>

HandleDump(n) ==
    /\ Takes(n, DUMP)
    /\ sent' = {Packet(n, TABLE, Aggregated(forwarding_table))}
    /\ UNCHANGED <<forwarding_table, revoked_addresses, told>>

Next == \E n \in Neighbors :
    \/ \E m \in Announcements[n] : Announce(n, m)
    \/ \E prefixes \in SUBSET {Prefix(m) : m \in nets[n]} : Withdraw(n, prefixes)
    \/ \E a \in Endpoints : SendData(n, a)
    \/ SendDump(n)
    \/ HandleUpdate(n)
    \/ HandleWithdraw(n)
    \/ HandleData(n)
    \/ HandleDump(n)

Spec == Init /\ [][Next]_vars
-----------------------------------------------------------------------------
(* The types of the variables; no message is twice in the table.           *)
PrefixSet == [network : Address, length : 0..Width]
RouterTypeOK ==
    /\ forwarding_table \in Seq([msg : UpdateMsg, from : Neighbors])
    /\ \A i, j \in DOMAIN forwarding_table :
          forwarding_table[i].msg = forwarding_table[j].msg => i = j
    /\ DOMAIN inbox = Neighbors
    /\ \A n \in Neighbors :
          /\ revoked_addresses[n] \subseteq PrefixSet
          /\ told[n] \subseteq PrefixSet
          /\ nets[n] \subseteq Announcements[n]
          /\ \A i \in DOMAIN inbox[n] :
                inbox[n][i].type \in {UPDATE, WITHDRAW, DATA, DUMP}
    /\ \A packet \in sent : packet.to \in Neighbors

(* A neighbor with nothing on its way has the entries it has announced,    *)
(* with the attributes of its last announcement, and no others.            *)
TableIsCurrent ==
    \A n \in Neighbors :
        (\A i \in DOMAIN inbox[n] : inbox[n][i].type \notin {UPDATE, WITHDRAW})
            => {e.msg : e \in {x \in ToSet(forwarding_table) : x.from = n}} = nets[n]

(* Data goes to a neighbor only if that neighbor has announced a network   *)
(* for it, unless a withdrawal is on its way ("received message destined   *)
(* for a different network").                                              *)
Announced(n, a) ==
    \/ \E m \in nets[n] : matched_subnet(a, m)
    \/ \E i \in DOMAIN inbox[n] :
          /\ inbox[n][i].type = WITHDRAW
          /\ \E p \in inbox[n][i].body : matched_subnet(a, p)
NoMisdelivery ==
    \A packet \in sent : packet.type = DATA => Announced(packet.to, packet.body)

(* The route taken for an address is a best one by the first four rules of *)
(* the comments, in whatever order the updates came, and among the best    *)
(* that of the lowest neighbor, if they have one origin.  The order of the *)
(* origins, which is not the one the comments give, decides no more.       *)
Rules(e) == SubSeq(Rank(e), 1, 4)
BestRouteTaken ==
    \A a \in Address :
        LET routes == Candidates(forwarding_table, a)
            best   == BestRoute(forwarding_table, a)
            ties   == {x \in routes : Rules(x) = Rules(best[1])}
        IN  routes # {} =>
                /\ best # <<>>
                /\ best[1] \in routes
                /\ \A x \in routes : ~Before(Rules(x), Rules(best[1]))
                /\ (\A x \in ties : x.msg.origin = best[1].msg.origin)
                      => \A x \in ties : best[1].from <= x.from

(* With origins that differ, the comments have the last word too.          *)
BestRouteOfAll ==
    \A a \in Address :
        Candidates(forwarding_table, a) # {} =>
            /\ BestRoute(forwarding_table, a) # <<>>
            /\ IsBest(BestRoute(forwarding_table, a)[1], forwarding_table, a)

(* A neighbor is told of a network only while the router has a route to it *)
(* from a customer, or the neighbor is one.                                *)
Exportable(e, n) ==
    /\ e.from # n
    /\ CUSTOMER \in {Relation[e.from], Relation[n]}
ToldIsRouted ==
    \A n \in Neighbors : \A p \in told[n] :
        \E e \in ToSet(forwarding_table) : Prefix(e.msg) = p /\ Exportable(e, n)

(* And it is told of every such route, unless somebody else has withdrawn  *)
(* that network at some time: a withdrawal is passed on although there is  *)
(* another route left.                                                     *)
RoutedIsTold ==
    \A e \in ToSet(forwarding_table) : \A n \in Neighbors :
        Exportable(e, n) =>
            \/ Prefix(e.msg) \in told[n]
            \/ \E k \in Neighbors \ {e.from} : Prefix(e.msg) \in revoked_addresses[k]

(* What becomes of data for a network its sender has been told of.  Routes *)
(* are exported by who announced them, data is forwarded by who has the    *)
(* best one, so the sender may be told of one route (an open one) while a  *)
(* hidden one is taken: its own, or one by a peer or a provider for those. *)
(* The data is never dropped without a word; it goes to another neighbor   *)
(* if an open route beats all hidden ones, and only if no hidden one beats *)
(* all open ones.                                                          *)
Beats(x, y) == Before(Rules(x), Rules(y))
PassedOn(n, a) == \A packet \in Answer(n, a) : packet.type = DATA /\ packet.to # n
ToldRoutesWork ==
    \A n \in Neighbors : \A p \in told[n] : \A a \in Address :
        LET routes == Candidates(forwarding_table, a)
            open   == {e \in routes : Exportable(e, n)}
            hidden == routes \ open
        IN  matched_subnet(a, p) =>
              /\ Answer(n, a) # {}
              /\ (\E x \in open : \A y \in hidden : Beats(x, y)) => PassedOn(n, a)
              /\ (\E y \in hidden : \A x \in open : Beats(y, x)) => ~PassedOn(n, a)

(* That data for a network its sender has been told of is always passed    *)
(* on, if the sender has no route for it itself.                           *)
ToldIsPassedOn ==
    \A n \in Neighbors : \A p \in told[n] : \A a \in Address :
        matched_subnet(a, p) /\ (\A e \in Candidates(forwarding_table, a) : e.from # n)
            => PassedOn(n, a)

(* A dump says of every address what the table says, if no neighbor has    *)
(* announced a network along with its halves; and it is as short as        *)
(* aggregation can make it.                                                *)
DumpIsExact == SameCoverage(forwarding_table, Aggregated(forwarding_table))
DumpIsCoalesced == Coalesced(Aggregated(forwarding_table))

(* Data is dropped without a word only when nobody can deliver it: no      *)
(* neighbor has announced a network for it, unless its update is on its    *)
(* way.  Withdrawals of others and repeated updates lose no such route.    *)
Pending(n, m) == \E i \in DOMAIN inbox[n] : inbox[n][i] = [type |-> UPDATE, body |-> m]
DropsOnlyUnrouted ==
    [][\A n \in Neighbors : HandleData(n) /\ sent' = {} =>
          \A k \in Neighbors : \A m \in nets[k] :
              matched_subnet(Head(inbox[n]).body, m) => Pending(k, m)]_vars

(* Data that cannot be delivered is answered with an error message.        *)
UndeliverableAnswered == [][\A n \in Neighbors : HandleData(n) => sent' # {}]_vars
=============================================================================
