----------------------------- MODULE Aggregation -----------------------------
(***************************************************************************)
(* The aggregation of 3700Router's forwarding table for a dump: entries of *)
(* one neighbor with the same attributes and adjacent networks become one. *)
(***************************************************************************)
EXTENDS Routes, FiniteSets

(* Mutated form: without the one bit more, adjacent networks do not match. *)
MatchesItself(reference, x) ==
    LET shift == Power[prefix_shift_amount(reference)]
    IN  /\ reference = [x EXCEPT !.network = reference.network]
        /\ reference.network \div shift = x.network \div shift

(* _find_matching_messages, for one of the options.                        *)
Matches(reference, x) ==
    LET shift == Power[prefix_shift_amount(reference) + 1]
    IN  /\ reference = [x EXCEPT !.network = reference.network]
        /\ reference.network \div shift = x.network \div shift

(* Mutated form: the mask gets shorter by a bit for each of the networks.  *)
CombinedByCount(m, matches) ==
    LET networks == {m.network} \cup {x.network : x \in matches}
    IN  [m EXCEPT !.network = CHOOSE w \in networks : \A x \in networks : w <= x,
                  !.length = IF @ < Cardinality(matches) + 1 THEN 0
                             ELSE @ - (Cardinality(matches) + 1)]

(* _calculate_aggregation: the mask of /0 cannot get shorter.              *)
Combined(m, matches) ==
    LET networks == {m.network} \cup {x.network : x \in matches}
    IN  [m EXCEPT !.network = CHOOSE w \in networks : \A x \in networks : w <= x,
                  !.length = IF @ = 0 THEN 0 ELSE @ - 1]

(* The elements of a sequence that are in T, in their order.               *)
Among(s, T) == FoldLeft(LAMBDA r, x : IF x \in T THEN Append(r, x) ELSE r, <<>>, s)

(* One round of the loop of _aggregate_msg_group; last_edited is <<>> for  *)
(* None.                                                                   *)
AggregateStep(s) ==
    LET first == Head(s.list)
        rest == Tail(s.list)
        combinations == {x \in ToSet(rest) : Matches(first, x)}
        others == Among(rest, ToSet(rest) \ combinations)
        combined == Combined(first, combinations)
    IN  IF s.last_edited = <<first>> THEN s
        ELSE IF combinations # {}
        THEN [list |-> Append(others, combined), last_edited |-> <<combined>>]
        ELSE [list |-> Append(others, first),
              last_edited |-> IF s.last_edited = <<>> THEN <<first>>
                                                      ELSE s.last_edited]

(* Each combination shortens the list, and between two of them the loop    *)
(* goes round it once at most.                                             *)
AggregateGroup(group) ==
    LET rounds == (Len(group) + 1) * (Len(group) + 1)
    IN  FoldLeft(LAMBDA s, i : AggregateStep(s),
                 [list |-> group, last_edited |-> <<>>],
                 [i \in 1..rounds |-> i]).list

Group(table, n) ==
    LET entries == Among(table, {e \in ToSet(table) : e.from = n})
    IN  [i \in DOMAIN entries |-> entries[i].msg]

(* The neighbors, each where the table first names it.                     *)
Senders(table) ==
    FoldLeft(LAMBDA ns, e : IF Contains(ns, e.from) THEN ns ELSE Append(ns, e.from),
             <<>>, table)

(* _aggregate_forwarding_table.                                            *)
StoredAll(table, msgs, n) == FoldLeft(LAMBDA t, m : Stored(t, m, n), table, msgs)
Aggregated(table) ==
    FoldLeft(LAMBDA t, n : StoredAll(t, AggregateGroup(Group(table, n)), n),
             <<>>, Senders(table))

-----------------------------------------------------------------------------
(* The addresses for which a table has a route by n with the attributes    *)
(* of m.                                                                   *)
SameAttributes(m, x) == m = [x EXCEPT !.network = m.network, !.length = m.length]
Covered(table, n, m) ==
    {a \in Address : \E e \in ToSet(table) :
        e.from = n /\ SameAttributes(m, e.msg) /\ matched_subnet(a, e.msg)}

(* An aggregation says of every address what the table says.               *)
SameCoverage(table, aggregated) ==
    \A e \in ToSet(table) \cup ToSet(aggregated) :
        Covered(table, e.from, e.msg) = Covered(aggregated, e.from, e.msg)

(* The two halves of a network.                                            *)
Halves(m, x) ==
    LET size == Power[prefix_shift_amount(m)]
    IN  /\ x.length = m.length /\ SameAttributes(m, x)
        /\ m.network % (2 * size) = 0 /\ x.network = m.network + size

(* No two entries of a neighbor in an aggregation can be made one.         *)
Coalesced(aggregated) ==
    \A d, e \in ToSet(aggregated) : d.from = e.from => ~Halves(d.msg, e.msg)
=============================================================================
