--------------------------- MODULE MCSpanningTree ---------------------------
(* Small networks of bridges, in the way of 3700Bridge/configs.            *)
EXTENDS SpanningTree, TLC

(* Two bridges side by side between two LANs (intermediate-1.conf).        *)
Parallel == [b \in {1, 2} |-> <<"A", "B">>]

(* Two bridges side by side, one with two ports on one LAN (as 0129 in     *)
(* intermediate-3.conf), the other the only way to a third LAN.            *)
SameLan == 1 :> <<"A", "A", "B">> @@ 2 :> <<"A", "B", "C">>

(* A row of three bridges with the highest identity in the middle.         *)
Row == 1 :> <<"A">> @@ 3 :> <<"A", "B">> @@ 2 :> <<"B">>

(* A ring of three bridges and three LANs.                                 *)
Ring == 1 :> <<"A", "B">> @@ 2 :> <<"B", "C">> @@ 3 :> <<"C", "A">>
=============================================================================
