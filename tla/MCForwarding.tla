---------------------------- MODULE MCForwarding ----------------------------
(* Networks with hosts.                                                    *)
EXTENDS Forwarding, TLC

(* Two bridges in a row, a host on each LAN.                               *)
Line == 1 :> <<"A", "B">> @@ 2 :> <<"B", "C">>
Ends == "h" :> "A" @@ "k" :> "C"
OnEach == "h" :> "A" @@ "m" :> "B" @@ "k" :> "C"

(* Two bridges between the same two LANs, a host on each LAN.              *)
Parallel == [b \in {1, 2} |-> <<"A", "B">>]
Sides == "h" :> "A" @@ "k" :> "B"

(* Python's int() drops leading zeros, and the fraction of a float but not *)
(* that of a string.                                                       *)
PythonInt == Value("int", "3") :> "3" @@ Value("str", "03") :> "3"
          @@ Value("float", "3.7") :> "3" @@ Value("int", "7") :> "7"

(* Messages: one with the fields of a BPDU, its cost in a string and its   *)
(* port no whole number; one with these fields and another; one with none. *)
LikeBPDU == "root" :> Value("int", "7") @@ "cost" :> Value("str", "03")
         @@ "port" :> Value("float", "3.7") @@ "id" :> Value("str", "k")
NearlyBPDU == LikeBPDU @@ "data" :> Value("int", "7")
Plain == "data" :> Value("str", "k")
Contents == <<LikeBPDU, NearlyBPDU>>
PlainContents == <<Plain, Plain>>
ThreeContents == <<LikeBPDU, NearlyBPDU, Plain>>
=============================================================================
