----------------------------- MODULE TCPTransfer -----------------------------
(***************************************************************************)
(* A transfer of 3700TCP: the sender, the receiver and the network the     *)
(* emulator puts between them, as three concurrent processes.              *)
(***************************************************************************)
EXTENDS TCPSender, TCPReceiver

vars == <<networkVars, senderVars, receiverVars>>

Init == NetworkInit /\ SenderInit /\ ReceiverInit

SenderStep   == SenderNext /\ UNCHANGED receiverVars
ReceiverStep == ReceiverNext /\ UNCHANGED senderVars

(* With the sender gone and nothing left to read the receiver waits for    *)
(* ever, and only for this reason may nothing happen.                      *)
Idle == ~running /\ s_to_r = <<>> /\ UNCHANGED vars

Next == SenderStep \/ ReceiverStep \/ Idle

Spec == Init /\ [][Next]_vars

-----------------------------------------------------------------------------
(* Both processes loop for ever and serve whatever select reports; the     *)
(* emulator delivers what it has not dropped.  A packet sent again and     *)
(* again is not lost or mangled every time.                                *)

OldestArrives(k) == /\ ResendTimeout(k)
                    /\ s_to_r' = DropTail(Append(s_to_r, Data(k)))
                    /\ UNCHANGED receiverVars

Fairness ==
    /\ WF_vars(SendChunk /\ UNCHANGED receiverVars)
    /\ WF_vars(InputEnds /\ UNCHANGED receiverVars)
    /\ WF_vars(r_to_s # <<>> /\ HandleResponse(1) /\ UNCHANGED receiverVars)
    /\ WF_vars(s_to_r # <<>> /\ HandlePacket(1) /\ UNCHANGED senderVars)
    /\ \A k \in 1..N : SF_vars(OldestArrives(k))

FairSpec == Spec /\ Fairness

-----------------------------------------------------------------------------
(* Each variable holds values the code can give it; packets on the wires   *)
(* are ones the processes have sent.                                       *)
TypeOK ==
    /\ s_to_r \in Seq(DataPackets(N) \cup {Mangled})
    /\ r_to_s \in Seq(Responses(N) \cup {Mangled})
    /\ damage \in 0..MaxDamage
    /\ syn_number \in 1..N + 1
    /\ ack_number \in 1..N + 1
    /\ packets_in_flight \subseteq 1..N
    /\ sent_all_messages \in BOOLEAN
    /\ running \in BOOLEAN
    /\ highest_acked \in -1..N
    /\ highest_received_syn \in -1..N
    /\ window_packets \subseteq 1..N
    /\ printed \in Seq(1..N)

(* Whatever the network does, the receiver prints consecutive chunks, each *)
(* once, and the last one printed is the one it has acked.  Retransmission *)
(* and reordering reach it through _update_acked_packets, which relies on  *)
(* the window being sorted and on highest_acked having been set by the     *)
(* response to the packet printed before.                                  *)
Contiguous ==
    /\ highest_acked <= 0 => printed = <<>>
    /\ highest_acked > 0 => Len(printed) \in 1..highest_acked
    /\ \A i \in 1..Len(printed) : printed[i] = highest_acked - Len(printed) + i

(* A packet leaves the sender's window only when the receiver has acked it *)
(* or a later one: the resend of packet ack_number in run puts back what   *)
(* _packets_still_in_flight has just dropped.                              *)
NoPacketForgotten ==
    \A k \in 1..syn_number - 1 :
        k \notin packets_in_flight => k <= highest_acked

(* The sender never has more unacked packets than its window, although a   *)
(* resend puts a packet back without looking at the window.                *)
WindowRespected == Cardinality(packets_in_flight) <= WindowSize

(* When 3700send exits, the last chunk has been printed.                   *)
DoneMeansDelivered ==
    ~running /\ N > 0 => printed # <<>> /\ Last(printed) = N

(* What the receiver has acked never goes back, although every response,   *)
(* error reports included, assigns highest_acked; nor does the sender's    *)
(* view of it, although acks arrive late and out of order.                 *)
AcksNeverRetreat == [][/\ highest_acked' >= highest_acked
                       /\ ack_number' >= ack_number]_vars

(* The sender never runs ahead of the receiver by more than the window:    *)
(* what it sends is at most WindowSize beyond the last ack.                *)
SenderInReach == syn_number - 1 <= WindowSize + (IF highest_acked > 0 THEN highest_acked ELSE 0)

(* Whatever arrives, and although packets below the last ack are never     *)
(* removed, the receiver keeps so few packets beyond the one it waits for  *)
(* that the advertised window has room for that one.                       *)
RoomForNext ==
    Cardinality({k \in window_packets : k > highest_acked + 1}) < WindowSize

(* Why all this holds, step by step.  A packet on the way to the receiver  *)
(* has been sent, a response on the way back acks nothing beyond           *)
(* highest_acked, so the sender's ack_number stays at or behind it (but    *)
(* for its first value, 1, which acks nothing), and the sender's window is *)
(* made of packets at or after ack_number.                                 *)
WiresSound == /\ s_to_r \in Seq(DataPackets(syn_number - 1) \cup {Mangled})
              /\ r_to_s \in Seq(Responses(highest_acked) \cup {Mangled})

SenderSound == /\ packets_in_flight \subseteq ack_number .. syn_number - 1
               /\ ack_number <= syn_number
               /\ ack_number = 1 \/ ack_number <= highest_acked
               /\ sent_all_messages => syn_number = N + 1
               /\ ~running => sent_all_messages /\ packets_in_flight = {}

ReceiverSound == /\ window_packets \subseteq 1 .. syn_number - 1
                 /\ highest_acked <= syn_number - 1
                 /\ highest_acked = None => window_packets = {}

(* The inductive invariant: no step of any process breaks it.              *)
IInv == /\ TypeOK
        /\ WiresSound
        /\ SenderSound
        /\ ReceiverSound
        /\ Contiguous
        /\ NoPacketForgotten
        /\ WindowRespected

(* 3700TCP/run prints "Success!  Data was transmitted correctly." only if  *)
(* the receiver printed all of the sender's data.                          *)
TransmittedCorrectly == ~running => printed = [i \in 1..N |-> i]

(* The advertised window protects the receiver from overloading: it never  *)
(* keeps more packets than that.                                           *)
ReceiverWindowBounded == Cardinality(window_packets) <= WindowSize

(* 3700send exits.                                                         *)
SenderExits == <>~running

Reliable == INSTANCE ReliableTransfer
              WITH Starts <- 1..N \cap {1}, output <- printed, finished <- ~running
FromSome == INSTANCE ReliableTransfer
              WITH Starts <- 1..N, output <- printed, finished <- ~running

(* Where no packet to the receiver is lost or overtaken, the transfer is a *)
(* faithful copy.                                                          *)
FaithfulCopy == Reliable!Spec

(* On any network it is at least the copy of a tail of the input.          *)
TailCopy == FromSome!Spec

=============================================================================
