----------------------------- MODULE TCPReceiver -----------------------------
(***************************************************************************)
(* 3700recv: the Receiver of 3700TCP/networks/launch_receiver.py.  One     *)
(* turn of Receiver.run reads one packet and handles it to the end.        *)
(*                                                                         *)
(* window_packets holds no packet twice and is kept sorted, so it is the   *)
(* set of the sequence numbers in it.                                      *)
(***************************************************************************)
EXTENDS TCPNetwork, FiniteSets

VARIABLES
    highest_acked,         \* number in the last response sent, or None
    highest_received_syn,  \* greatest number in the window when last it grew
    window_packets,        \* numbers of the packets kept
    printed                \* numbers of the chunks printed, in order

receiverVars == <<highest_acked, highest_received_syn, window_packets, printed>>

None == -1   \* Python's None, before any response

ReceiverInit == /\ highest_acked = None
                /\ highest_received_syn = None
                /\ window_packets = {}
                /\ printed = <<>>

(* The numbers of S, smallest first.                                       *)
Ascending(S) == CHOOSE s \in [1..Cardinality(S) -> S] :
                    \A i, j \in 1..Cardinality(S) : i < j => s[i] < s[j]

Wrap(n) == n % MAX_UNSIGNED_INT

(* Whether packet k can still be acked, acked being the last response and  *)
(* received the greatest number in the window.                             *)
Ackable(k, acked, received) ==
    \/ acked \in {None, 0}
    \/ /\ k # acked
       /\ \/ acked < k /\ k < received
          \/ k < Wrap(acked + WindowSize)

(* h is the last packet of the unbroken run that follows acked in win.     *)
EndsRun(h, acked, win) == /\ acked <= h
                          /\ \A k \in acked + 1 .. h : Wrap(k) \in win
                          /\ Wrap(h + 1) \notin win

-----------------------------------------------------------------------------

Greatest(S, k) == k \in S /\ \A j \in S : j <= k

(* A response: its number becomes highest_acked.                           *)
Respond(m) == highest_acked' = m.seq /\ SendBackward(m)

(* Mutated forms: the number of an error report is sent unchecked; or is   *)
(* always 0, the sender not looking at it anyway.                          *)
ErrorNumberUnchecked == highest_acked
ErrorNumberZero      == 0

ErrorNumber == IF highest_acked = None THEN 0 ELSE highest_acked

(* Mutated form: an error report does not count as a response.             *)
RejectMangledUncounted(m) ==
    /\ m = Mangled
    /\ SendBackward(ErrorAck(ErrorNumber))
    /\ UNCHANGED receiverVars

RejectMangled(m) ==
    /\ m = Mangled
    /\ Respond(ErrorAck(ErrorNumber))
    /\ UNCHANGED <<highest_received_syn, window_packets, printed>>

IgnoreKnown(m) ==
    /\ m # Mangled
    /\ m.seq \in window_packets
    /\ UNCHANGED <<receiverVars, r_to_s, damage>>

(* A packet the window does not hold yet always enters it ...              *)
Insert(m) == /\ m # Mangled
             /\ m.seq \notin window_packets
             /\ highest_received_syn' \in window_packets \cup {m.seq}
             /\ Greatest(window_packets \cup {m.seq}, highest_received_syn')

(* ... and stays there unanswered if it is out of the ackable range.       *)
KeepSilently(m) ==
    /\ Insert(m)
    /\ ~Ackable(m.seq, highest_acked, highest_received_syn')
    /\ window_packets' = window_packets \cup {m.seq}
    /\ UNCHANGED <<highest_acked, printed, r_to_s, damage>>

(* Before the first response the whole window is printed and the greatest  *)
(* number in it acked; nothing is filtered out.                            *)
AcceptFirst(m) ==
    /\ Insert(m)
    /\ highest_acked = None
    /\ printed' = printed \o Ascending(window_packets \cup {m.seq})
    /\ window_packets' = window_packets \cup {m.seq}
    /\ Respond(Ack(highest_received_syn'))

(* Mutated form: the greatest number in the window is acked.               *)
AcceptAcksGreatest(m) ==
    LET win == window_packets \cup {m.seq} IN
    /\ Insert(m)
    /\ highest_acked # None
    /\ Ackable(m.seq, highest_acked, highest_received_syn')
    /\ \E h \in highest_acked..N :
         /\ EndsRun(h, highest_acked, win)
         /\ printed' = printed \o [i \in 1..(h - highest_acked) |-> highest_acked + i]
    /\ window_packets' = win
    /\ Respond(Ack(highest_received_syn'))

(* Mutated form: the packet received is printed at once.                   *)
AcceptInArrivalOrder(m) ==
    /\ Insert(m)
    /\ highest_acked # None
    /\ Ackable(m.seq, highest_acked, highest_received_syn')
    /\ printed' = Append(printed, m.seq)
    /\ window_packets' = window_packets \cup {m.seq}
    /\ Respond(Ack(m.seq))

(* Later the run that follows the last ack is printed and acked.           *)
Accept(m) ==
    LET win == window_packets \cup {m.seq} IN
    /\ Insert(m)
    /\ highest_acked # None
    /\ Ackable(m.seq, highest_acked, highest_received_syn')
    /\ \E h \in highest_acked..N :
         /\ EndsRun(h, highest_acked, win)
         /\ printed' = printed \o [i \in 1..(h - highest_acked) |-> highest_acked + i]
         /\ window_packets' = {k \in win : Ackable(k, h, highest_received_syn')}
         /\ Respond(Ack(h))

HandlePacket(i) ==
    /\ s_to_r' = RemoveAt(s_to_r, i)
    /\ \/ RejectMangled(s_to_r[i])
       \/ IgnoreKnown(s_to_r[i])
       \/ KeepSilently(s_to_r[i])
       \/ AcceptFirst(s_to_r[i])
       \/ Accept(s_to_r[i])

ReceiverNext == \E i \in Arrivals(s_to_r, Forward) : HandlePacket(i)

=============================================================================
