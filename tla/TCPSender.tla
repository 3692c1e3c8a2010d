------------------------------ MODULE TCPSender ------------------------------
(***************************************************************************)
(* 3700send: the Sender of 3700TCP/networks/launch_sender.py.              *)
(*                                                                         *)
(* One turn of Sender.run reads at most one response, then at most one     *)
(* chunk, then resends what timed out.  The three parts touch the network  *)
(* only through its two wires, and the window test made before the first   *)
(* still holds after it (a response never adds to the packets in flight),  *)
(* so each part is an action of its own.                                   *)
(***************************************************************************)
EXTENDS TCPNetwork, FiniteSets

VARIABLES
    syn_number,         \* number of the next new packet
    ack_number,         \* number of the last packet known to be acked
    packets_in_flight,  \* numbers of the packets sent and not yet acked
    sent_all_messages,  \* the input has ended
    running             \* run has not returned

senderVars == <<syn_number, ack_number, packets_in_flight, sent_all_messages, running>>

DEFAULT_SYN_STARTING_NUMBER == 1

SenderInit == /\ syn_number = DEFAULT_SYN_STARTING_NUMBER
              /\ ack_number = DEFAULT_SYN_STARTING_NUMBER
              /\ packets_in_flight = {}
              /\ sent_all_messages = FALSE
              /\ running = TRUE

(* Whether packet k can still be acked when ack is the last one that was.  *)
StillAckable(k, ack) ==
    /\ k # ack
    /\ ~(ack > syn_number /\ syn_number < k /\ k < ack)
    /\ ~(ack < syn_number /\ (k < ack \/ k > syn_number))

StillInFlight(ack) ==
    IF ack = syn_number THEN {} ELSE {k \in packets_in_flight : StillAckable(k, ack)}

-----------------------------------------------------------------------------

(* Mutated form: reads on with a full window.                              *)
InputSelectedWhenFull == /\ running
                         /\ Cardinality(packets_in_flight) <= WindowSize
                         /\ ~sent_all_messages

(* The input is watched only while the window has room.                    *)
InputSelected == /\ running
                 /\ Cardinality(packets_in_flight) < WindowSize
                 /\ ~sent_all_messages

SendChunk ==
    /\ InputSelected
    /\ syn_number <= N
    /\ SendForward(Data(syn_number))
    /\ packets_in_flight' = packets_in_flight \cup {syn_number}
    /\ syn_number' = syn_number + 1
    /\ UNCHANGED <<ack_number, sent_all_messages, running, r_to_s>>

(* Mutated form: returns without waiting for the packets in flight.        *)
InputEndsAndStops ==
    /\ InputSelected
    /\ syn_number > N
    /\ sent_all_messages' = TRUE
    /\ running' = FALSE
    /\ UNCHANGED <<syn_number, ack_number, packets_in_flight, networkVars>>

InputEnds ==
    /\ InputSelected
    /\ syn_number > N
    /\ sent_all_messages' = TRUE
    /\ running' = (packets_in_flight # {})
    /\ UNCHANGED <<syn_number, ack_number, packets_in_flight, networkVars>>

(* A response acks the packet it names.  One that is damaged, reports an   *)
(* error, or names no packet in flight asks for packet ack_number again,   *)
(* if that one is in flight.                                               *)
Matches(m)   == m.kind # "mangled" /\ m.seq \in packets_in_flight
AcksPacket(m) == Matches(m) /\ m.kind # "error"
NewAck(m)    == IF AcksPacket(m) /\ StillAckable(m.seq, ack_number) THEN m.seq ELSE ack_number

(* Mutated form: only an error report has the packet sent again.           *)
ResentOnError(m) == IF m.kind = "error" THEN packets_in_flight \cap {ack_number} ELSE {}

Resent(m)    == IF AcksPacket(m) THEN {} ELSE packets_in_flight \cap {ack_number}

HandleResponse(i) ==
    LET m == r_to_s[i] IN
    /\ running
    /\ ack_number' = NewAck(m)
    /\ packets_in_flight' = StillInFlight(NewAck(m)) \cup Resent(m)
    /\ running' = ~(sent_all_messages /\ packets_in_flight' = {})
    /\ r_to_s' = RemoveAt(r_to_s, i)
    /\ IF Resent(m) = {}
         THEN UNCHANGED <<s_to_r, damage>>
         ELSE SendForward(Data(ack_number))
    /\ UNCHANGED <<syn_number, sent_all_messages>>

(* Mutated form: only packet ack_number times out.                         *)
TimedOutLastAcked(k) == /\ running
                        /\ k \in packets_in_flight
                        /\ k = ack_number
                        /\ SlowTimeout => (s_to_r = <<>> /\ r_to_s = <<>>)

(* Two seconds after it was last sent, a packet is sent again.             *)
TimedOut(k) == /\ running
               /\ k \in packets_in_flight
               /\ SlowTimeout => (s_to_r = <<>> /\ r_to_s = <<>>)

ResendTimeout(k) ==
    /\ TimedOut(k)
    /\ SendForward(Data(k))
    /\ UNCHANGED <<senderVars, r_to_s>>

SenderNext == \/ SendChunk
              \/ InputEnds
              \/ \E i \in Arrivals(r_to_s, Backward) : HandleResponse(i)
              \/ \E k \in packets_in_flight : ResendTimeout(k)

=============================================================================
