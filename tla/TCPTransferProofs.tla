-------------------------- MODULE TCPTransferProofs --------------------------
(***************************************************************************)
(* Theorems about TCPTransfer, for every input length, window, buffer and  *)
(* set of faults.                                                          *)
(***************************************************************************)
EXTENDS TCPTransfer, TLAPS, FiniteSetTheorems, SequenceTheorems

-----------------------------------------------------------------------------
(* The wires.                                                              *)

(* Taking a packet off a wire leaves only packets that were on it.         *)
LEMMA RemoveAtType ==
    ASSUME NEW S, NEW s \in Seq(S), NEW i \in DOMAIN s
    PROVE  RemoveAt(s, i) \in Seq(S)
<1>1. SubSeq(s, 1, i - 1) \in Seq(S)
  BY SubSeqProperties
<1>2. SubSeq(s, i + 1, Len(s)) \in Seq(S)
  BY SubSeqProperties
<1> QED BY <1>1, <1>2, ConcatProperties DEF RemoveAt

(* A full buffer drops packets and makes none up.                          *)
LEMMA DropTailType ==
    ASSUME NEW S, NEW wire \in Seq(S)
    PROVE  DropTail(wire) \in Seq(S)
<1> USE BoundAssumption
<1>1. CASE Len(wire) <= BufferSize
  BY <1>1 DEF DropTail
<1>2. CASE ~(Len(wire) <= BufferSize)
  <2>1. \A i \in 1..BufferSize : wire[i] \in S
    BY <1>2, LenProperties, ElementOfSeq
  <2> QED BY <1>2, <2>1, SubSeqProperties DEF DropTail
<1> QED BY <1>1, <1>2

(* Whatever happens to a packet that is sent, the wire holds packets of S. *)
LEMMA FatesType ==
    ASSUME NEW S, NEW m \in S, Mangled \in S, NEW path, NEW fate \in Fates(m, path)
    PROVE  fate \in Seq(S)
<1>1. \A c \in Copies(m, path) : c \in S
  BY DEF Copies
<1>2. \/ fate = <<>>
      \/ \E c \in Copies(m, path) : fate = <<c>> \/ fate = <<c, c>>
  <2>1. CASE path \in Duplicate
    BY <2>1, Zenon DEF Fates
  <2>2. CASE path \notin Duplicate
    BY <2>2, Zenon DEF Fates
  <2> QED BY <2>1, <2>2
<1>3. /\ <<>> \in Seq(S)
      /\ \A c \in S : <<c>> \in Seq(S) /\ <<c, c>> \in Seq(S)
  OBVIOUS
<1> QED BY <1>1, <1>2, <1>3, Zenon

(* Damage is counted one packet at a time.                                 *)
LEMMA DamageOfType ==
    ASSUME NEW m, NEW fate
    PROVE  DamageOf(m, fate) \in {0, 1}
BY DEF DamageOf

(* Sending keeps the packets of a wire in S, and the damage in its bound.  *)
LEMMA SendForwardType ==
    ASSUME NEW S, NEW m \in S, Mangled \in S, s_to_r \in Seq(S),
           damage \in 0..MaxDamage, SendForward(m)
    PROVE  s_to_r' \in Seq(S) /\ damage' \in 0..MaxDamage
<1>1. PICK fate \in Fates(m, Forward) :
          /\ damage + DamageOf(m, fate) <= MaxDamage
          /\ damage' = damage + DamageOf(m, fate)
          /\ s_to_r' = DropTail(s_to_r \o fate)
  BY DEF SendForward, Enqueue
<1>2. fate \in Seq(S)
  BY FatesType
<1>3. s_to_r' \in Seq(S)
  BY <1>1, <1>2, ConcatProperties, DropTailType
<1> QED BY <1>1, <1>3, DamageOfType, BoundAssumption

LEMMA SendBackwardType ==
    ASSUME NEW S, NEW m \in S, Mangled \in S, r_to_s \in Seq(S),
           damage \in 0..MaxDamage, SendBackward(m)
    PROVE  r_to_s' \in Seq(S) /\ damage' \in 0..MaxDamage
<1>1. PICK fate \in Fates(m, Backward) :
          /\ damage + DamageOf(m, fate) <= MaxDamage
          /\ damage' = damage + DamageOf(m, fate)
          /\ r_to_s' = DropTail(r_to_s \o fate)
  BY DEF SendBackward, Enqueue
<1>2. fate \in Seq(S)
  BY FatesType
<1>3. r_to_s' \in Seq(S)
  BY <1>1, <1>2, ConcatProperties, DropTailType
<1> QED BY <1>1, <1>3, DamageOfType, BoundAssumption

(* A reader takes a packet that is on its wire.                            *)
LEMMA ArrivalsInDomain ==
    ASSUME NEW wire, NEW path
    PROVE  Arrivals(wire, path) \subseteq DOMAIN wire
BY DEF Arrivals

-----------------------------------------------------------------------------
(* The two processes' helpers.                                             *)

(* One packet is already in order.                                         *)
LEMMA AscendingOne ==
    ASSUME NEW k
    PROVE  Ascending({k}) = <<k>>
<1>1. Cardinality({k}) = 1
  BY FS_Singleton
<1>2. \A s \in [1..1 -> {k}] : s = <<k>>
  OBVIOUS
<1>3. <<k>> \in [1..1 -> {k}]
  OBVIOUS
<1>4. \A i, j \in 1..1 : ~(i < j)
  OBVIOUS
<1> DEFINE P(s) == \A i, j \in 1..1 : i < j => s[i] < s[j]
<1>5. P(<<k>>)
  BY <1>4
<1> HIDE DEF P
<1>6. (CHOOSE s \in [1..1 -> {k}] : P(s)) = <<k>>
  BY <1>2, <1>3, <1>5
<1> QED BY <1>1, <1>6 DEF Ascending, P

(* The chunks from a + 1 to a + n, in order.                               *)
LEMMA RunType ==
    ASSUME NEW S, NEW n \in Nat, NEW a \in Nat, \A j \in 1..n : a + j \in S
    PROVE  /\ [j \in 1..n |-> a + j] \in Seq(S)
           /\ Len([j \in 1..n |-> a + j]) = n
           /\ \A j \in 1..n : [i \in 1..n |-> a + i][j] = a + j
<1> DEFINE f == [j \in 1..n |-> a + j]
<1>1. f \in [1..n -> S]
  OBVIOUS
<1>2. f \in Seq(S)
  BY <1>1, SeqDef
<1>3. Len(f) = n
  BY <1>2, LenProperties
<1> QED BY <1>2, <1>3

(* No sequence number of a run reaches the modulus.                        *)
LEMMA WrapIdentity ==
    ASSUME NEW n \in 0..N + WindowSize
    PROVE  Wrap(n) = n
BY NAssumption, WindowAssumption, WidthAssumption DEF Wrap

(* What the sender's filter leaves is what follows the ack.                *)
LEMMA StillInFlightAfter ==
    ASSUME IInv, NEW ack \in ack_number..syn_number
    PROVE  StillInFlight(ack) = {k \in packets_in_flight : k > ack}
<1>1. /\ syn_number \in Nat /\ ack_number \in Nat /\ ack \in Nat
      /\ packets_in_flight \subseteq ack_number .. syn_number - 1
  BY NAssumption DEF IInv, SenderSound, TypeOK
<1>2. \A k \in packets_in_flight : k \in Int /\ k < syn_number
  BY <1>1
<1>3. CASE ack = syn_number
  <2>1. \A k \in packets_in_flight : ~(k > ack)
    BY <1>1, <1>2, <1>3
  <2> QED BY <1>3, <2>1 DEF StillInFlight
<1>4. CASE ack # syn_number
  <2>1. \A k \in packets_in_flight : StillAckable(k, ack) <=> k > ack
    BY <1>1, <1>2, <1>4 DEF StillAckable
  <2> QED BY <1>4, <2>1 DEF StillInFlight
<1> QED BY <1>3, <1>4

-----------------------------------------------------------------------------
(* The packets in flight can be counted.                                   *)
LEMMA InFlightFinite ==
    ASSUME IInv
    PROVE  IsFiniteSet(packets_in_flight) /\ Cardinality(packets_in_flight) \in Nat
<1>1. IsFiniteSet(1..N)
  BY NAssumption, FS_Interval
<1>2. packets_in_flight \in SUBSET (1..N)
  BY DEF IInv, TypeOK
<1> QED BY <1>1, <1>2, FS_Subset, FS_CardinalityType

(* The initial states satisfy the invariant.                               *)
LEMMA InitEstablishes == Init => IInv
<1> SUFFICES ASSUME Init PROVE IInv
  OBVIOUS
<1> USE NAssumption, WindowAssumption, BoundAssumption DEF Init, NetworkInit, SenderInit,
        ReceiverInit, DEFAULT_SYN_STARTING_NUMBER, None
<1>1. TypeOK
  <2>1. /\ s_to_r \in Seq(DataPackets(N) \cup {Mangled})
        /\ r_to_s \in Seq(Responses(N) \cup {Mangled})
        /\ printed \in Seq(1..N)
    BY EmptySeq
  <2>2. /\ syn_number \in 1..N + 1 /\ ack_number \in 1..N + 1
        /\ highest_acked \in -1..N /\ highest_received_syn \in -1..N
        /\ damage \in 0..MaxDamage
    OBVIOUS
  <2>3. /\ packets_in_flight \subseteq 1..N /\ window_packets \subseteq 1..N
        /\ sent_all_messages \in BOOLEAN /\ running \in BOOLEAN
    OBVIOUS
  <2> QED BY <2>1, <2>2, <2>3, Zenon DEF TypeOK
<1>2. WiresSound
  BY DEF WiresSound
<1>3. SenderSound
  BY DEF SenderSound
<1>4. ReceiverSound
  BY DEF ReceiverSound
<1>5. Contiguous
  BY DEF Contiguous
<1>6. NoPacketForgotten
  BY DEF NoPacketForgotten
<1>7. WindowRespected
  BY FS_EmptySet DEF WindowRespected
<1> QED BY <1>1, <1>2, <1>3, <1>4, <1>5, <1>6, <1>7 DEF IInv

(* A new packet is sent: it joins the packets in flight.                   *)
LEMMA SendChunkPreserves ==
    ASSUME IInv, SendChunk, UNCHANGED receiverVars
    PROVE  IInv'
<1> USE NAssumption, WindowAssumption DEF SendChunk, InputSelected, receiverVars
<1>1. syn_number \in 1..N /\ syn_number' = syn_number + 1
  BY DEF IInv, TypeOK
<1>2. s_to_r' \in Seq(DataPackets(syn_number' - 1) \cup {Mangled}) /\ damage' \in 0..MaxDamage
  <2> DEFINE S == DataPackets(syn_number' - 1) \cup {Mangled}
  <2>1. Data(syn_number) \in S /\ Mangled \in S
    BY <1>1 DEF DataPackets
  <2>2. DataPackets(syn_number - 1) \cup {Mangled} \subseteq S
    BY <1>1 DEF DataPackets
  <2>3. s_to_r \in Seq(S)
    BY <2>2, SeqMonotonic DEF IInv, WiresSound
  <2> HIDE DEF S
  <2>4. damage \in 0..MaxDamage /\ SendForward(Data(syn_number))
    BY DEF IInv, TypeOK
  <2>5. s_to_r' \in Seq(S) /\ damage' \in 0..MaxDamage
    BY <2>1, <2>3, <2>4, SendForwardType
  <2> QED BY <2>5 DEF S
<1>3. TypeOK'
  <2>1. DataPackets(syn_number' - 1) \cup {Mangled} \subseteq DataPackets(N) \cup {Mangled}
    BY <1>1 DEF DataPackets
  <2>2. s_to_r' \in Seq(DataPackets(N) \cup {Mangled})
    BY <1>2, <2>1, SeqMonotonic
  <2> QED BY <1>1, <1>2, <2>2 DEF IInv, TypeOK
<1>4. WiresSound'
  BY <1>2 DEF IInv, WiresSound
<1>5. SenderSound'
  BY <1>1 DEF IInv, SenderSound, TypeOK
<1>6. ReceiverSound'
  BY <1>1 DEF IInv, ReceiverSound, TypeOK
<1>7. Contiguous'
  BY DEF IInv, Contiguous
<1>8. NoPacketForgotten'
  BY <1>1 DEF IInv, NoPacketForgotten
<1>9. WindowRespected'
  <2>1. IsFiniteSet(packets_in_flight) /\ Cardinality(packets_in_flight) \in Nat
    BY InFlightFinite
  <2> QED BY <2>1, FS_AddElement DEF WindowRespected
<1> QED BY <1>3, <1>4, <1>5, <1>6, <1>7, <1>8, <1>9 DEF IInv

(* The input ends.                                                         *)
LEMMA InputEndsPreserves ==
    ASSUME IInv, InputEnds, UNCHANGED receiverVars
    PROVE  IInv'
<1> USE NAssumption DEF InputEnds, InputSelected, receiverVars, networkVars
<1>1. syn_number = N + 1
  BY DEF IInv, TypeOK
<1>2. TypeOK'
  BY DEF IInv, TypeOK
<1>3. SenderSound'
  BY <1>1 DEF IInv, SenderSound
<1> QED BY <1>2, <1>3 DEF IInv, WiresSound, ReceiverSound, Contiguous,
           NoPacketForgotten, WindowRespected

(* A response is handled.  Either it acks the packet it names, and then    *)
(* everything up to that packet is acked; or packet ack_number is sent     *)
(* again, and then stays in flight; or nothing follows from it, and then   *)
(* it repeats an ack of packet 1.                                          *)
LEMMA HandleResponsePreserves ==
    ASSUME IInv, NEW i \in Arrivals(r_to_s, Backward), HandleResponse(i),
           UNCHANGED receiverVars
    PROVE  IInv'
<1> DEFINE m == r_to_s[i]
<1> USE NAssumption
<1>1. i \in DOMAIN r_to_s
  BY ArrivalsInDomain
<1>2. m \in Responses(highest_acked) \cup {Mangled}
  BY <1>1, LenProperties, ElementOfSeq DEF IInv, WiresSound
<1>3. m.kind # "mangled" => m.seq \in 0..highest_acked
  BY <1>2 DEF Responses, Ack, ErrorAck, Mangled
<1>a. /\ syn_number \in 1..N+1 /\ ack_number \in 1..N+1 /\ highest_acked \in -1..N
      /\ packets_in_flight \subseteq ack_number..syn_number - 1
      /\ ack_number <= syn_number
      /\ ack_number = 1 \/ ack_number <= highest_acked
  BY DEF IInv, TypeOK, SenderSound
<1>b. /\ UNCHANGED <<syn_number, sent_all_messages>>
      /\ UNCHANGED <<highest_acked, highest_received_syn, window_packets, printed>>
      /\ ack_number' = NewAck(m)
      /\ packets_in_flight' = StillInFlight(NewAck(m)) \cup Resent(m)
      /\ running' = ~(sent_all_messages /\ packets_in_flight' = {})
      /\ r_to_s' = RemoveAt(r_to_s, i)
      /\ IF Resent(m) = {} THEN UNCHANGED <<s_to_r, damage>> ELSE SendForward(Data(ack_number))
  BY DEF HandleResponse, receiverVars
<1> HIDE DEF m
<1>4. /\ ack_number' \in ack_number..syn_number
      /\ ack_number' = 1 \/ ack_number' <= highest_acked
  <2>1. CASE AcksPacket(m) /\ StillAckable(m.seq, ack_number)
    BY <1>3, <1>a, <1>b, <2>1 DEF NewAck, AcksPacket, Matches
  <2>2. CASE ~(AcksPacket(m) /\ StillAckable(m.seq, ack_number))
    BY <1>a, <1>b, <2>2 DEF NewAck
  <2> QED BY <2>1, <2>2
<1>5. /\ Resent(m) \subseteq packets_in_flight \cap {ack_number}
      /\ Resent(m) # {} => ack_number' = ack_number
  BY <1>b DEF Resent, NewAck
<1>6. packets_in_flight' = {k \in packets_in_flight : k > ack_number'} \cup Resent(m)
  BY <1>4, <1>b, StillInFlightAfter
<1>7. packets_in_flight' \subseteq packets_in_flight
  BY <1>5, <1>6 DEF Resent
<1>8. /\ s_to_r' \in Seq(DataPackets(syn_number - 1) \cup {Mangled})
      /\ damage' \in 0..MaxDamage
  <2> DEFINE S == DataPackets(syn_number - 1) \cup {Mangled}
  <2>1. s_to_r \in Seq(S) /\ damage \in 0..MaxDamage
    BY DEF IInv, WiresSound, TypeOK
  <2>2. CASE Resent(m) = {}
    BY <1>b, <2>1, <2>2
  <2>3. CASE Resent(m) # {}
    <3>1. Mangled \in S /\ Data(ack_number) \in S
      BY <1>5, <1>a, <2>3 DEF DataPackets, Resent
    <3>2. SendForward(Data(ack_number))
      BY <1>b, <2>3
    <3> HIDE DEF S
    <3>3. s_to_r' \in Seq(S) /\ damage' \in 0..MaxDamage
      BY <2>1, <3>1, <3>2, SendForwardType
    <3> QED BY <3>3 DEF S
  <2> QED BY <2>2, <2>3
<1>9. r_to_s' \in Seq(Responses(highest_acked) \cup {Mangled})
  BY <1>1, <1>b, RemoveAtType DEF IInv, WiresSound
<1>10. TypeOK'
  <2>1. DataPackets(syn_number - 1) \cup {Mangled} \subseteq DataPackets(N) \cup {Mangled}
    BY <1>a DEF DataPackets
  <2>2. Responses(highest_acked) \cup {Mangled} \subseteq Responses(N) \cup {Mangled}
    BY <1>a DEF Responses
  <2>3. s_to_r' \in Seq(DataPackets(N) \cup {Mangled}) /\ r_to_s' \in Seq(Responses(N) \cup {Mangled})
    BY <1>8, <1>9, <2>1, <2>2, SeqMonotonic
  <2>4. running' \in BOOLEAN
    BY <1>b
  <2>5. packets_in_flight' \subseteq 1..N /\ ack_number' \in 1..N+1
    BY <1>4, <1>7, <1>a DEF IInv, TypeOK
  <2> QED BY <1>8, <1>b, <2>3, <2>4, <2>5 DEF IInv, TypeOK
<1>11. WiresSound'
  BY <1>8, <1>9, <1>b DEF WiresSound
<1>12. SenderSound'
  <2>1. packets_in_flight' \subseteq ack_number'..syn_number - 1
    <3>1. \A k \in packets_in_flight' : k \in packets_in_flight /\ k >= ack_number'
      BY <1>a, <1>4, <1>5, <1>6, <1>7
    <3>2. \A k \in packets_in_flight : k \in Int /\ k <= syn_number - 1
      BY <1>a
    <3>3. ack_number' \in Int /\ syn_number \in Int
      BY <1>a, <1>4
    <3> QED BY <3>1, <3>2, <3>3
  <2>2. ~running' => sent_all_messages /\ packets_in_flight' = {}
    BY <1>b, Zenon
  <2> QED BY <1>4, <1>a, <1>b, <2>1, <2>2 DEF IInv, SenderSound
<1>13. ReceiverSound' /\ Contiguous'
  BY <1>b DEF IInv, ReceiverSound, Contiguous
<1>14. NoPacketForgotten'
  <2> SUFFICES ASSUME NEW k \in 1..syn_number - 1, k \notin packets_in_flight'
               PROVE  k <= highest_acked
    BY <1>b DEF NoPacketForgotten
  <2>1. CASE k \notin packets_in_flight
    BY <2>1 DEF IInv, NoPacketForgotten
  <2>2. CASE k \in packets_in_flight
    <3>1. k <= ack_number' /\ k \notin Resent(m)
      BY <1>6, <1>4, <1>a, <2>2
    <3>2. CASE ack_number' <= highest_acked
      BY <1>4, <1>a, <3>1, <3>2
    <3>3. CASE ack_number' = 1
      <4>1. k = 1 /\ ack_number = 1
        BY <1>4, <1>a, <3>1, <3>3
      <4>2. AcksPacket(m)
        BY <2>2, <3>1, <4>1 DEF Resent
      <4>3. m.seq \in packets_in_flight /\ m.seq \in 0..highest_acked
        BY <1>3, <4>2 DEF AcksPacket, Matches
      <4> QED BY <1>a, <4>1, <4>3
    <3> QED BY <1>4, <3>2, <3>3
  <2> QED BY <2>1, <2>2
<1>15. WindowRespected'
  <2>1. Cardinality(packets_in_flight') <= Cardinality(packets_in_flight)
    BY <1>7, InFlightFinite, FS_Subset
  <2>2. Cardinality(packets_in_flight') \in Nat
    BY <1>7, InFlightFinite, FS_Subset, FS_CardinalityType
  <2> QED BY <2>1, <2>2, InFlightFinite, WindowAssumption DEF IInv, WindowRespected
<1> QED BY <1>10, <1>11, <1>12, <1>13, <1>14, <1>15 DEF IInv

(* A packet is sent again.                                                 *)
LEMMA ResendTimeoutPreserves ==
    ASSUME IInv, NEW k \in packets_in_flight, ResendTimeout(k), UNCHANGED receiverVars
    PROVE  IInv'
<1> DEFINE S == DataPackets(syn_number - 1) \cup {Mangled}
<1>1. /\ UNCHANGED <<senderVars, r_to_s, receiverVars>>
      /\ SendForward(Data(k))
  BY DEF ResendTimeout
<1>2. syn_number \in 1..N+1 /\ ack_number \in 1..N+1 /\ k \in ack_number..syn_number - 1
  BY NAssumption DEF IInv, TypeOK, SenderSound
<1>3. Data(k) \in S /\ Mangled \in S
  BY <1>2, NAssumption DEF DataPackets
<1>4. S \subseteq DataPackets(N) \cup {Mangled}
  BY <1>2, NAssumption DEF DataPackets
<1>5. s_to_r \in Seq(S) /\ damage \in 0..MaxDamage
  BY DEF IInv, WiresSound, TypeOK
<1> HIDE DEF S
<1>6. s_to_r' \in Seq(S) /\ damage' \in 0..MaxDamage
  BY <1>1, <1>3, <1>5, SendForwardType
<1>7. s_to_r' \in Seq(DataPackets(N) \cup {Mangled})
  BY <1>4, <1>6, SeqMonotonic
<1> QED BY <1>1, <1>6, <1>7 DEF S, IInv, TypeOK, WiresSound, SenderSound, ReceiverSound,
           Contiguous, NoPacketForgotten, WindowRespected, senderVars, receiverVars

-----------------------------------------------------------------------------
(* The receiver handles a packet, in the five ways it has.                 *)

(* What they share: the packet read is one that was sent, and the sender   *)
(* does not notice.                                                        *)
LEMMA PacketRead ==
    ASSUME IInv, NEW i \in Arrivals(s_to_r, Forward)
    PROVE  /\ i \in DOMAIN s_to_r
           /\ s_to_r[i] = Mangled \/ s_to_r[i].seq \in 1..syn_number - 1
           /\ RemoveAt(s_to_r, i) \in Seq(DataPackets(syn_number - 1) \cup {Mangled})
<1>1. i \in DOMAIN s_to_r
  BY ArrivalsInDomain
<1>2. s_to_r \in Seq(DataPackets(syn_number - 1) \cup {Mangled})
  BY DEF IInv, WiresSound
<1>3. s_to_r[i] \in DataPackets(syn_number - 1) \cup {Mangled}
  BY <1>1, <1>2, LenProperties, ElementOfSeq
<1> QED BY <1>1, <1>2, <1>3, RemoveAtType DEF DataPackets, Data

(* It is enough to show the parts of the invariant the receiver's own      *)
(* variables can disturb.                                                  *)
LEMMA ReceiverParts ==
    ASSUME IInv, UNCHANGED senderVars,
           s_to_r' \in Seq(DataPackets(syn_number - 1) \cup {Mangled}),
           r_to_s' \in Seq(Responses(highest_acked') \cup {Mangled}),
           damage' \in 0..MaxDamage,
           highest_acked' \in highest_acked..syn_number - 1,
           highest_received_syn' \in -1..N,
           window_packets' \subseteq 1..syn_number - 1,
           highest_acked' = None => window_packets' = {},
           printed' \in Seq(1..N),
           Contiguous'
    PROVE  IInv'
<1> USE NAssumption DEF senderVars
<1>1. syn_number \in 1..N + 1 /\ highest_acked \in -1..N
  BY DEF IInv, TypeOK
<1>2. DataPackets(syn_number - 1) \cup {Mangled} \subseteq DataPackets(N) \cup {Mangled}
  BY <1>1 DEF DataPackets
<1>3. Responses(highest_acked') \cup {Mangled} \subseteq Responses(N) \cup {Mangled}
  BY <1>1 DEF Responses
<1>4. /\ s_to_r' \in Seq(DataPackets(N) \cup {Mangled})
      /\ r_to_s' \in Seq(Responses(N) \cup {Mangled})
  BY <1>2, <1>3, SeqMonotonic
<1>5. highest_acked' \in -1..N /\ window_packets' \subseteq 1..N
  BY <1>1
<1>6. TypeOK'
  BY <1>4, <1>5 DEF IInv, TypeOK
<1>7. WiresSound'
  BY DEF WiresSound
<1>8. SenderSound'
  BY <1>1 DEF IInv, SenderSound, TypeOK
<1>9. ReceiverSound'
  BY <1>1 DEF ReceiverSound
<1>10. NoPacketForgotten' /\ WindowRespected'
  BY <1>1 DEF IInv, NoPacketForgotten, WindowRespected
<1> QED BY <1>6, <1>7, <1>8, <1>9, <1>10 DEF IInv

(* A response acks no more than highest_acked says from now on.            *)
LEMMA RespondType ==
    ASSUME IInv, NEW m, m \in {Ack(m.seq), ErrorAck(m.seq)}, m.seq \in Nat,
           m.seq >= highest_acked, Respond(m)
    PROVE  /\ r_to_s' \in Seq(Responses(highest_acked') \cup {Mangled})
           /\ damage' \in 0..MaxDamage
<1> DEFINE S == Responses(m.seq) \cup {Mangled}
<1>1. highest_acked' = m.seq /\ SendBackward(m)
  BY DEF Respond
<1>2. m \in S /\ Mangled \in S
  BY DEF Responses
<1>3. Responses(highest_acked) \cup {Mangled} \subseteq S
  BY DEF Responses, IInv, TypeOK
<1>4. r_to_s \in Seq(Responses(highest_acked) \cup {Mangled}) /\ damage \in 0..MaxDamage
  BY DEF IInv, WiresSound, TypeOK
<1>5. r_to_s \in Seq(S)
  BY <1>3, <1>4, SeqMonotonic
<1> HIDE DEF S
<1>6. r_to_s' \in Seq(S) /\ damage' \in 0..MaxDamage
  BY <1>1, <1>2, <1>4, <1>5, SendBackwardType
<1> QED BY <1>1, <1>6 DEF S

(* A mangled packet is answered with the last ack again, or with 0.        *)
LEMMA RejectMangledPreserves ==
    ASSUME IInv, UNCHANGED senderVars, NEW i \in Arrivals(s_to_r, Forward),
           s_to_r' = RemoveAt(s_to_r, i), RejectMangled(s_to_r[i])
    PROVE  IInv'
<1> DEFINE m == ErrorAck(ErrorNumber)
<1>1. /\ syn_number \in 1..N + 1 /\ highest_acked \in -1..N /\ highest_acked <= syn_number - 1
      /\ window_packets \subseteq 1..syn_number - 1
      /\ highest_received_syn \in -1..N /\ printed \in Seq(1..N)
  BY NAssumption DEF IInv, TypeOK, ReceiverSound
<1>2. /\ ErrorNumber \in Nat /\ ErrorNumber \in highest_acked..syn_number - 1
      /\ highest_acked >= 0 => ErrorNumber = highest_acked
      /\ highest_acked < 0 => ErrorNumber = 0
  BY <1>1 DEF ErrorNumber, None
<1>3. Respond(m) /\ UNCHANGED <<highest_received_syn, window_packets, printed>>
  BY DEF RejectMangled
<1>4. highest_acked' = ErrorNumber
  BY <1>3 DEF Respond, ErrorAck
<1>5. m = ErrorAck(m.seq) /\ m.seq = ErrorNumber
  BY DEF ErrorAck
<1> HIDE DEF m
<1>6. /\ r_to_s' \in Seq(Responses(highest_acked') \cup {Mangled})
      /\ damage' \in 0..MaxDamage
  BY <1>1, <1>2, <1>3, <1>5, RespondType
<1>7. Contiguous'
  <2>1. CASE highest_acked >= 0
    BY <1>2, <1>3, <1>4, <2>1 DEF IInv, Contiguous
  <2>2. CASE highest_acked < 0
    BY <1>1, <1>2, <1>3, <1>4, <2>2 DEF IInv, Contiguous
  <2> QED BY <1>1, <2>1, <2>2
<1>8. highest_acked' # None
  BY <1>2, <1>4 DEF None
<1>9. s_to_r' \in Seq(DataPackets(syn_number - 1) \cup {Mangled})
  BY PacketRead
<1> QED BY <1>1, <1>2, <1>3, <1>4, <1>6, <1>7, <1>8, <1>9, ReceiverParts

(* A packet the receiver has kept already changes nothing but the wire.    *)
LEMMA IgnoreKnownPreserves ==
    ASSUME IInv, UNCHANGED senderVars, NEW i \in Arrivals(s_to_r, Forward),
           s_to_r' = RemoveAt(s_to_r, i), IgnoreKnown(s_to_r[i])
    PROVE  IInv'
<1>1. /\ UNCHANGED <<r_to_s, damage>>
      /\ UNCHANGED <<highest_acked, highest_received_syn, window_packets, printed>>
  BY DEF IgnoreKnown, receiverVars
<1>2. /\ syn_number \in 1..N + 1 /\ highest_acked \in -1..N /\ highest_acked <= syn_number - 1
      /\ window_packets \subseteq 1..syn_number - 1
      /\ highest_acked = None => window_packets = {}
      /\ highest_received_syn \in -1..N /\ printed \in Seq(1..N)
      /\ damage \in 0..MaxDamage
      /\ r_to_s \in Seq(Responses(highest_acked) \cup {Mangled})
  BY NAssumption DEF IInv, TypeOK, ReceiverSound, WiresSound
<1>3. s_to_r' \in Seq(DataPackets(syn_number - 1) \cup {Mangled})
  BY PacketRead
<1>4. Contiguous'
  BY <1>1 DEF IInv, Contiguous
<1>5. highest_acked' \in highest_acked..syn_number - 1
  BY <1>1, <1>2
<1> QED BY <1>1, <1>2, <1>3, <1>4, <1>5, ReceiverParts

(* What an insertion into the window amounts to.                           *)
LEMMA InsertFacts ==
    ASSUME IInv, NEW i \in Arrivals(s_to_r, Forward), Insert(s_to_r[i])
    PROVE  /\ s_to_r[i].seq \in 1..syn_number - 1
           /\ window_packets \cup {s_to_r[i].seq} \subseteq 1..syn_number - 1
           /\ highest_received_syn' \in window_packets \cup {s_to_r[i].seq}
           /\ highest_received_syn' \in -1..N
<1>1. s_to_r[i].seq \in 1..syn_number - 1
  BY PacketRead DEF Insert
<1>2. window_packets \subseteq 1..syn_number - 1 /\ syn_number \in 1..N + 1
  BY DEF IInv, ReceiverSound, TypeOK
<1>3. window_packets \cup {s_to_r[i].seq} \subseteq 1..syn_number - 1
  BY <1>1, <1>2
<1>4. highest_received_syn' \in window_packets \cup {s_to_r[i].seq}
  BY DEF Insert
<1>5. \A k \in 1..syn_number - 1 : k \in -1..N
  BY <1>2, NAssumption
<1> QED BY <1>1, <1>3, <1>4, <1>5, Zenon

(* A packet out of the ackable range is kept, and nothing else happens.    *)
LEMMA KeepSilentlyPreserves ==
    ASSUME IInv, UNCHANGED senderVars, NEW i \in Arrivals(s_to_r, Forward),
           s_to_r' = RemoveAt(s_to_r, i), KeepSilently(s_to_r[i])
    PROVE  IInv'
<1>1. /\ UNCHANGED <<r_to_s, damage, highest_acked, printed>>
      /\ window_packets' = window_packets \cup {s_to_r[i].seq}
      /\ Insert(s_to_r[i])
      /\ highest_acked # None
  BY DEF KeepSilently, Ackable
<1>2. /\ syn_number \in 1..N + 1 /\ highest_acked \in -1..N /\ highest_acked <= syn_number - 1
      /\ printed \in Seq(1..N)
      /\ damage \in 0..MaxDamage
      /\ r_to_s \in Seq(Responses(highest_acked) \cup {Mangled})
  BY NAssumption DEF IInv, TypeOK, ReceiverSound, WiresSound
<1>3. s_to_r' \in Seq(DataPackets(syn_number - 1) \cup {Mangled})
  BY PacketRead
<1>4. Contiguous'
  BY <1>1 DEF IInv, Contiguous
<1>5. highest_acked' \in highest_acked..syn_number - 1
  BY <1>1, <1>2
<1> QED BY <1>1, <1>2, <1>3, <1>4, <1>5, InsertFacts, ReceiverParts

(* The first packet is printed and acked, whichever it is.                 *)
LEMMA AcceptFirstPreserves ==
    ASSUME IInv, UNCHANGED senderVars, NEW i \in Arrivals(s_to_r, Forward),
           s_to_r' = RemoveAt(s_to_r, i), AcceptFirst(s_to_r[i])
    PROVE  IInv'
<1> DEFINE k == s_to_r[i].seq
           m == Ack(highest_received_syn')
<1>1. /\ Insert(s_to_r[i]) /\ highest_acked = None
      /\ printed' = printed \o Ascending(window_packets \cup {k})
      /\ window_packets' = window_packets \cup {k}
      /\ Respond(m)
  BY DEF AcceptFirst
<1>2. window_packets = {} /\ printed = <<>>
  BY <1>1 DEF IInv, ReceiverSound, Contiguous, None
<1>3. k \in 1..syn_number - 1 /\ highest_received_syn' = k
  BY <1>1, <1>2, InsertFacts
<1>4. syn_number \in 1..N + 1 /\ highest_acked = -1
  BY <1>1, NAssumption DEF IInv, TypeOK, None
<1> HIDE DEF k
<1>5. m = Ack(m.seq) /\ m.seq = k /\ highest_acked' = k
  BY <1>1, <1>3 DEF Ack, Respond
<1>6. printed' = <<k>>
  <2>1. window_packets \cup {k} = {k}
    BY <1>2
  <2>2. Ascending({k}) = <<k>>
    BY AscendingOne
  <2> QED BY <1>1, <1>2, <2>1, <2>2
<1> HIDE DEF m
<1>7. /\ r_to_s' \in Seq(Responses(highest_acked') \cup {Mangled})
      /\ damage' \in 0..MaxDamage
  <2>1. m.seq \in Nat /\ m.seq >= highest_acked
    BY <1>3, <1>4, <1>5
  <2> QED BY <1>1, <1>5, <2>1, RespondType
<1>8. Contiguous'
  BY <1>3, <1>4, <1>5, <1>6 DEF Contiguous
<1>9. printed' \in Seq(1..N) /\ highest_received_syn' \in -1..N
  <2>1. k \in 1..N
    BY <1>3, <1>4, NAssumption
  <2> QED BY <1>3, <1>6, <2>1
<1>10. s_to_r' \in Seq(DataPackets(syn_number - 1) \cup {Mangled})
  BY PacketRead
<1>11. /\ highest_acked' \in highest_acked..syn_number - 1
       /\ highest_acked' # None
       /\ window_packets' \subseteq 1..syn_number - 1
  BY <1>1, <1>2, <1>3, <1>4, <1>5 DEF None
<1> QED BY <1>7, <1>8, <1>9, <1>10, <1>11, ReceiverParts

(* A later packet lets the run that follows the last ack be printed.       *)
LEMMA AcceptPreserves ==
    ASSUME IInv, UNCHANGED senderVars, NEW i \in Arrivals(s_to_r, Forward),
           s_to_r' = RemoveAt(s_to_r, i), Accept(s_to_r[i])
    PROVE  IInv'
<1> DEFINE k == s_to_r[i].seq
           win == window_packets \cup {k}
           Batch(h) == [j \in 1..(h - highest_acked) |-> highest_acked + j]
<1>1. PICK h \in highest_acked..N :
        /\ EndsRun(h, highest_acked, win)
        /\ printed' = printed \o Batch(h)
        /\ window_packets' = {j \in win : Ackable(j, h, highest_received_syn')}
        /\ Respond(Ack(h))
  BY DEF Accept
<1>2. /\ Insert(s_to_r[i]) /\ highest_acked # None
  BY DEF Accept
<1>3. /\ syn_number \in 1..N + 1 /\ highest_acked \in 0..N /\ highest_acked <= syn_number - 1
      /\ win \subseteq 1..syn_number - 1
      /\ highest_received_syn' \in -1..N
      /\ printed \in Seq(1..N)
      /\ Contiguous
      /\ h \in Nat
  BY <1>2, NAssumption, InsertFacts DEF IInv, TypeOK, ReceiverSound, None
<1>4. highest_acked + 1 .. h \subseteq win
  <2>1. \A j \in highest_acked + 1 .. h : j \in 0..N + WindowSize
    BY <1>3, NAssumption, WindowAssumption
  <2>2. \A j \in highest_acked + 1 .. h : Wrap(j) = j
    BY <2>1, WrapIdentity
  <2>3. \A j \in highest_acked + 1 .. h : Wrap(j) \in win
    BY <1>1 DEF EndsRun
  <2> QED BY <2>2, <2>3
<1> HIDE DEF win
<1>5. h \in highest_acked..syn_number - 1
  <2>1. CASE h = highest_acked
    BY <1>3, <2>1
  <2>2. CASE h # highest_acked
    <3>1. h \in highest_acked + 1 .. h
      BY <1>3, <2>2
    <3> QED BY <1>3, <1>4, <3>1
  <2> QED BY <2>1, <2>2
<1>6. Ack(h).seq = h /\ Ack(h) = Ack(Ack(h).seq) /\ highest_acked' = h
  BY <1>1 DEF Ack, Respond
<1>7. /\ r_to_s' \in Seq(Responses(highest_acked') \cup {Mangled})
      /\ damage' \in 0..MaxDamage
  BY <1>1, <1>3, <1>5, <1>6, RespondType
<1>8. /\ Batch(h) \in Seq(1..N)
      /\ Len(Batch(h)) = h - highest_acked
      /\ \A j \in 1..(h - highest_acked) : Batch(h)[j] = highest_acked + j
  <2>1. \A j \in 1..(h - highest_acked) : highest_acked + j \in 1..N
    BY <1>3, <1>5, NAssumption
  <2>2. h - highest_acked \in Nat
    BY <1>3, <1>5
  <2> QED BY <1>3, <2>1, <2>2, RunType
<1> HIDE DEF Batch
<1>9. /\ printed' \in Seq(1..N)
      /\ Len(printed') = Len(printed) + (h - highest_acked)
      /\ \A j \in 1..Len(printed') :
           printed'[j] = IF j <= Len(printed) THEN printed[j] ELSE Batch(h)[j - Len(printed)]
  <2>1. /\ printed \in Seq(1..N) /\ Batch(h) \in Seq(1..N)
        /\ printed' = printed \o Batch(h)
    BY <1>1, <1>3, <1>8
  <2>2. printed' \in Seq(1..N) /\ Len(printed') = Len(printed) + Len(Batch(h))
    BY <2>1, ConcatProperties
  <2>3. \A j \in 1..Len(printed) + Len(Batch(h)) :
           printed'[j] = IF j <= Len(printed) THEN printed[j] ELSE Batch(h)[j - Len(printed)]
    BY <2>1, ConcatProperties
  <2> QED BY <1>8, <2>2, <2>3
<1>10. Len(printed) \in Nat
  BY <1>3, LenProperties
<1>11. Contiguous'
  <2>1. Len(printed) <= highest_acked
    BY <1>3, <1>10 DEF Contiguous
  <2>2. highest_acked' <= 0 => printed' = <<>>
    <3>1. highest_acked' <= 0 => Len(printed') = 0
      BY <1>3, <1>5, <1>6, <1>9, <1>10, <2>1
    <3> QED BY <1>9, <3>1, EmptySeq, Zenon
  <2>3. highest_acked' > 0 => Len(printed') \in 1..highest_acked'
    <3>1. highest_acked > 0 => Len(printed) >= 1
      BY <1>3, <1>10 DEF Contiguous
    <3> QED BY <1>3, <1>5, <1>6, <1>9, <1>10, <2>1, <3>1
  <2>4. ASSUME NEW j \in 1..Len(printed')
        PROVE  printed'[j] = highest_acked' - Len(printed') + j
    <3>1. CASE j <= Len(printed)
      <4>1. j \in 1..Len(printed)
        BY <1>10, <3>1
      <4>2. printed[j] = highest_acked - Len(printed) + j
        BY <1>3, <4>1 DEF Contiguous
      <4> QED BY <1>3, <1>5, <1>6, <1>9, <1>10, <3>1, <4>1, <4>2
    <3>2. CASE j > Len(printed)
      <4>1. j - Len(printed) \in 1..(h - highest_acked)
        BY <1>3, <1>5, <1>9, <1>10, <3>2
      <4>2. printed'[j] = highest_acked + (j - Len(printed))
        BY <1>8, <1>9, <1>10, <3>2, <4>1
      <4> QED BY <1>3, <1>5, <1>6, <1>9, <1>10, <4>1, <4>2
    <3> QED BY <1>10, <3>1, <3>2
  <2> QED BY <2>2, <2>3, <2>4 DEF Contiguous
<1>12. s_to_r' \in Seq(DataPackets(syn_number - 1) \cup {Mangled})
  BY PacketRead
<1>13. /\ window_packets' \subseteq 1..syn_number - 1
       /\ highest_acked' \in highest_acked..syn_number - 1
       /\ highest_acked' # None
  <2>1. window_packets' \subseteq win
    BY <1>1
  <2>2. highest_acked' \in highest_acked..syn_number - 1 /\ highest_acked' # None
    BY <1>3, <1>5, <1>6 DEF None
  <2> QED BY <1>3, <2>1, <2>2
<1> QED BY <1>3, <1>7, <1>9, <1>11, <1>12, <1>13, ReceiverParts

-----------------------------------------------------------------------------
(* No step breaks the invariant.                                           *)
LEMMA NextPreserves == IInv /\ [Next]_vars => IInv'
<1> SUFFICES ASSUME IInv, [Next]_vars PROVE IInv'
  OBVIOUS
<1>1. CASE SenderStep
  <2>1. CASE SendChunk
    BY <1>1, <2>1, SendChunkPreserves DEF SenderStep
  <2>2. CASE InputEnds
    BY <1>1, <2>2, InputEndsPreserves DEF SenderStep
  <2>3. CASE \E i \in Arrivals(r_to_s, Backward) : HandleResponse(i)
    BY <1>1, <2>3, HandleResponsePreserves DEF SenderStep
  <2>4. CASE \E k \in packets_in_flight : ResendTimeout(k)
    BY <1>1, <2>4, ResendTimeoutPreserves DEF SenderStep
  <2> QED BY <1>1, <2>1, <2>2, <2>3, <2>4 DEF SenderStep, SenderNext
<1>2. CASE ReceiverStep
  <2>1. PICK i \in Arrivals(s_to_r, Forward) : HandlePacket(i)
    BY <1>2 DEF ReceiverStep, ReceiverNext
  <2>2. UNCHANGED senderVars /\ s_to_r' = RemoveAt(s_to_r, i)
    BY <1>2, <2>1 DEF ReceiverStep, HandlePacket
  <2>3. CASE RejectMangled(s_to_r[i])
    BY <2>2, <2>3, RejectMangledPreserves
  <2>4. CASE IgnoreKnown(s_to_r[i])
    BY <2>2, <2>4, IgnoreKnownPreserves
  <2>5. CASE KeepSilently(s_to_r[i])
    BY <2>2, <2>5, KeepSilentlyPreserves
  <2>6. CASE AcceptFirst(s_to_r[i])
    BY <2>2, <2>6, AcceptFirstPreserves
  <2>7. CASE Accept(s_to_r[i])
    BY <2>2, <2>7, AcceptPreserves
  <2> QED BY <2>1, <2>3, <2>4, <2>5, <2>6, <2>7 DEF HandlePacket
<1>3. CASE UNCHANGED vars
  BY <1>3 DEF vars, networkVars, senderVars, receiverVars, IInv, TypeOK, WiresSound,
       SenderSound, ReceiverSound, Contiguous, NoPacketForgotten, WindowRespected
<1> QED BY <1>1, <1>2, <1>3 DEF Next, Idle

(* The invariant holds in every state of every transfer.                   *)
THEOREM Invariance == Spec => []IInv
<1> QED BY InitEstablishes, NextPreserves, PTL DEF Spec

(* The variables of the processes and the wires keep their types.          *)
THEOREM TypeCorrect == Spec => []TypeOK
<1>1. IInv => TypeOK
  BY DEF IInv
<1> QED BY <1>1, Invariance, PTL

(* On any network the receiver prints consecutive chunks, each once, up to *)
(* the one it has acked.                                                   *)
THEOREM PrintsConsecutiveChunks == Spec => []Contiguous
<1>1. IInv => Contiguous
  BY DEF IInv
<1> QED BY <1>1, Invariance, PTL

(* On any network a packet leaves the sender's window only once the        *)
(* receiver has acked it or a later one.                                   *)
THEOREM ForgetsNoPacket == Spec => []NoPacketForgotten
<1>1. IInv => NoPacketForgotten
  BY DEF IInv
<1> QED BY <1>1, Invariance, PTL

(* The sender keeps to its window.                                         *)
THEOREM KeepsToWindow == Spec => []WindowRespected
<1>1. IInv => WindowRespected
  BY DEF IInv
<1> QED BY <1>1, Invariance, PTL

(* Once 3700send has exited, the last chunk has been printed.              *)
THEOREM ExitsOnlyWhenDelivered == Spec => []DoneMeansDelivered
<1>1. IInv => DoneMeansDelivered
  <2> SUFFICES ASSUME IInv, ~running, N > 0
               PROVE  printed # <<>> /\ Last(printed) = N
    BY DEF DoneMeansDelivered
  <2>1. syn_number = N + 1 /\ packets_in_flight = {}
    BY DEF IInv, SenderSound
  <2>2. highest_acked = N
    <3>1. N \in 1..syn_number - 1 /\ N \notin packets_in_flight
      BY <2>1, NAssumption
    <3>2. N <= highest_acked
      BY <3>1 DEF IInv, NoPacketForgotten
    <3> QED BY <3>2, NAssumption DEF IInv, TypeOK
  <2>3. Len(printed) \in 1..N
    BY <2>2, NAssumption DEF IInv, Contiguous
  <2>4. printed[Len(printed)] = N
    BY <2>2, <2>3, NAssumption DEF IInv, Contiguous
  <2>5. printed # <<>>
    BY <2>3, EmptySeq
  <2> QED BY <2>4, <2>5 DEF Last
<1> QED BY <1>1, Invariance, PTL

(* What the sender sends stays within a window of what is acked.           *)
THEOREM StaysInReach == Spec => []SenderInReach
<1>1. IInv => SenderInReach
  <2> SUFFICES ASSUME IInv PROVE SenderInReach
    OBVIOUS
  <2> DEFINE acked == IF highest_acked > 0 THEN highest_acked ELSE 0
             Unacked == acked + 1 .. syn_number - 1
  <2>1. syn_number \in 1..N + 1 /\ highest_acked \in -1..N /\ acked \in Nat
    BY NAssumption DEF IInv, TypeOK
  <2>2. Unacked \in SUBSET packets_in_flight
    BY <2>1 DEF IInv, NoPacketForgotten
  <2>3. Cardinality(Unacked) <= WindowSize
    <3>1. Cardinality(Unacked) <= Cardinality(packets_in_flight)
      BY <2>2, InFlightFinite, FS_Subset
    <3>2. Cardinality(Unacked) \in Nat
      BY <2>2, InFlightFinite, FS_Subset, FS_CardinalityType
    <3> QED BY <3>1, <3>2, InFlightFinite, WindowAssumption DEF IInv, WindowRespected
  <2>4. Cardinality(Unacked) = IF acked + 1 > syn_number - 1 THEN 0 ELSE syn_number - 1 - acked
    <3> DEFINE a == acked + 1
               b == syn_number - 1
    <3>1. a \in Int /\ b \in Int /\ b - a + 1 = syn_number - 1 - acked
      BY <2>1
    <3> HIDE DEF a, b
    <3>2. Cardinality(a..b) = IF a > b THEN 0 ELSE b - a + 1
      BY <3>1, FS_Interval
    <3> QED BY <3>1, <3>2 DEF a, b
  <2> HIDE DEF Unacked
  <2>5. syn_number - 1 <= WindowSize + acked
    BY <2>1, <2>3, <2>4, WindowAssumption
  <2> QED BY <2>5 DEF SenderInReach
<1> QED BY <1>1, Invariance, PTL

(* The receiver's window has room for the packet it waits for, although it *)
(* is never cleared of the packets below the last ack.                     *)
THEOREM HasRoomForNext == Spec => []RoomForNext
<1>1. IInv /\ SenderInReach => RoomForNext
  <2> SUFFICES ASSUME IInv, SenderInReach PROVE RoomForNext
    OBVIOUS
  <2> DEFINE beyond == {k \in window_packets : k > highest_acked + 1}
             acked == IF highest_acked > 0 THEN highest_acked ELSE 0
  <2>1. /\ highest_acked \in -1..N /\ syn_number \in 1..N + 1
        /\ window_packets \subseteq 1..syn_number - 1
        /\ acked \in Nat
    BY NAssumption DEF IInv, TypeOK, ReceiverSound
  <2>2. CASE highest_acked = None
    <3>1. beyond = {}
      BY <2>2 DEF IInv, ReceiverSound
    <3> HIDE DEF beyond
    <3>2. Cardinality(beyond) < WindowSize
      BY <3>1, FS_EmptySet, WindowAssumption
    <3> QED BY <3>2 DEF RoomForNext, beyond
  <2>3. CASE highest_acked # None
    <3> DEFINE a == acked + 2
               b == acked + WindowSize
    <3>1. acked = highest_acked
      BY <2>1, <2>3, NAssumption DEF None
    <3>2. syn_number - 1 <= b
      BY <2>1, WindowAssumption DEF SenderInReach
    <3>3. beyond \in SUBSET (a..b)
      <4> SUFFICES ASSUME NEW k \in beyond PROVE k \in a..b
        OBVIOUS
      <4>1. k \in 1..syn_number - 1 /\ k > highest_acked + 1
        BY <2>1
      <4>2. k \in Int /\ k >= a /\ k <= b
        <5> HIDE DEF beyond
        <5> QED BY <2>1, <3>1, <3>2, <4>1, WindowAssumption, NAssumption
      <4> QED BY <2>1, <4>2, WindowAssumption
    <3>4. a \in Int /\ b \in Int /\ b - a + 1 = WindowSize - 1
      BY <2>1, WindowAssumption
    <3> HIDE DEF a, b, beyond
    <3>5. IsFiniteSet(a..b) /\ Cardinality(a..b) = IF a > b THEN 0 ELSE b - a + 1
      BY <3>4, FS_Interval
    <3>6. Cardinality(beyond) <= Cardinality(a..b) /\ Cardinality(beyond) \in Nat
      BY <3>3, <3>5, FS_Subset, FS_CardinalityType
    <3>7. Cardinality(beyond) < WindowSize
      BY <3>4, <3>5, <3>6, WindowAssumption
    <3> QED BY <3>7 DEF RoomForNext, beyond
  <2> QED BY <2>2, <2>3
<1> QED BY <1>1, Invariance, StaysInReach, PTL

(* No response, late, repeated or reporting an error, takes an ack back.   *)
THEOREM AcksOnlyGrow == Spec => AcksNeverRetreat
<1>1. IInv /\ [Next]_vars => [highest_acked' >= highest_acked /\ ack_number' >= ack_number]_vars
  <2> SUFFICES ASSUME IInv, Next
               PROVE  highest_acked' >= highest_acked /\ ack_number' >= ack_number
    OBVIOUS
  <2>1. highest_acked \in -1..N /\ ack_number \in 1..N + 1 /\ syn_number \in 1..N + 1
    BY NAssumption DEF IInv, TypeOK
  <2>2. CASE UNCHANGED <<highest_acked, ack_number>>
    BY <2>1, <2>2
  <2>3. CASE SenderStep
    <3>1. highest_acked' = highest_acked
      BY <2>3 DEF SenderStep, receiverVars
    <3>2. ASSUME NEW i \in Arrivals(r_to_s, Backward), HandleResponse(i)
          PROVE  ack_number' >= ack_number
      <4> DEFINE m == r_to_s[i]
      <4>1. ack_number' = NewAck(m)
        BY <3>2 DEF HandleResponse
      <4> HIDE DEF m
      <4>2. \A k \in packets_in_flight : k \in Int /\ k >= ack_number
        BY <2>1 DEF IInv, SenderSound
      <4> QED BY <2>1, <4>1, <4>2 DEF NewAck, AcksPacket, Matches
    <3>3. CASE UNCHANGED ack_number
      BY <2>1, <3>1, <3>3
    <3> QED BY <2>1, <2>3, <3>1, <3>2, <3>3
            DEF SenderStep, SenderNext, SendChunk, InputEnds, ResendTimeout, senderVars
  <2>4. CASE ReceiverStep
    <3>1. ack_number' = ack_number
      BY <2>4 DEF ReceiverStep, senderVars
    <3>2. PICK i \in Arrivals(s_to_r, Forward) : HandlePacket(i)
      BY <2>4 DEF ReceiverStep, ReceiverNext
    <3>3. CASE RejectMangled(s_to_r[i])
      BY <2>1, <3>1, <3>3 DEF RejectMangled, Respond, ErrorAck, ErrorNumber, None
    <3>4. CASE IgnoreKnown(s_to_r[i]) \/ KeepSilently(s_to_r[i])
      BY <2>1, <3>1, <3>4 DEF IgnoreKnown, KeepSilently, receiverVars
    <3>5. CASE AcceptFirst(s_to_r[i])
      <4>1. highest_acked' = highest_received_syn' /\ highest_acked = -1
        BY <3>5 DEF AcceptFirst, Respond, Ack, None
      <4>2. highest_received_syn' \in -1..N
        BY <3>5, InsertFacts DEF AcceptFirst
      <4> QED BY <2>1, <3>1, <4>1, <4>2
    <3>6. CASE Accept(s_to_r[i])
      <4>1. PICK h \in highest_acked..N : Respond(Ack(h))
        BY <3>6 DEF Accept
      <4>2. highest_acked' = h
        BY <4>1 DEF Respond, Ack
      <4> QED BY <2>1, <3>1, <4>1, <4>2
    <3> QED BY <3>2, <3>3, <3>4, <3>5, <3>6 DEF HandlePacket
  <2> QED BY <2>2, <2>3, <2>4 DEF Next, Idle, vars, senderVars, receiverVars
<1> QED BY <1>1, Invariance, PTL DEF Spec, AcksNeverRetreat

-----------------------------------------------------------------------------
(* TCPTransfer implements ReliableTransfer, the output beginning anywhere. *)

IsRun == /\ highest_acked \in 1..N
         /\ Len(printed) \in 1..highest_acked
         /\ printed = FromSome!Run(highest_acked - Len(printed) + 1, highest_acked)

(* What is printed is one run, and highest_acked its end.                  *)
LEMMA PrintedIsRun == IInv /\ printed # <<>> => IsRun
<1> SUFFICES ASSUME IInv, printed # <<>> PROVE IsRun
  OBVIOUS
<1>1. highest_acked \in -1..N /\ printed \in Seq(1..N) /\ Contiguous
  BY DEF IInv, TypeOK
<1>2. highest_acked > 0 /\ Len(printed) \in 1..highest_acked
  BY <1>1 DEF Contiguous
<1>3. /\ DOMAIN printed = 1..Len(printed)
      /\ printed \in [1..Len(printed) -> 1..N]
      /\ Len(printed) \in Nat
  BY <1>1, LenProperties
<1>4. highest_acked \in Nat
  BY <1>1, <1>2, NAssumption
<1>5. highest_acked - (highest_acked - Len(printed) + 1) + 1 = Len(printed)
  BY <1>3, <1>4
<1>6. \A i \in 1..Len(printed) :
        printed[i] = (highest_acked - Len(printed) + 1) + i - 1
  BY <1>1, <1>3, <1>4 DEF Contiguous
<1>7. printed = [i \in 1..Len(printed) |-> (highest_acked - Len(printed) + 1) + i - 1]
  BY <1>3, <1>6
<1> QED BY <1>1, <1>2, <1>5, <1>7, NAssumption DEF IsRun, FromSome!Run

(* A packet that is accepted makes the output grow with highest_acked.      *)
LEMMA AcceptPrints ==
    ASSUME IInv, NEW i, Accept(s_to_r[i])
    PROVE  /\ highest_acked \in 0..N /\ highest_acked' \in highest_acked..N
           /\ Len(printed') = Len(printed) + (highest_acked' - highest_acked)
           /\ highest_acked' = highest_acked => printed' = printed
<1>1. PICK h \in highest_acked..N :
        /\ printed' = printed \o [j \in 1..(h - highest_acked) |-> highest_acked + j]
        /\ Respond(Ack(h))
  BY DEF Accept
<1>2. /\ printed \in Seq(1..N) /\ Len(printed) \in Nat
      /\ highest_acked' = h /\ highest_acked \in 0..N
  BY <1>1, NAssumption, LenProperties DEF IInv, TypeOK, Accept, Respond, Ack, None
<1> DEFINE n == h - highest_acked
           batch == [j \in 1..n |-> highest_acked + j]
<1>3. n \in Nat /\ \A j \in 1..n : highest_acked + j \in 1..N
  BY <1>1, <1>2, NAssumption
<1>4. batch \in Seq(1..N) /\ Len(batch) = n
  BY <1>2, <1>3, RunType
<1>5. printed' = printed \o batch
  BY <1>1
<1> HIDE DEF batch
<1>6. Len(printed') = Len(printed) + n
  BY <1>2, <1>4, <1>5, ConcatProperties
<1>7. n = 0 => printed' = printed
  <2>1. n = 0 => batch = <<>>
    BY <1>4, EmptySeq
  <2> QED BY <1>2, <1>5, <2>1, ConcatEmptySeq
<1> QED BY <1>1, <1>2, <1>6, <1>7

(* The output grows by as many chunks as highest_acked, or it was empty.   *)
LEMMA PrintedGrows ==
    ASSUME IInv, IInv', ReceiverStep, printed' # printed
    PROVE  /\ printed' # <<>>
           /\ Len(printed') > Len(printed)
           /\ printed # <<>> => highest_acked' - highest_acked = Len(printed') - Len(printed)
<1>1. PICK i \in Arrivals(s_to_r, Forward) : HandlePacket(i)
  BY DEF ReceiverStep, ReceiverNext
<1>2. printed \in Seq(1..N) /\ Len(printed) \in Nat /\ highest_acked \in -1..N
  BY LenProperties DEF IInv, TypeOK
<1>3. printed' \in Seq(1..N) /\ Len(printed') \in Nat /\ Contiguous' /\ highest_acked' \in -1..N
  BY LenProperties DEF IInv, TypeOK
<1>4. CASE AcceptFirst(s_to_r[i])
  <2>1. printed = <<>>
    BY <1>4 DEF AcceptFirst, IInv, Contiguous, None
  <2>2. printed' # <<>>
    BY <2>1
  <2>3. Len(printed) = 0 /\ Len(printed') # 0
    BY <1>3, <2>1, <2>2, EmptySeq
  <2> QED BY <1>3, <2>1, <2>2, <2>3
<1>5. CASE Accept(s_to_r[i])
  <2>1. /\ highest_acked' \in highest_acked..N /\ highest_acked' # highest_acked
        /\ Len(printed') = Len(printed) + (highest_acked' - highest_acked)
    BY <1>5, AcceptPrints
  <2>2. Len(printed') > Len(printed)
    BY <1>2, <2>1
  <2>3. printed' # <<>>
    BY <1>2, <1>3, <2>2, EmptySeq
  <2> QED BY <1>2, <2>1, <2>2, <2>3
<1>6. CASE UNCHANGED printed
  BY <1>6
<1> QED BY <1>1, <1>4, <1>5, <1>6 DEF HandlePacket, RejectMangled, IgnoreKnown,
           KeepSilently, receiverVars

(* A step of the transfer delivers some more chunks, finishes, or does      *)
(* nothing to the output.                                                  *)
LEMMA StepCopies ==
    IInv /\ IInv' /\ [Next]_vars => [FromSome!Next]_<<printed, ~running>>
<1>a. (IInv /\ printed # <<>> => IsRun)'
  BY PrintedIsRun, PTL
<1> SUFFICES ASSUME IInv, IInv', [Next]_vars,
                    ~(UNCHANGED <<printed, ~running>>)
             PROVE  FromSome!Next
  OBVIOUS
<1>1. CASE SenderStep
  <2>1. printed' = printed
    BY <1>1 DEF SenderStep, receiverVars
  <2>2. running /\ ~running'
    BY <1>1, <2>1 DEF SenderStep, SenderNext, SendChunk, InputEnds, InputSelected,
         HandleResponse, ResendTimeout, senderVars
  <2>3. N = 0 \/ (printed # <<>> /\ printed[Len(printed)] = N)
    <3>1. CASE N > 0
      <4>1. syn_number' = N + 1 /\ packets_in_flight' = {}
        BY <2>2 DEF IInv, SenderSound
      <4>2. N <= highest_acked'
        <5>1. N \in 1..syn_number' - 1
          BY <3>1, <4>1, NAssumption
        <5> QED BY <4>1, <5>1 DEF IInv, NoPacketForgotten
      <4>3. highest_acked' = N
        BY <4>2, NAssumption DEF IInv, TypeOK
      <4>4. highest_acked = N
        BY <1>1, <4>3 DEF SenderStep, receiverVars
      <4>5. Len(printed) \in 1..N
        BY <3>1, <4>4 DEF IInv, Contiguous
      <4>6. printed[Len(printed)] = N
        BY <4>4, <4>5, NAssumption DEF IInv, Contiguous
      <4>7. printed # <<>>
        BY <4>5, EmptySeq
      <4> QED BY <4>6, <4>7
    <3>2. CASE ~(N > 0)
      BY <3>2, NAssumption
    <3> QED BY <3>1, <3>2
  <2> QED BY <2>1, <2>2, <2>3 DEF FromSome!Next, FromSome!Finish
<1>2. CASE ReceiverStep
  <2>1. running' = running /\ printed' # printed
    BY <1>2 DEF ReceiverStep, senderVars
  <2> DEFINE first == highest_acked' - Len(printed') + 1
             last == highest_acked'
  <2>2. /\ printed' # <<>> /\ Len(printed') > Len(printed)
        /\ printed # <<>> => highest_acked' - highest_acked = Len(printed') - Len(printed)
    BY <1>2, <2>1, PrintedGrows
  <2>3. /\ last \in 1..N /\ Len(printed') \in 1..last
        /\ printed' = FromSome!Run(first, last)
    BY <1>a, <2>2 DEF IsRun
  <2>4. first \in 1..N /\ last \in first..N /\ last - first + 1 = Len(printed')
    BY <2>3, NAssumption
  <2>5. Len(printed) \in Nat
    BY LenProperties DEF IInv, TypeOK
  <2>6. printed \in {<<>>} \cup {FromSome!Run(first, l) : l \in first..N}
    <3>1. CASE printed # <<>>
      <4>1. /\ highest_acked \in 1..N /\ Len(printed) \in 1..highest_acked
            /\ printed = FromSome!Run(highest_acked - Len(printed) + 1, highest_acked)
        BY <3>1, PrintedIsRun DEF IsRun
      <4>2. highest_acked - Len(printed) + 1 = first /\ highest_acked \in first..N
        BY <2>2, <2>3, <2>5, <3>1, <4>1, NAssumption
      <4> QED BY <4>1, <4>2
    <3> QED BY <3>1
  <2>7. Len(printed) < last - first + 1
    BY <2>2, <2>4
  <2>8. printed' = FromSome!Run(first, last) /\ (~running)' = ~running
    BY <2>1, <2>3
  <2> HIDE DEF first, last
  <2> QED BY <2>4, <2>6, <2>7, <2>8 DEF FromSome!Next, FromSome!Deliver
<1>3. CASE UNCHANGED vars
  BY <1>3 DEF vars, senderVars, receiverVars
<1> QED BY <1>1, <1>2, <1>3 DEF Next, Idle

(* On any network a transfer is the copy of a tail of the input, and the   *)
(* sender exits only when the copy has reached the last chunk.             *)
THEOREM CopiesATail == Spec => TailCopy
<1>1. Init => FromSome!Init
  BY DEF Init, SenderInit, ReceiverInit, FromSome!Init
<1> QED BY <1>1, StepCopies, Invariance, PTL DEF Spec, TailCopy, FromSome!Spec

-----------------------------------------------------------------------------
(* On a network that neither loses nor reorders what is sent to the        *)
(* receiver, the output begins with the first chunk.                       *)

OrderedForward == Forward \notin Drop /\ Forward \notin Jitter /\ BufferSize > 0

(* Until the receiver has responded, the packet it reads next is the first *)
(* one, or mangled; from then on it has printed all it has acked.          *)
FromTheFirst ==
    /\ highest_acked = None =>
          IF s_to_r = <<>> THEN syn_number = 1 ELSE s_to_r[1] \in {Data(1), Mangled}
    /\ highest_acked > 0 => Len(printed) = highest_acked

(* What is sent ends up behind the packet that is read next.               *)
LEMMA SentBehind ==
    ASSUME OrderedForward, IInv, NEW m, SendForward(m)
    PROVE  /\ s_to_r' # <<>>
           /\ s_to_r # <<>> => s_to_r'[1] = s_to_r[1]
           /\ s_to_r = <<>> => s_to_r'[1] \in {m, Mangled}
<1>1. PICK fate \in Fates(m, Forward) : s_to_r' = DropTail(s_to_r \o fate)
  BY DEF SendForward, Enqueue
<1>2. PICK c \in {m, Mangled} : fate = <<c>> \/ fate = <<c, c>>
  <2>1. \A c \in Copies(m, Forward) : c \in {m, Mangled}
    BY DEF Copies
  <2>2. \E c \in Copies(m, Forward) : fate = <<c>> \/ fate = <<c, c>>
    <3>1. {<<>> : p \in Drop \cap {Forward}} = {}
      BY DEF OrderedForward
    <3>2. CASE Forward \in Duplicate
      BY <3>1, <3>2, Zenon DEF Fates
    <3>3. CASE Forward \notin Duplicate
      BY <3>1, <3>3, Zenon DEF Fates
    <3> QED BY <3>2, <3>3
  <2> QED BY <2>1, <2>2
<1> DEFINE S == DataPackets(N) \cup {Mangled, m}
           wire == s_to_r \o fate
<1>3. s_to_r \in Seq(S) /\ Len(s_to_r) \in Nat
  <2>1. s_to_r \in Seq(DataPackets(N) \cup {Mangled})
    BY DEF IInv, TypeOK
  <2>2. DataPackets(N) \cup {Mangled} \subseteq S
    OBVIOUS
  <2>3. s_to_r \in Seq(S)
    BY <2>1, <2>2, SeqMonotonic
  <2> QED BY <2>3, LenProperties
<1>4. fate \in Seq(S) /\ Len(fate) \in {1, 2} /\ fate[1] = c
  BY <1>2
<1> HIDE DEF S
<1>5. /\ wire \in Seq(S) /\ Len(wire) = Len(s_to_r) + Len(fate)
      /\ \A j \in 1..Len(s_to_r) + Len(fate) :
            wire[j] = IF j <= Len(s_to_r) THEN s_to_r[j] ELSE fate[j - Len(s_to_r)]
  BY <1>3, <1>4, ConcatProperties
<1>6. wire[1] = IF s_to_r # <<>> THEN s_to_r[1] ELSE c
  <2>1. CASE s_to_r = <<>>
    <3>1. Len(s_to_r) = 0
      BY <2>1
    <3> QED BY <1>4, <1>5, <2>1, <3>1
  <2>2. CASE s_to_r # <<>>
    <3>1. Len(s_to_r) >= 1
      BY <1>3, <2>2, EmptySeq
    <3> QED BY <1>3, <1>4, <1>5, <2>2, <3>1
  <2> QED BY <2>1, <2>2
<1>7. Len(wire) >= 1 /\ Len(wire) \in Nat
  BY <1>3, <1>4, <1>5
<1> HIDE DEF wire
<1>8. DropTail(wire) # <<>> /\ DropTail(wire)[1] = wire[1]
  <2>1. CASE Len(wire) <= BufferSize
    BY <1>5, <1>7, <2>1, EmptySeq DEF DropTail
  <2>2. CASE ~(Len(wire) <= BufferSize)
    <3>1. BufferSize \in Nat /\ BufferSize >= 1 /\ BufferSize <= Len(wire)
      BY <1>7, <2>2, BoundAssumption DEF OrderedForward
    <3>2. \A j \in 1..BufferSize : wire[j] \in S
      BY <1>5, <1>7, <3>1, ElementOfSeq
    <3>3. /\ SubSeq(wire, 1, BufferSize) \in Seq(S)
          /\ Len(SubSeq(wire, 1, BufferSize)) = BufferSize
          /\ SubSeq(wire, 1, BufferSize)[1] = wire[1]
      BY <1>5, <3>1, <3>2, SubSeqProperties
    <3>4. SubSeq(wire, 1, BufferSize) # <<>>
      BY <3>1, <3>3, EmptySeq
    <3> QED BY <2>2, <3>3, <3>4 DEF DropTail
  <2> QED BY <2>1, <2>2
<1> QED BY <1>1, <1>2, <1>6, <1>8 DEF wire

(* The sender does not send around the packet the receiver reads first.    *)
LEMMA SenderKeepsFirst ==
    ASSUME OrderedForward, IInv, FromTheFirst, SenderStep
    PROVE  FromTheFirst'
<1>1. UNCHANGED <<highest_acked, printed>>
  BY DEF SenderStep, receiverVars
<1>2. SUFFICES ASSUME highest_acked = None
               PROVE  IF s_to_r' = <<>> THEN syn_number' = 1
                                        ELSE s_to_r'[1] \in {Data(1), Mangled}
  BY <1>1 DEF FromTheFirst
<1>3. IF s_to_r = <<>> THEN syn_number = 1 ELSE s_to_r[1] \in {Data(1), Mangled}
  BY <1>2 DEF FromTheFirst
<1>4. ASSUME packets_in_flight # {} PROVE s_to_r # <<>>
  <2>1. PICK k : k \in packets_in_flight
    BY <1>4
  <2>2. /\ k \in ack_number .. syn_number - 1
        /\ ack_number \in 1..N + 1 /\ syn_number \in 1..N + 1
    BY <2>1 DEF IInv, SenderSound, TypeOK
  <2>3. syn_number # 1
    BY <2>2, NAssumption
  <2> QED BY <1>3, <2>3
<1>5. CASE SendChunk
  BY <1>3, <1>5, SentBehind DEF SendChunk
<1>6. CASE InputEnds
  BY <1>3, <1>6 DEF InputEnds, networkVars
<1>7. ASSUME NEW i \in Arrivals(r_to_s, Backward), HandleResponse(i)
      PROVE  IF s_to_r' = <<>> THEN syn_number' = 1
                               ELSE s_to_r'[1] \in {Data(1), Mangled}
  <2>1. syn_number' = syn_number
    BY <1>7 DEF HandleResponse
  <2>2. CASE Resent(r_to_s[i]) = {}
    BY <1>3, <1>7, <2>1, <2>2 DEF HandleResponse
  <2>3. CASE Resent(r_to_s[i]) # {}
    <3>1. SendForward(Data(ack_number)) /\ packets_in_flight # {}
      BY <1>7, <2>3 DEF HandleResponse, Resent
    <3> QED BY <1>3, <1>4, <3>1, SentBehind
  <2> QED BY <2>2, <2>3
<1>8. ASSUME NEW k \in packets_in_flight, ResendTimeout(k)
      PROVE  s_to_r' # <<>> /\ s_to_r'[1] \in {Data(1), Mangled}
  BY <1>3, <1>4, <1>8, SentBehind DEF ResendTimeout
<1> QED BY <1>5, <1>6, <1>7, <1>8 DEF SenderStep, SenderNext

(* The receiver starts with chunk 1, or with a report of an error.         *)
LEMMA ReceiverKeepsFirst ==
    ASSUME OrderedForward, IInv, FromTheFirst, ReceiverStep
    PROVE  FromTheFirst'
<1>1. PICK i \in Arrivals(s_to_r, Forward) : HandlePacket(i)
  BY DEF ReceiverStep, ReceiverNext
<1>2. i = 1 /\ s_to_r # <<>>
  BY <1>1 DEF OrderedForward, Arrivals
<1>3. /\ highest_acked \in -1..N /\ printed \in Seq(1..N) /\ Contiguous
      /\ highest_acked = None => window_packets = {}
      /\ highest_acked > 0 => Len(printed) = highest_acked
  BY DEF IInv, TypeOK, ReceiverSound, FromTheFirst
<1>4. CASE RejectMangled(s_to_r[i])
  BY <1>3, <1>4 DEF RejectMangled, Respond, ErrorAck, ErrorNumber, None, FromTheFirst
<1>5. CASE IgnoreKnown(s_to_r[i])
  <2>1. highest_acked # None
    BY <1>3, <1>5 DEF IgnoreKnown
  <2> QED BY <1>3, <1>5, <2>1 DEF IgnoreKnown, receiverVars, FromTheFirst
<1>6. CASE KeepSilently(s_to_r[i])
  <2>1. highest_acked # None
    BY <1>6 DEF KeepSilently, Ackable
  <2> QED BY <1>3, <1>6, <2>1 DEF KeepSilently, FromTheFirst
<1>7. CASE AcceptFirst(s_to_r[i])
  <2>1. highest_acked = None /\ Insert(s_to_r[i])
    BY <1>7 DEF AcceptFirst
  <2>2. s_to_r[i] = Data(1)
    BY <1>2, <2>1 DEF FromTheFirst, Insert
  <2>3. window_packets = {} /\ printed = <<>> /\ s_to_r[i].seq = 1
    BY <1>3, <2>1, <2>2 DEF Contiguous, None, Data
  <2>4. highest_received_syn' = 1 /\ highest_acked' = 1
    BY <1>7, <2>1, <2>3 DEF Insert, AcceptFirst, Respond, Ack
  <2>5. printed' = <<1>>
    <3>1. printed' = printed \o Ascending(window_packets \cup {s_to_r[i].seq})
      BY <1>7 DEF AcceptFirst
    <3>2. window_packets \cup {s_to_r[i].seq} = {1}
      BY <2>3
    <3>3. printed' = <<>> \o <<1>>
      BY <2>3, <3>1, <3>2, AscendingOne
    <3>4. <<1>> \in Seq({1})
      OBVIOUS
    <3> QED BY <3>3, <3>4, ConcatEmptySeq
  <2> QED BY <2>4, <2>5 DEF FromTheFirst, None
<1>8. CASE Accept(s_to_r[i])
  <2>1. /\ highest_acked \in 0..N /\ highest_acked' \in highest_acked..N
        /\ Len(printed') = Len(printed) + (highest_acked' - highest_acked)
    BY <1>8, AcceptPrints
  <2>2. Len(printed) = highest_acked
    <3>1. highest_acked = 0 => printed = <<>>
      BY <1>3 DEF Contiguous
    <3> QED BY <1>3, <2>1, <3>1
  <2>3. highest_acked' \in 0..N /\ Len(printed') = highest_acked'
    <3>1. /\ highest_acked \in Int /\ highest_acked >= 0
          /\ highest_acked' \in Int /\ highest_acked' >= highest_acked /\ highest_acked' <= N
      BY <2>1, NAssumption
    <3>2. Len(printed') = highest_acked + (highest_acked' - highest_acked)
      BY <2>1, <2>2
    <3>3. \A a, b \in Int : a + (b - a) = b
      OBVIOUS
    <3>4. highest_acked' \in 0..N
      BY <3>1, NAssumption
    <3> QED BY <3>1, <3>2, <3>3, <3>4
  <2>4. highest_acked' # None
    BY <2>3, NAssumption DEF None
  <2> QED BY <2>3, <2>4 DEF FromTheFirst
<1> QED BY <1>1, <1>4, <1>5, <1>6, <1>7, <1>8 DEF HandlePacket

(* Where no packet to the receiver is lost or overtaken, a transfer is a   *)
(* faithful copy, whatever happens to the answers, however packets are     *)
(* damaged, and whenever they time out.                                    *)
THEOREM CopiesFaithfully == OrderedForward => (Spec => FaithfulCopy)
<1> SUFFICES ASSUME OrderedForward PROVE Spec => FaithfulCopy
  OBVIOUS
<1>1. Init => FromTheFirst
  BY DEF Init, NetworkInit, SenderInit, ReceiverInit, DEFAULT_SYN_STARTING_NUMBER,
         None, FromTheFirst
<1>2. IInv /\ FromTheFirst /\ [Next]_vars => FromTheFirst'
  <2>1. UNCHANGED vars /\ FromTheFirst => FromTheFirst'
    BY DEF vars, networkVars, senderVars, receiverVars, FromTheFirst
  <2> QED BY <2>1, SenderKeepsFirst, ReceiverKeepsFirst DEF Next, Idle
<1>3. Init => Reliable!Init
  BY DEF Init, SenderInit, ReceiverInit, Reliable!Init
<1>4. IInv' /\ FromTheFirst' /\ [FromSome!Next]_<<printed, ~running>>
        => [Reliable!Next]_<<printed, ~running>>
  <2> SUFFICES ASSUME IInv', FromTheFirst', FromSome!Next
               PROVE  Reliable!Next
    OBVIOUS
  <2>1. CASE FromSome!Finish
    BY <2>1 DEF FromSome!Finish, Reliable!Finish, Reliable!Next
  <2>2. CASE FromSome!Deliver
    <3>1. PICK first \in 1..N : \E last \in first..N :
             /\ printed \in {<<>>} \cup {FromSome!Run(first, l) : l \in first..N}
             /\ Len(printed) < last - first + 1
             /\ printed' = FromSome!Run(first, last)
             /\ UNCHANGED (~running)
      BY <2>2 DEF FromSome!Deliver
    <3>2. PICK last \in first..N :
             /\ printed \in {<<>>} \cup {FromSome!Run(first, l) : l \in first..N}
             /\ Len(printed) < last - first + 1
             /\ printed' = FromSome!Run(first, last)
             /\ UNCHANGED (~running)
      BY <3>1
    <3>3. last - first + 1 \in Nat /\ last - first + 1 >= 1
      BY NAssumption
    <3>4. Len(printed') = last - first + 1 /\ printed'[1] = first
      <4>1. /\ printed' = [j \in 1..last - first + 1 |-> first + j - 1]
            /\ DOMAIN printed' = 1..last - first + 1
        BY <3>2 DEF FromSome!Run
      <4>2. printed' \in Seq(1..N)
        BY DEF IInv, TypeOK
      <4>3. Len(printed') = last - first + 1
        BY <3>3, <4>1, <4>2, LenProperties
      <4> QED BY <3>3, <4>1, <4>3, NAssumption
    <3>5. highest_acked' > 0
      BY <3>3, <3>4, NAssumption DEF IInv, Contiguous, TypeOK
    <3>6. Len(printed') = highest_acked'
      BY <3>5 DEF FromTheFirst
    <3>7. printed'[1] = highest_acked' - Len(printed') + 1
      BY <3>3, <3>4 DEF IInv, Contiguous
    <3>8. first = 1
      BY <3>3, <3>4, <3>6, <3>7
    <3>9. first \in 1..N \cap {1}
      BY <3>8
    <3>10. /\ printed \in {<<>>} \cup {Reliable!Run(first, l) : l \in first..N}
           /\ printed' = Reliable!Run(first, last)
      BY <3>2 DEF FromSome!Run, Reliable!Run
    <3> QED BY <3>2, <3>9, <3>10 DEF Reliable!Deliver, Reliable!Next
  <2> QED BY <2>1, <2>2 DEF FromSome!Next
<1> QED BY <1>1, <1>2, <1>3, <1>4, StepCopies, Invariance, PTL
        DEF Spec, FaithfulCopy, Reliable!Spec

=============================================================================
