------------------------------ MODULE TCPPacket ------------------------------
(***************************************************************************)
(* The packets of 3700TCP as bytes (3700TCP/networks/packet.py) on the     *)
(* emulator's wires: to_bytes, the bytes overwritten on the way,           *)
(* from_bytes, the checksum, the text.  Who sends what and when is the     *)
(* matter of TCPTransfer; here any packet sent may be sent again.          *)
(*                                                                         *)
(* This is what TCPNetwork abstracts from, and implements it: a packet is  *)
(* read as the one that was sent, or is Mangled.                           *)
(*                                                                         *)
(* A byte is a number below Base.  The checksum is one element of the raw  *)
(* packet; blake2b is taken to give different bytes different digests.     *)
(***************************************************************************)
EXTENDS Integers, Sequences, FiniteSets, FiniteSetsExt, SequencesExt

CONSTANTS
    Base,              \* values of a byte: 256
    IntBytes,          \* bytes of an int field: 4
    ShortBytes,        \* bytes of a short field: 2
    MangledByte,       \* what the emulator overwrites bytes with: 0x58
    MaxMangled,        \* bytes overwritten at most: 5
    MTU,               \* bytes a packet may have in the emulator: 1500
    SENDER_DATA_SIZE,  \* bytes of the input in a packet: 1375
    SyncStart,         \* number of the first packet: 1
    Text,              \* the bytes of the input
    Lead, Trail,       \* the two bytes of a character that is not ASCII
    BufferSize,        \* packets a direction holds
    MaxDamage          \* bound: packets mangled or duplicated in a run

(* The numbers that a field of n bytes can tell apart.                     *)
Power[n \in Nat] == IF n = 0 THEN 1 ELSE Base * Power[n - 1]

(* Mutated form: nothing but ASCII can be decoded.                         *)
DecodesASCII(data) == \A i \in DOMAIN data : data[i] \notin {Lead, Trail}

(* The characters of two bytes are whole: a lead byte and its trailing one.  *)
WholeCharacters(data) ==
    /\ \A i \in DOMAIN data : data[i] = Lead => i + 1 \in DOMAIN data /\ data[i + 1] = Trail
    /\ \A i \in DOMAIN data : data[i] = Trail => i > 1 /\ data[i - 1] = Lead

(* bytes.decode of the data of one packet.                                 *)
Decodes(data) == WholeCharacters(data)

ASSUME ByteAssumption == /\ Base \in Nat \ {0, 1}
                         /\ IntBytes \in Nat \ {0}
                         /\ ShortBytes \in Nat \ {0}
                         /\ 32 <= Power[ShortBytes]
                         /\ MangledByte \in 0 .. Base - 1
(* The input is text, and a chunk of it and its number fit their fields.   *)
ASSUME TextAssumption == /\ Text \in Seq(0 .. Base - 1)
                         /\ Lead \in 0 .. Base - 1
                         /\ Trail \in 0 .. Base - 1
                         /\ Lead # Trail
                         /\ WholeCharacters(Text)
                         /\ SENDER_DATA_SIZE \in Nat \ {0}
                         /\ SENDER_DATA_SIZE < Power[ShortBytes]
                         /\ SyncStart \in Nat \ {0}
                         /\ SyncStart <= Power[IntBytes]
ASSUME WireAssumption == /\ MaxMangled \in Nat
                         /\ MTU \in Nat
                         /\ BufferSize \in Nat
                         /\ MaxDamage \in Nat

VARIABLES
    syn_number,  \* number of the next new packet
    s_to_r,      \* raw packets on their way to the receiver
    r_to_s,      \* raw packets on their way to the sender
    damage,      \* packets mangled or duplicated so far
    printed,     \* what the receiver may print, <<number, data>>
    sender,      \* "running" or "raised"
    receiver     \* "running" or "raised"

wires == <<s_to_r, r_to_s, damage>>
vars == <<syn_number, wires, printed, sender, receiver>>

-----------------------------------------------------------------------------
(* struct: a number as bytes, greatest first, and back.  A number that is  *)
(* too big for its field raises.                                           *)
Bytes(number, width) == [i \in 1..width |-> (number \div Power[width - i]) % Base]
Number(bytes) == FoldLeft(LAMBDA number, b : number * Base + b, 0, bytes)

(* Mutated form: bits that do not fit are cut off.                         *)
FitsAlways(number, width) == TRUE

Fits(number, width) == number < Power[width]

(* TCPFlag: a flag is known by its bit, 1 << value.                        *)
SYNCHRONIZATION == 1
ACKNOWLEDGEMENT == 2
CONNECTION_CLOSE == 8
ERRORS == 16
TCPFlag == {SYNCHRONIZATION, ACKNOWLEDGEMENT, CONNECTION_CLOSE, ERRORS}

pack_flags(flags) == SumSet(flags)
enum_flags(number) == {flag \in TCPFlag : (number \div flag) % 2 = 1}

(* _calculate_checksum; a digest with an overwritten byte is spoilt.       *)
Digest(bytes) == [of |-> bytes, spoilt |-> FALSE]
EMPTY_CHECKSUM == Digest(<<>>)

to_bytes(p) ==
    Bytes(p.sequence_number, IntBytes)
      \o Bytes(p.flags, ShortBytes)
      \o Bytes(p.advertised_window, ShortBytes)
      \o <<p.checksum>>
      \o Bytes(p.data_length, ShortBytes)
      \o p.data

FLAGS_AT    == IntBytes + 1
WINDOW_AT   == FLAGS_AT + ShortBytes
CHECKSUM_AT == WINDOW_AT + ShortBytes
LENGTH_AT   == CHECKSUM_AT + 1
DATA_AT     == LENGTH_AT + ShortBytes

Field(raw, first, width) == Number(SubSeq(raw, first, first + width - 1))

(* Mutated form: the two shorts of the header are mixed up.                *)
FromBytesMixedUp(raw) ==
    LET length == Field(raw, LENGTH_AT, ShortBytes)
    IN  [sequence_number   |-> Field(raw, 1, IntBytes),
         flags             |-> Field(raw, WINDOW_AT, ShortBytes),
         advertised_window |-> Field(raw, FLAGS_AT, ShortBytes),
         checksum          |-> raw[CHECKSUM_AT],
         data_length       |-> length,
         data              |-> SubSeq(raw, DATA_AT,
                                      Min({DATA_AT + length - 1, Len(raw)}))]

(* What lies beyond data_length is left; data shorter than it is data.     *)
from_bytes(raw) ==
    LET length == Field(raw, LENGTH_AT, ShortBytes)
    IN  [sequence_number   |-> Field(raw, 1, IntBytes),
         flags             |-> Field(raw, FLAGS_AT, ShortBytes),
         advertised_window |-> Field(raw, WINDOW_AT, ShortBytes),
         checksum          |-> raw[CHECKSUM_AT],
         data_length       |-> length,
         data              |-> SubSeq(raw, DATA_AT,
                                      Min({DATA_AT + length - 1, Len(raw)}))]

(* Mutated form: the data is not part of what is hashed.                   *)
ChecksumOfHeader(p) ==
    Digest(to_bytes([p EXCEPT !.checksum = EMPTY_CHECKSUM, !.data = <<>>]))

calculate_original_checksum(p) ==
    Digest(to_bytes([p EXCEPT !.checksum = EMPTY_CHECKSUM]))

generate_packet_from_empty_checksum(p) ==
    [p EXCEPT !.checksum = calculate_original_checksum(p)]

(* The test both readers make first.                                       *)
Intact(p) == p.checksum = calculate_original_checksum(p)

-----------------------------------------------------------------------------
WindowField == 6     \* both ends advertise the default window size

NewPacket(number, flags, data) ==
    generate_packet_from_empty_checksum(
        [sequence_number |-> number, flags |-> pack_flags(flags),
         advertised_window |-> WindowField, checksum |-> EMPTY_CHECKSUM,
         data_length |-> Len(data), data |-> data])

(* The packet with number k carries the chunk k of the input.              *)
Chunk(k) ==
    LET before == (k - SyncStart) * SENDER_DATA_SIZE
    IN  SubSeq(Text, before + 1, Min({before + SENDER_DATA_SIZE, Len(Text)}))
LastChunk == SyncStart - 1 + (Len(Text) + SENDER_DATA_SIZE - 1) \div SENDER_DATA_SIZE

DataPacket(k) == NewPacket(k, {SYNCHRONIZATION}, Chunk(k))
AckPacket(k)  == NewPacket(k, {ACKNOWLEDGEMENT}, <<>>)
ErrorPacket(k) == NewPacket(k, {ACKNOWLEDGEMENT, ERRORS}, <<>>)

(* The emulator overwrites some bytes, some of which were X before.        *)
Overwritten(raw, at) ==
    [i \in DOMAIN raw |->
        IF i \notin at THEN raw[i]
        ELSE IF i = CHECKSUM_AT THEN [raw[i] EXCEPT !.spoilt = TRUE]
        ELSE MangledByte]
Mangles(raw) == {Overwritten(raw, at) : at \in UNION {kSubset(n, DOMAIN raw) : n \in 0..MaxMangled}}

(* packet_received: a packet that is too big is dropped, any may be.       *)
Fates(raw) ==
    IF Len(raw) > MTU THEN {<<>>}
    ELSE {<<>>} \cup {<<c>> : c \in Mangles(raw)} \cup {<<c, c>> : c \in Mangles(raw)}

DamageOf(raw, fate) == IF fate \in {<<>>, <<raw>>} THEN 0 ELSE 1
DropTail(wire) == IF Len(wire) <= BufferSize THEN wire ELSE SubSeq(wire, 1, BufferSize)

Transmit(wire, raw, newWire) ==
    \E fate \in Fates(raw) :
        /\ damage + DamageOf(raw, fate) <= MaxDamage
        /\ damage' = damage + DamageOf(raw, fate)
        /\ newWire = DropTail(wire \o fate)

-----------------------------------------------------------------------------
Init ==
    /\ syn_number = SyncStart
    /\ s_to_r = <<>> /\ r_to_s = <<>> /\ damage = 0
    /\ printed = {}
    /\ sender = "running" /\ receiver = "running"

(* A number that does not fit the header kills the sender: syn_number      *)
(* never wraps.                                                            *)
SendChunk ==
    /\ sender = "running"
    /\ syn_number <= LastChunk
    /\ IF Fits(syn_number, IntBytes)
       THEN /\ Transmit(s_to_r, to_bytes(DataPacket(syn_number)), s_to_r')
            /\ syn_number' = syn_number + 1
            /\ UNCHANGED sender
       ELSE sender' = "raised" /\ UNCHANGED <<syn_number, s_to_r, damage>>
    /\ UNCHANGED <<r_to_s, printed, receiver>>

Resend(k) ==
    /\ sender = "running"
    /\ Transmit(s_to_r, to_bytes(DataPacket(k)), s_to_r')
    /\ UNCHANGED <<syn_number, r_to_s, printed, sender, receiver>>

(* Responses name the number of a packet sent, or 0.                       *)
Respond(p) ==
    /\ receiver = "running"
    /\ Transmit(r_to_s, to_bytes(p), r_to_s')
    /\ UNCHANGED <<syn_number, s_to_r, printed, sender, receiver>>

(* A packet that passes the test is printed, sooner or later, if its text  *)
(* can be decoded; else the receiver dies of it.                           *)
ReadData ==
    LET p == from_bytes(Head(s_to_r))
    IN  /\ s_to_r # <<>>
        /\ receiver = "running"
        /\ s_to_r' = Tail(s_to_r)
        /\ IF ~Intact(p) THEN UNCHANGED <<printed, receiver>>
           ELSE IF Decodes(p.data)
           THEN /\ printed' = printed \cup {<<p.sequence_number, p.data>>}
                /\ UNCHANGED receiver
           ELSE receiver' = "raised" /\ UNCHANGED printed
        /\ UNCHANGED <<syn_number, r_to_s, damage, sender>>

ReadResponse ==
    /\ r_to_s # <<>>
    /\ sender = "running"
    /\ r_to_s' = Tail(r_to_s)
    /\ UNCHANGED <<syn_number, s_to_r, damage, printed, sender, receiver>>

Numbers == SyncStart .. syn_number - 1

Next ==
    \/ SendChunk
    \/ \E k \in Numbers : Resend(k) \/ Respond(AckPacket(k))
    \/ \E k \in Numbers \cup {0} : Respond(ErrorPacket(k))
    \/ ReadData
    \/ ReadResponse

Spec == Init /\ [][Next]_vars
-----------------------------------------------------------------------------
(* The checksum tells exactly: whichever bytes were overwritten, the       *)
(* length of the data among them, a packet passes the test if and only if  *)
(* it is, byte for byte, one that was sent.                                *)
SentRaw ==
    {to_bytes(DataPacket(k)) : k \in Numbers}
      \cup {to_bytes(AckPacket(k)) : k \in Numbers}
      \cup {to_bytes(ErrorPacket(k)) : k \in Numbers \cup {0}}
ChecksumTells ==
    \A raw \in ToSet(s_to_r) \cup ToSet(r_to_s) :
        Intact(from_bytes(raw)) <=> raw \in SentRaw

(* What may be printed under a number is the chunk of that number: numbers *)
(* are not used twice, and nothing mangled is printed.                     *)
PrintsOnlyTheText == printed \subseteq {<<k, Chunk(k)>> : k \in Numbers}

(* A process dies only for a reason: the receiver of a character that is   *)
(* cut in two by the chunks of the input, the sender of a number beyond    *)
(* its field; neither dies of anything the network has done to a packet.   *)
CutCharacter == \E k \in Numbers : Len(Chunk(k)) > 0 /\ Last(Chunk(k)) = Lead
DiesForCause == /\ receiver = "raised" => CutCharacter
                /\ sender = "raised" => syn_number = Power[IntBytes]

(* What TCPNetwork says of a packet.                                       *)
Reading(raw) ==
    LET p == from_bytes(raw)
        is(kind) == [kind |-> kind, seq |-> p.sequence_number]
    IN  IF ~Intact(p) THEN [kind |-> "mangled", seq |-> 0]
        ELSE IF ERRORS \in enum_flags(p.flags) THEN is("error")
        ELSE IF ACKNOWLEDGEMENT \in enum_flags(p.flags) THEN is("ack")
        ELSE is("data")
Read(wire) == [i \in DOMAIN wire |-> Reading(wire[i])]

Net == INSTANCE TCPNetwork
         WITH N <- LastChunk, WindowSize <- WindowField,
              MAX_UNSIGNED_INT <- 2 * Power[IntBytes] - 1,
              Drop <- {"S->R", "R->S"}, Mangle <- {"S->R", "R->S"},
              Duplicate <- {"S->R", "R->S"}, Jitter <- {}, SlowTimeout <- FALSE,
              s_to_r <- Read(s_to_r), r_to_s <- Read(r_to_s)

(* The wires of bytes are the wires of TCPNetwork: each packet sent gets   *)
(* there as it was, as Mangled, twice, or not at all, in order.            *)
NetworkStep ==
    \/ /\ \E k \in SyncStart .. syn_number : Net!SendForward(Net!Data(k))
       /\ UNCHANGED Read(r_to_s)
    \/ /\ \E k \in Numbers \cup {0} :
             Net!SendBackward(Net!Ack(k)) \/ Net!SendBackward(Net!ErrorAck(k))
       /\ UNCHANGED Read(s_to_r)
    \/ /\ s_to_r # <<>> /\ Read(s_to_r)' = Tail(Read(s_to_r))
       /\ UNCHANGED <<Read(r_to_s), damage>>
    \/ /\ r_to_s # <<>> /\ Read(r_to_s)' = Tail(Read(r_to_s))
       /\ UNCHANGED <<Read(s_to_r), damage>>
ReadsAsSentOrMangled ==
    Net!NetworkInit /\ [][NetworkStep]_<<Read(s_to_r), Read(r_to_s), damage>>

(* The number the receiver awaits after that of any packet can be sent:    *)
(* MAX_UNSIGNED_INT, the modulus of the sequence arithmetic, is "the       *)
(* maximum unsigned 32-bit integer", the greatest number of an int field.  *)
MAX_UNSIGNED_INT == 2 * Power[IntBytes] - 1
AwaitedNumberFits ==
    \A k \in Numbers : Fits((k + 1) % MAX_UNSIGNED_INT, IntBytes)
=============================================================================
