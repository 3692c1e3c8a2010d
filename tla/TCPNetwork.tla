----------------------------- MODULE TCPNetwork -----------------------------
(***************************************************************************)
(* The packets of 3700TCP and the network of its emulator (3700TCP/run).   *)
(*                                                                         *)
(* A chunk of the input is known by its sequence number, so a data packet  *)
(* carries nothing else.  A packet the emulator has mangled fails the      *)
(* checksum test of its reader whatever was in it: all mangled packets are *)
(* the one value Mangled.                                                  *)
(*                                                                         *)
(* The configuration of the emulator gives, per kind of fault, a           *)
(* probability; the model gives, per kind of fault, the set of directions  *)
(* in which it may strike.                                                 *)
(***************************************************************************)
EXTENDS Integers, Sequences, SequencesExt

CONSTANTS
    N,                 \* chunks in the sender's input; chunk k is k \in 1..N
    WindowSize,        \* DEFAULT_SLIDING_WINDOW_SIZE
    MAX_UNSIGNED_INT,  \* modulus of the receiver's sequence arithmetic
    Drop,              \* directions in which packets may be dropped
    Mangle,            \* directions in which packets may be mangled
    Duplicate,         \* directions in which packets may be duplicated
    Jitter,            \* directions in which packets may overtake each other
    BufferSize,        \* packets a direction holds before it drops the tail
    MaxDamage,         \* bound: packets mangled or duplicated in a run
    SlowTimeout        \* the 2 s timeout exceeds the time a packet and its
                       \* answer spend in the network

Forward  == "S->R"
Backward == "R->S"
Paths    == {Forward, Backward}

ASSUME NAssumption == N \in Nat
ASSUME WindowAssumption == WindowSize \in Nat \ {0}
(* The sequence numbers of a run stay below the modulus.                   *)
ASSUME WidthAssumption == /\ MAX_UNSIGNED_INT \in Nat
                          /\ N + WindowSize < MAX_UNSIGNED_INT
ASSUME FaultAssumption == /\ Drop \subseteq Paths
                          /\ Mangle \subseteq Paths
                          /\ Duplicate \subseteq Paths
                          /\ Jitter \subseteq Paths
ASSUME BoundAssumption == /\ BufferSize \in Nat
                          /\ MaxDamage \in Nat
                          /\ SlowTimeout \in BOOLEAN

-----------------------------------------------------------------------------

Data(k)     == [kind |-> "data", seq |-> k]
Ack(k)      == [kind |-> "ack", seq |-> k]
ErrorAck(k) == [kind |-> "error", seq |-> k]
Mangled     == [kind |-> "mangled", seq |-> 0]

DataPackets(last) == {Data(k) : k \in 1..last}
Responses(last)   == {Ack(k) : k \in 0..last} \cup {ErrorAck(k) : k \in 0..last}

VARIABLES
    s_to_r,   \* packets on their way to the receiver
    r_to_s,   \* packets on their way to the sender
    damage    \* packets mangled or duplicated so far

networkVars == <<s_to_r, r_to_s, damage>>

NetworkInit == /\ s_to_r = <<>>
               /\ r_to_s = <<>>
               /\ damage = 0

(* What packet_received may enqueue for packet m: nothing, one copy or two *)
(* identical copies, of m or of what mangling makes of it.                 *)
Copies(m, path) == IF path \in Mangle THEN {m, Mangled} ELSE {m}

Fates(m, path) ==
    {<<c>> : c \in Copies(m, path)}
      \cup {<<>> : p \in Drop \cap {path}}
      \cup {<<c, c>> : c \in IF path \in Duplicate THEN Copies(m, path) ELSE {}}

(* Losing a packet costs nothing, so a run may lose any number of them.    *)
DamageOf(m, fate) == IF fate \in {<<>>, <<m>>} THEN 0 ELSE 1

(* A copy that finds the buffer full is dropped.                           *)
DropTail(wire) == IF Len(wire) <= BufferSize THEN wire ELSE SubSeq(wire, 1, BufferSize)

Enqueue(wire, m, path, newWire) ==
    \E fate \in Fates(m, path) :
        /\ damage + DamageOf(m, fate) <= MaxDamage
        /\ damage' = damage + DamageOf(m, fate)
        /\ newWire = DropTail(wire \o fate)

SendForward(m)  == Enqueue(s_to_r, m, Forward, s_to_r')
SendBackward(m) == Enqueue(r_to_s, m, Backward, r_to_s')

(* Jitter gives each packet a delay of its own: any packet of the path may *)
(* be the next to arrive.  Without it the path is first in, first out.     *)
Arrivals(wire, path) ==
    IF path \in Jitter THEN DOMAIN wire ELSE DOMAIN wire \cap {1}

=============================================================================
