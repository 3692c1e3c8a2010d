------------------------------ MODULE MCPacket ------------------------------
(* An input of bytes below 32.                                             *)
EXTENDS TCPPacket

(* Three chunks of two bytes, the last with the byte that mangling writes; *)
(* the first character of the third chunk begins in the second.            *)
Cut == <<30, 31, 2, 30, 31, 24>>
=============================================================================
