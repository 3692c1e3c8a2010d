-------------------------- MODULE ReliableTransfer --------------------------
(***************************************************************************)
(* What a transfer promises, whatever carries it out: the output is a run  *)
(* of consecutive chunks that only grows at its end, and the transfer is   *)
(* declared over only when the run reaches the last chunk.  Starts says    *)
(* at which chunks the output may begin: {1} is a faithful copy.           *)
(***************************************************************************)
EXTENDS Naturals, Sequences

CONSTANTS N,       \* number of chunks of the input
          Starts   \* a subset of 1..N

VARIABLES output, finished

Run(first, last) == [i \in 1..(last - first + 1) |-> first + i - 1]

Init == output = <<>> /\ finished = FALSE

(* Some more chunks are delivered, in order and without a gap.             *)
Deliver == \E first \in Starts : \E last \in first..N :
             /\ output \in {<<>>} \cup {Run(first, l) : l \in first..N}
             /\ Len(output) < last - first + 1
             /\ output' = Run(first, last)
             /\ UNCHANGED finished

Finish == /\ ~finished
          /\ N = 0 \/ (output # <<>> /\ output[Len(output)] = N)
          /\ finished' = TRUE
          /\ UNCHANGED output

Next == Deliver \/ Finish

Spec == Init /\ [][Next]_<<output, finished>>

=============================================================================
