------------------------------- MODULE Stream -------------------------------
(***************************************************************************)
(* What a user buffer of the driver promises: a bounded first-in first-out *)
(* stream of words.  The n-th word ever put is the number n, so a queue    *)
(* with a lost, repeated, stale or reordered word is no state of this      *)
(* specification.                                                          *)
(***************************************************************************)
EXTENDS Integers, Sequences

CONSTANT Capacity   \* the most words the stream holds

VARIABLES queue,    \* the words put and not yet got
          puts      \* how many words were ever put

StreamInit == queue = <<>> /\ puts = 0

Put(k) ==
  /\ Len(queue) + k <= Capacity
  /\ queue' = queue \o [i \in 1..k |-> puts + i]
  /\ puts' = puts + k

Get(k) ==
  /\ k <= Len(queue)
  /\ queue' = SubSeq(queue, k + 1, Len(queue))
  /\ UNCHANGED puts

StreamNext == \E k \in 0..Capacity : Put(k) \/ Get(k)

StreamSpec == StreamInit /\ [][StreamNext]_<<queue, puts>>
=============================================================================
