----------------------------- MODULE UserSource -----------------------------
(***************************************************************************)
(* The User Source block (driver/whitebox_user_source.c): the circular     *)
(* buffer between a process in write() and the DMA side of the transmit    *)
(* path.  It takes no lock: the writer alone moves head, the DMA side      *)
(* alone moves tail, and each works from a snapshot of the other's index   *)
(* that may be out of date when it is used.                                *)
(*                                                                         *)
(* A word's value is its number in the stream of words ever written.       *)
(***************************************************************************)
EXTENDS UserSourceOps, Sequences

CONSTANTS FrameBytes, \* the most the DMA side takes at once
          Counts,     \* byte counts a process passes to write()
          MaxWords    \* bound: words written in a behaviour

ASSUME FrameAssumption   == FrameBytes \in Nat /\ FrameBytes % 4 = 0 /\ FrameBytes > 0
ASSUME CountsAssumption  == Counts \subseteq Nat
ASSUME MaxWordsAssumption == MaxWords \in Nat

VARIABLES head, tail,   \* byte indices of the circ_buf
          mem,          \* the buffer, one value per word
          prod,         \* the writer: its step and its snapshot
          cons,         \* the DMA side: its step and its snapshot
          produced,     \* words ever produced
          consumed      \* words ever consumed

vars == <<head, tail, mem, prod, cons, produced, consumed>>

----------------------------------------------------------------------------
(* whitebox_user_source_alloc: an empty buffer whose memory is stale (0).  *)
Init ==
  /\ head = 0 /\ tail = 0
  /\ mem = [i \in Slots |-> 0]
  /\ prod = [pc |-> "idle", n |-> 0, dest |-> 0]
  /\ cons = [pc |-> "idle", n |-> 0, src |-> 0]
  /\ produced = 0 /\ consumed = 0

(* The writer reads the free space once and goes on if its count fits.     *)
Reserve(n) ==
  /\ prod.pc = "idle"
  /\ produced + Words(n) <= MaxWords
  /\ n <= whitebox_user_source_space_available(head, tail)
  /\ prod' = [pc |-> "copy", n |-> n, dest |-> head]
  /\ UNCHANGED <<head, tail, mem, cons, produced, consumed>>

(* copy_from_user succeeds.                                                *)
Work ==
  /\ prod.pc = "copy"
  /\ mem' = whitebox_user_source_work(mem, prod.dest, Words(prod.n), produced + 1)
  /\ prod' = [prod EXCEPT !.pc = "produce"]
  /\ UNCHANGED <<head, tail, cons, produced, consumed>>

(* copy_from_user faults after some words; the write returns -EFAULT.      *)
WorkFault ==
  /\ prod.pc = "copy"
  /\ \E k \in 0 .. Words(prod.n) :
       mem' = whitebox_user_source_work(mem, prod.dest, k, produced + 1)
  /\ prod' = [prod EXCEPT !.pc = "idle"]
  /\ UNCHANGED <<head, tail, cons, produced, consumed>>

(* The writer publishes what it copied: whole words only, a rest of one to *)
(* three bytes is dropped.                                                 *)
Produce ==
  /\ prod.pc = "produce"
  /\ head' = whitebox_user_source_produce(head, prod.n)
  /\ produced' = produced + Words(prod.n)
  /\ prod' = [prod EXCEPT !.pc = "idle"]
  /\ UNCHANGED <<tail, mem, cons, consumed>>

(* The DMA side reads how much data it can take in one piece.              *)
Peek ==
  /\ cons.pc = "idle"
  /\ LET n == Least(whitebox_user_source_data_available(head, tail), FrameBytes)
     IN  /\ Words(n) > 0
         /\ cons' = [pc |-> "take", n |-> n, src |-> tail]
  /\ UNCHANGED <<head, tail, mem, prod, produced, consumed>>

(* It has taken the words and frees them.                                  *)
Consume ==
  /\ cons.pc = "take"
  /\ tail' = whitebox_user_source_consume(tail, cons.n)
  /\ consumed' = consumed + Words(cons.n)
  /\ cons' = [cons EXCEPT !.pc = "idle"]
  /\ UNCHANGED <<head, mem, prod, produced>>

Next == \/ \E n \in Counts : Reserve(n)
        \/ Work
        \/ WorkFault
        \/ Produce
        \/ Peek
        \/ Consume

Spec == Init /\ [][Next]_vars

----------------------------------------------------------------------------
(* Properties. *)

TypeOK ==
  /\ head \in 0 .. BufSize - 4
  /\ tail \in 0 .. BufSize - 4
  /\ mem \in [Slots -> Nat]
  /\ prod \in [pc : {"idle", "copy", "produce"}, n : Nat, dest : 0 .. BufSize - 4]
  /\ cons \in [pc : {"idle", "take"}, n : Nat, src : 0 .. BufSize - 4]
  /\ produced \in Nat
  /\ consumed \in Nat

(* The two indices stay on word boundaries although write() takes any byte *)
(* count, and their distance is exactly what was produced and not          *)
(* consumed: a full buffer is never taken for an empty one.                *)
Accounting ==
  /\ head % 4 = 0 /\ tail % 4 = 0
  /\ consumed <= produced
  /\ 4 * (produced - consumed) <= BufSize - 4
  /\ CIRC_CNT(head, tail, BufSize) = 4 * (produced - consumed)

(* A snapshot stays valid for as long as its owner uses it: the region the *)
(* writer copies into lies inside the buffer and in free space, the region *)
(* the DMA side reads lies inside the buffer and holds only published data,*)
(* whatever the other side did since the snapshot was taken.               *)
SnapshotsValid ==
  /\ prod.pc # "idle" =>
       /\ prod.dest = head
       /\ prod.dest + prod.n <= BufSize
       /\ 4 * (produced - consumed) + prod.n <= BufSize - 4
  /\ cons.pc # "idle" =>
       /\ cons.src = tail
       /\ cons.n % 4 = 0 /\ cons.n > 0
       /\ cons.src + cons.n <= BufSize
       /\ cons.n <= 4 * (produced - consumed)

(* The inductive invariant of the proofs.                                  *)
IInv == TypeOK /\ Accounting /\ SnapshotsValid

(* The words between tail and head, oldest first.                          *)
Queue == [i \in 1 .. (produced - consumed) |->
            mem[(WordOf(tail) + i - 1) % (BufSize \div 4)]]

(* Refinement: the buffer is a bounded stream of words.                    *)
S == INSTANCE Stream WITH Capacity <- BufSize \div 4 - 1,
                          queue <- Queue, puts <- produced

IsStream == S!StreamSpec
=============================================================================
