--------------------------- MODULE UserSourceOps ---------------------------
(***************************************************************************)
(* The functions of the User Source block                                  *)
(* (driver/whitebox_user_source.c), on the head h and the tail t of its    *)
(* circ_buf.  The block's own module and the transmit path share them.     *)
(***************************************************************************)
EXTENDS CircBuf

CONSTANT BufSize      \* PAGE_SIZE << order, in bytes

ASSUME BufSizeAssumption == BufSize \in Nat /\ BufSize % 4 = 0 /\ BufSize >= 8

Slots == 0 .. (BufSize \div 4 - 1)

(* Deliberate slips, for the mutants: no word alignment of the free space; *)
(* no unused byte between head and tail.                                   *)
SpaceAvailableUnaligned(h, t) == CIRC_SPACE_TO_END(h, t, BufSize)
SpaceAvailableWithoutGap(h, t) == Least(BufSize - CIRC_CNT(h, t, BufSize), BufSize - h)

(* The contiguous free space at head, in whole words.                      *)
whitebox_user_source_space_available(h, t) ==
  WordAligned(CIRC_SPACE_TO_END(h, t, BufSize))

(* The contiguous data at tail, and all the data.                          *)
whitebox_user_source_data_available(h, t) == CIRC_CNT_TO_END(h, t, BufSize)

whitebox_user_source_data_total(h, t) == CIRC_CNT(h, t, BufSize)

(* Deliberate slips: the index is reduced to a byte, not a word boundary;  *)
(* the index is not reduced at all.                                        *)
ProduceBytes(h, count) == WrapToByte(h + count, BufSize)
ProduceWithoutWrap(h, count) == h + count

whitebox_user_source_produce(h, count) == WrapToWord(h + count, BufSize)

(* A deliberate slip: the index stops at the end of the buffer.            *)
ConsumeWithoutWrap(t, count) == Least(t + count, BufSize - 4)

whitebox_user_source_consume(t, count) == WrapToWord(t + count, BufSize)

(* copy_from_user of k words to dest; the stream goes on at `first'.       *)
whitebox_user_source_work(m, dest, k, first) ==
  [i \in Slots |-> IF i \in WordOf(dest) .. (WordOf(dest) + k - 1)
                   THEN first + (i - WordOf(dest)) ELSE m[i]]
============================================================================
