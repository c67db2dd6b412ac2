------------------------------ MODULE CircBuf ------------------------------
(***************************************************************************)
(* The index arithmetic of the driver's circular buffers.                  *)
(*                                                                         *)
(* The first four operators are the macros of the kernel's                 *)
(* linux/circ_buf.h, which whitebox_user_source.c and whitebox_user_sink.c *)
(* call; "x & (size - 1)" is "x % size" because the size is a power of     *)
(* two.  Indices and counts are in bytes.  One word, the unit the DMA      *)
(* moves, is four bytes.                                                   *)
(***************************************************************************)
EXTENDS Integers

WordBytes == 4

\* Bytes held in the buffer.
CIRC_CNT(head, tail, size) == (head - tail) % size

\* Bytes that may still be added; one byte always stays unused.
CIRC_SPACE(head, tail, size) == CIRC_CNT(tail, head + 1, size)

\* Bytes held that can be read without wrapping.
CIRC_CNT_TO_END(head, tail, size) ==
  LET end == size - tail
      n   == (head + end) % size
  IN  IF n < end THEN n ELSE end

\* Bytes that can be added without wrapping.
CIRC_SPACE_TO_END(head, tail, size) ==
  LET end == size - 1 - head
      n   == (end + tail) % size
  IN  IF n <= end THEN n ELSE end + 1

\* n & ~3
WordAligned(n) == n - (n % WordBytes)

\* x & (size - 4), and x & (size - 1)
WrapToWord(x, size) == WordAligned(x % size)
WrapToByte(x, size) == x % size

\* The word a byte index falls into, and the whole words in a byte count.
WordOf(index)  == index \div WordBytes
Words(count)   == count \div WordBytes

Least(a, b) == IF a < b THEN a ELSE b
============================================================================
