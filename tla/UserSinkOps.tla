---------------------------- MODULE UserSinkOps ----------------------------
(***************************************************************************)
(* The functions of the User Sink block (driver/whitebox_user_sink.c), on  *)
(* the head h and the tail t of its circ_buf.                              *)
(***************************************************************************)
EXTENDS CircBuf

CONSTANTS SinkSize,     \* PAGE_SIZE << order, in bytes
          FlowControl,  \* module parameter whitebox_flow_control
          Threshold     \* whitebox_user_sink_buffer_threshold, in bytes

ASSUME SinkAssumption ==
  /\ SinkSize \in Nat /\ SinkSize % 4 = 0 /\ SinkSize >= 8
  /\ FlowControl \in BOOLEAN /\ Threshold \in Nat

SinkSlots == 0 .. (SinkSize \div 4 - 1)

(* All the data, and the contiguous data at tail.                          *)
whitebox_user_sink_data_total(h, t) == CIRC_CNT(h, t, SinkSize)

whitebox_user_sink_data_available(h, t) == CIRC_CNT_TO_END(h, t, SinkSize)

(* The contiguous space at head, in bytes, not rounded to words; none once *)
(* flow control finds the threshold reached.                               *)
whitebox_user_sink_space_available(h, t) ==
  IF FlowControl /\ whitebox_user_sink_data_total(h, t) >= Threshold THEN 0
  ELSE CIRC_SPACE_TO_END(h, t, SinkSize)

(* A deliberate slip: the index is not reduced.                            *)
SinkProduceWithoutWrap(h, count) == h + count

(* head is reduced to a word boundary, tail only to the ring.              *)
whitebox_user_sink_produce(h, count) == WrapToWord(h + count, SinkSize)

whitebox_user_sink_consume(t, count) == WrapToByte(t + count, SinkSize)

(* copy_to_user of k words from the tail t: the words it copies.           *)
whitebox_user_sink_work(t, k) == WordOf(t) .. (WordOf(t) + k - 1)
============================================================================
