---------------------------- MODULE RxPathProofs ----------------------------
(***************************************************************************)
(* Proofs about the receive path, for every number of processes and every  *)
(* set of read sizes, when flow control leaves room for both DMA buffers.  *)
(***************************************************************************)
EXTENDS RxPath, DriverLemmas

(* Flow control is on, its threshold leaves room for both DMA buffers, and *)
(* the ring is a whole number of frames, as the default values of the      *)
(* module parameters have it.                                              *)
Roomy ==
  /\ FlowControl
  /\ Threshold + 2 * FrameBytes <= SinkSize
  /\ SinkSize % FrameBytes = 0

Total == whitebox_user_sink_data_total(head, tail)

----------------------------------------------------------------------------
(* The inductive invariant. *)

(* Who holds the semaphore.                                                *)
HoldSteps == {"read_check", "read_copy", "read_done"}
SemHeld == \A p \in Procs : proc[p].pc \in HoldSteps <=> sem = p

(* What a copying reader checked is still true: its bytes are there.       *)
CopyFits ==
  \A p \in Procs : proc[p].pc \in {"read_copy", "read_done"} =>
    tail + proc[p].n <= SinkSize /\ proc[p].n <= Total

(* A loaded buffer has words left; one under way brings a whole frame.     *)
Transfers(c, d) ==
  /\ Plain(c)
  /\ d \in [Buffers -> [dest : SinkSlots, count : 0 .. FrameBytes, left : Nat]]
  /\ \A b \in Buffers : /\ b \in c.loaded => d[b].left > 0
                        /\ UnderWay(c, b) => d[b].count = FrameBytes

(* Each transfer under way has its frame's room: flow control let it start *)
(* below the threshold, whatever was produced since.                       *)
Reserved(c, n) ==
  /\ n < Threshold + 2 * FrameBytes
  /\ UnderWay(c, A) \/ UnderWay(c, B) => n < Threshold + FrameBytes
  /\ UnderWay(c, A) /\ UnderWay(c, B) => n < Threshold

RingOK ==
  /\ head \in 0 .. SinkSize - 4 /\ tail \in 0 .. SinkSize - 4
  /\ head % 4 = 0 /\ tail % 4 = 0
  /\ HeadOnFrame /\ RingAccounting

Kept == RingOK /\ Transfers(chan, dma) /\ Reserved(chan, Total) /\ CopyFits
IInv == TypeOK /\ SemHeld /\ Kept

----------------------------------------------------------------------------
(* Frames in the ring. *)

LEMMA Sink == RingSize(SinkSize)
  BY SinkAssumption DEF RingSize

(* Multiples of the frame size.                                            *)
LEMMA MultipleOf ==
  ASSUME NEW a \in Nat, NEW f \in Nat, f > 0, a % f = 0
  PROVE  \E q \in Nat : a = f * q
<1>1. a = f * (a \div f) + (a % f) /\ a \div f \in Nat
  BY Z3
<1> QED BY <1>1

LEMMA MultipleMod ==
  ASSUME NEW q \in Nat, NEW f \in Nat, f > 0 PROVE (f * q) % f = 0
  BY Z3

LEMMA NextMultiple ==
  ASSUME NEW a \in Nat, NEW b \in Nat, NEW f \in Nat, f > 0, a % f = 0, b % f = 0, a < b
  PROVE  a + f <= b /\ (a + f) % f = 0
<1>1. PICK q \in Nat : a = f * q
  BY MultipleOf
<1>2. PICK r \in Nat : b = f * r
  BY MultipleOf
<1>3. q < r
  <2> SUFFICES ASSUME ~(q < r) PROVE FALSE
    OBVIOUS
  <2>1. PICK d \in Nat : q = r + d
    <3>1. q - r \in Nat /\ q = r + (q - r)
      OBVIOUS
    <3> QED BY <3>1
  <2>2. f * q = f * r + f * d /\ f * d >= 0
    BY <2>1, Z3
  <2> QED BY <1>1, <1>2, <2>2
<1>4. PICK d \in Nat : r = q + 1 + d
  <2>1. r - q - 1 \in Nat /\ r = q + 1 + (r - q - 1)
    BY <1>3
  <2> QED BY <2>1
<1>5. f * r = f * q + f + f * d /\ f * d >= 0
  BY <1>4, Z3
<1>6. a + f = f * (q + 1)
  BY <1>1, Z3
<1>7. (f * (q + 1)) % f = 0
  <2>1. q + 1 \in Nat
    OBVIOUS
  <2> QED BY <2>1, MultipleMod
<1> QED BY <1>1, <1>2, <1>5, <1>6, <1>7

(* The data in the ring, and the room at a head on a frame boundary.       *)
InRing(h) == h \in 0 .. SinkSize - 4 /\ h % 4 = 0

LEMMA FrameFits ==
  ASSUME Roomy, NEW h, InRing(h), h % FrameBytes = 0, InRing(tail)
  PROVE  /\ whitebox_user_sink_data_total(h, tail) \in 0 .. SinkSize - 1
         /\ h + FrameBytes <= SinkSize
         /\ (h + FrameBytes) % FrameBytes = 0
         /\ whitebox_user_sink_data_total(h, tail) < Threshold =>
              CIRC_SPACE_TO_END(h, tail, SinkSize) \in Nat
              /\ CIRC_SPACE_TO_END(h, tail, SinkSize) >= FrameBytes
<1> DEFINE n == CIRC_SPACE_TO_END(h, tail, SinkSize)
           t == CIRC_CNT(h, tail, SinkSize)
<1>1. SinkSize \in Nat /\ FrameBytes \in Nat /\ FrameBytes > 4 /\ Threshold \in Nat /\ SinkSize >= 8
  BY SinkAssumption, SizesAssumption
<1>2. h \in 0 .. SinkSize - 4 /\ tail \in 0 .. SinkSize - 4
  BY DEF InRing
<1>3. t = IF h >= tail THEN h - tail ELSE h - tail + SinkSize
  BY <1>2, Sink, CntInside
<1>4. n \in Nat /\ (n = SinkSize - h \/ n = SinkSize - 1 - t)
  BY <1>2, Sink, SpaceToEnd
<1>5. h \in Nat /\ h < SinkSize /\ SinkSize % FrameBytes = 0 /\ FrameBytes > 0
  BY <1>1, <1>2 DEF Roomy
<1>6. h + FrameBytes <= SinkSize /\ (h + FrameBytes) % FrameBytes = 0
  BY <1>1, <1>5, NextMultiple
<1> HIDE DEF n, t
<1>7. t \in 0 .. SinkSize - 1
  BY <1>1, <1>2, <1>3
<1>8. t < Threshold => n >= FrameBytes
  BY <1>1, <1>4, <1>5, <1>6, <1>7 DEF Roomy
<1> QED BY <1>4, <1>6, <1>7, <1>8 DEF n, t, whitebox_user_sink_data_total

(* What rx_exec does: nothing when both buffers are under way or flow      *)
(* control holds it back, otherwise start a transfer of a whole frame.     *)
LEMMA RxExecCases ==
  ASSUME Roomy, NEW c, Plain(c), NEW h, InRing(h), h % FrameBytes = 0, InRing(tail),
         rx_exec(c, h)
  PROVE  \/ /\ chan' = c /\ UNCHANGED dma
            /\ \/ UnderWay(c, A) /\ UnderWay(c, B)
               \/ whitebox_user_sink_data_total(h, tail) >= Threshold
         \/ /\ AvailableResult(c) > 0 /\ chan' = pdma_start(c)
            /\ whitebox_user_sink_data_total(h, tail) < Threshold
            /\ dma' = [dma EXCEPT ![c.next] = [dest |-> WordOf(h), count |-> FrameBytes,
                                               left |-> Words(FrameBytes)]]
<1> DEFINE t == whitebox_user_sink_data_total(h, tail)
           s == whitebox_user_sink_space_available(h, tail)
           n == CIRC_SPACE_TO_END(h, tail, SinkSize)
<1>1. FrameBytes \in Nat /\ FrameBytes > 4 /\ Threshold \in Nat
  BY SinkAssumption, SizesAssumption
<1>2. t \in Nat /\ (t < Threshold => n \in Nat /\ n >= FrameBytes)
  BY FrameFits, SinkAssumption
<1>3. s = IF t >= Threshold THEN 0 ELSE n
  BY DEF Roomy, whitebox_user_sink_space_available
<1>4. /\ pdma_buffers_available(c) = c /\ AvailableResult(c) \in 0 .. 2
      /\ AvailableResult(c) = 0 => UnderWay(c, A) /\ UnderWay(c, B)
  BY PlainAvailable
<1> HIDE DEF t, s, n
<1>5. CASE AvailableResult(c) = 0
  <2>1. whitebox_rf_source_data_available(c) = 0
    BY <1>5 DEF whitebox_rf_source_data_available
  <2>2. Words(0) = 0
    BY DEF Words, WordBytes
  <2> QED BY <1>4, <1>5, <2>1, <2>2 DEF rx_exec
<1>6. CASE t >= Threshold
  <2>1. s = 0
    BY <1>3, <1>6
  <2>2. Words(0) <= 1
    BY DEF Words, WordBytes
  <2> QED BY <1>4, <1>6, <2>1, <2>2 DEF rx_exec, s, t
<1>7. CASE AvailableResult(c) # 0 /\ ~(t >= Threshold)
  <2>0. AvailableResult(c) > 0
    BY <1>4, <1>7
  <2>1. s = n /\ n \in Nat /\ n >= FrameBytes /\ t < Threshold
    BY <1>1, <1>2, <1>3, <1>7
  <2>2. whitebox_rf_source_data_available(c) = FrameBytes
    BY <2>0 DEF whitebox_rf_source_data_available
  <2>3. Words(FrameBytes) # 0 /\ ~(Words(s) <= 1)
    BY <1>1, <2>1, SizesAssumption DEF Words, WordBytes
  <2>4. StartResult(c) = c.next /\ c.next \in Buffers
    BY <2>0, PlainStart
  <2>5. Least(FrameBytes, s) = FrameBytes
    BY <1>1, <2>1 DEF Least
  <2>6. whitebox_rf_source_work(c, h, FrameBytes)
    BY <1>4, <2>2, <2>3, <2>4, <2>5 DEF rx_exec, s
  <2> QED BY <2>0, <2>1, <2>4, <2>6 DEF whitebox_rf_source_work, t
<1> QED BY <1>5, <1>6, <1>7

(* The executor keeps the transfers and their room.                        *)
LEMMA ExecKeeps ==
  ASSUME Roomy, NEW c, NEW h, InRing(h), h % FrameBytes = 0, InRing(tail),
         Transfers(c, dma), Reserved(c, whitebox_user_sink_data_total(h, tail)),
         rx_exec(c, h)
  PROVE  Transfers(chan', dma') /\ Reserved(chan', whitebox_user_sink_data_total(h, tail))
<1>0. Plain(c)
  BY DEF Transfers
<1>1. CASE chan' = c /\ UNCHANGED dma
  BY <1>1
<1>2. CASE /\ AvailableResult(c) > 0 /\ chan' = pdma_start(c)
           /\ whitebox_user_sink_data_total(h, tail) < Threshold
           /\ dma' = [dma EXCEPT ![c.next] = [dest |-> WordOf(h), count |-> FrameBytes,
                                              left |-> Words(FrameBytes)]]
  <2>1. /\ c.next \in Buffers /\ Plain(chan')
        /\ chan'.loaded = c.loaded \cup {c.next} /\ chan'.comp = c.comp
    BY <1>0, <1>2, PlainStart
  <2>2. /\ FrameBytes \in Nat /\ FrameBytes \in 0 .. FrameBytes
        /\ Words(FrameBytes) \in Nat /\ Words(FrameBytes) > 0
    BY SizesAssumption DEF Words, WordBytes
  <2>3. WordOf(h) \in SinkSlots
    BY SinkAssumption DEF WordOf, WordBytes, SinkSlots, InRing
  <2>4. \A b \in Buffers : UnderWay(chan', b) => UnderWay(c, b) \/ b = c.next
    BY <2>1 DEF UnderWay
  <2>5. Transfers(chan', dma')
    BY <1>2, <2>1, <2>2, <2>3, <2>4 DEF Transfers
  <2>6. Reserved(chan', whitebox_user_sink_data_total(h, tail))
    <3> DEFINE t == whitebox_user_sink_data_total(h, tail)
    <3>1. t \in Int /\ t < Threshold /\ Threshold \in Nat
      BY <1>2, FrameFits, SinkAssumption
    <3> HIDE DEF t
    <3>2. Reserved(chan', t)
      BY <3>1, <2>2 DEF Reserved
    <3> QED BY <3>2 DEF t
  <2> QED BY <2>5, <2>6
<1> QED BY <1>0, <1>1, <1>2, RxExecCases

(* Producing a frame at head, consuming n bytes at tail.                   *)
LEMMA ProduceFrame ==
  ASSUME Roomy, RingOK, Total < Threshold + FrameBytes,
         NEW h, h = whitebox_user_sink_produce(head, FrameBytes)
  PROVE  /\ InRing(h) /\ h % FrameBytes = 0
         /\ whitebox_user_sink_data_total(h, tail) = Total + FrameBytes
         /\ WordAligned(FrameBytes) = FrameBytes
<1>1. /\ SinkSize \in Nat /\ SinkSize >= 8 /\ SinkSize % 4 = 0 /\ Threshold \in Nat
      /\ FrameBytes \in Nat /\ FrameBytes > 4 /\ FrameBytes % 4 = 0
  BY SinkAssumption, SizesAssumption
<1>2. InRing(head) /\ InRing(tail) /\ head % FrameBytes = 0
  BY DEF RingOK, InRing, HeadOnFrame
<1>3. head + FrameBytes <= SinkSize /\ (head + FrameBytes) % FrameBytes = 0 /\ Total \in 0 .. SinkSize - 1
  BY <1>2, FrameFits DEF Total
<1>4. 4 * Words(FrameBytes) = FrameBytes /\ WordAligned(FrameBytes) = FrameBytes
  BY <1>1 DEF Words, WordAligned, WordBytes
<1>5. head \in 0 .. SinkSize - 4 /\ head % 4 = 0 /\ tail \in 0 .. SinkSize - 4
  BY <1>2 DEF InRing
<1>6. h = IF head + FrameBytes = SinkSize THEN 0 ELSE head + FrameBytes
  <2>1. WrapToWord(head + FrameBytes, SinkSize)
          = IF head + 4 * Words(FrameBytes) = SinkSize THEN 0 ELSE head + 4 * Words(FrameBytes)
    <3>1. FrameBytes \in Nat /\ head + FrameBytes <= SinkSize
      BY <1>1, <1>3
    <3> QED BY <3>1, <1>5, Sink, WrapInside
  <2> QED BY <2>1, <1>4 DEF whitebox_user_sink_produce
<1>7. h \in 0 .. SinkSize - 4 /\ h % 4 = 0
  BY <1>1, <1>3, <1>5, <1>6
<1>8. h % FrameBytes = 0
  BY <1>1, <1>3, <1>6, ModSmall
<1>9. Total = IF head >= tail THEN head - tail ELSE head - tail + SinkSize
  BY <1>5, Sink, CntInside DEF Total, whitebox_user_sink_data_total
<1>10. whitebox_user_sink_data_total(h, tail) = IF h >= tail THEN h - tail ELSE h - tail + SinkSize
  BY <1>5, <1>7, Sink, CntInside DEF whitebox_user_sink_data_total
<1>11. Total + FrameBytes < SinkSize
  BY <1>1, <1>3 DEF Roomy
<1>12. whitebox_user_sink_data_total(h, tail) = Total + FrameBytes
  BY <1>1, <1>3, <1>5, <1>6, <1>7, <1>9, <1>10, <1>11
<1> QED BY <1>4, <1>7, <1>8, <1>12 DEF InRing

LEMMA ConsumeBytes ==
  ASSUME RingOK, NEW n \in Nat, n % 4 = 0, n <= Total, tail + n <= SinkSize,
         NEW t, t = whitebox_user_sink_consume(tail, n)
  PROVE  InRing(t) /\ whitebox_user_sink_data_total(head, t) = Total - n
<1>1. SinkSize \in Nat /\ SinkSize >= 8 /\ SinkSize % 4 = 0
  BY SinkAssumption
<1>2. head \in 0 .. SinkSize - 4 /\ tail \in 0 .. SinkSize - 4 /\ tail % 4 = 0
  BY DEF RingOK
<1>3. Total = IF head >= tail THEN head - tail ELSE head - tail + SinkSize
  BY <1>2, Sink, CntInside DEF Total, whitebox_user_sink_data_total
<1>4. t = IF tail + n = SinkSize THEN 0 ELSE tail + n
  <2>1. tail + n \in Nat
    BY <1>1, <1>2
  <2>2. CASE tail + n = SinkSize
    BY <2>1, <2>2, <1>1, ModWrap DEF whitebox_user_sink_consume, WrapToByte
  <2>3. CASE tail + n # SinkSize
    BY <2>1, <2>3, <1>1, ModSmall DEF whitebox_user_sink_consume, WrapToByte
  <2> QED BY <2>2, <2>3
<1>5. t \in 0 .. SinkSize - 4 /\ t % 4 = 0
  BY <1>1, <1>2, <1>4
<1>6. whitebox_user_sink_data_total(head, t) = IF head >= t THEN head - t ELSE head - t + SinkSize
  BY <1>2, <1>5, Sink, CntInside DEF whitebox_user_sink_data_total
<1>7. whitebox_user_sink_data_total(head, t) = Total - n
  BY <1>1, <1>2, <1>3, <1>4, <1>5, <1>6
<1> QED BY <1>5, <1>7 DEF InRing

----------------------------------------------------------------------------
(* The steps. *)

Pcs == {Idle, "fsync_down"} \cup ReadSteps \cup MmapSteps
CopySteps == {"read_copy", "read_done"}

ProcsOK ==
  /\ sem \in Procs \cup {NoProc} /\ cpu \in Procs \cup {NoProc}
  /\ proc \in [Procs -> [pc : Pcs, n : Counts \cup {0}, nb : BOOLEAN, cranks : 0 .. 2,
                         ret : Results]]

(* Process p goes to pc `to' and the others stay where they are.           *)
Moves(p, to) ==
  /\ proc' \in [Procs -> [pc : Pcs, n : Counts \cup {0}, nb : BOOLEAN, cranks : 0 .. 2,
                          ret : Results]]
  /\ proc'[p].pc = to
  /\ \A r \in Procs \ {p} : proc'[r] = proc[r]

LEMMA MovesTo ==
  ASSUME ProcsOK, NEW p \in Procs, NEW to \in Pcs,
         proc' = [proc EXCEPT ![p].pc = to]
  PROVE  Moves(p, to) /\ proc'[p].n = proc[p].n
  BY DEF ProcsOK, Moves

LEMMA MovesReturn ==
  ASSUME ProcsOK, NEW p \in Procs, NEW r \in Results, Return(p, r)
  PROVE  Moves(p, Idle) /\ cpu' = NoProc
  BY DEF ProcsOK, Moves, Return, Pcs

(* Whoever copies after a step was copying before it, or has just seen     *)
(* that its bytes are there.                                               *)
CopiersStay ==
  \A r \in Procs : proc'[r].pc \in CopySteps =>
    proc'[r].n = proc[r].n /\ (proc[r].pc \in CopySteps \/ Data >= proc[r].n)

(* A step keeps the processes right if what p's new pc asks for is so.     *)
LEMMA SemMoves ==
  ASSUME ProcsOK, SemHeld, NEW p \in Procs, NEW to, Moves(p, to),
         cpu' \in {cpu, p, NoProc},
         to \in HoldSteps <=> sem' = p,
         sem' # sem => sem' \in {p, NoProc} /\ sem \in {p, NoProc},
         to \in CopySteps => proc'[p].n = proc[p].n
                             /\ (proc[p].pc \in CopySteps \/ Data >= proc[p].n)
  PROVE  SemHeld' /\ ProcsOK' /\ CopiersStay
<1>1. \A r \in Procs : r # NoProc
  BY ProcsAssumption
<1>2. ProcsOK'
  BY DEF ProcsOK, Moves
<1>3. SemHeld'
  BY <1>1 DEF SemHeld, Moves
<1>4. CopiersStay
  BY DEF CopiersStay, Moves
<1> QED BY <1>2, <1>3, <1>4

(* Process p's own steps.                                                  *)
LEMMA OperationControl ==
  ASSUME ProcsOK, SemHeld, NEW p \in Procs,
         Operation(p) \/ Signal(p) \/ ReadFault(p)
  PROVE  SemHeld' /\ ProcsOK' /\ CopiersStay
<1>0. p # NoProc /\ (proc[p].pc \in HoldSteps <=> sem = p) /\ Idle \notin HoldSteps \cup CopySteps
  BY ProcsAssumption DEF SemHeld, HoldSteps, CopySteps, Idle
<1> USE DEF HoldSteps, CopySteps
<1>1. CASE Signal(p)
  <2>1. Return(p, "ERESTARTSYS") /\ sem' = sem /\ proc[p].pc \notin HoldSteps
    BY <1>1 DEF Signal, Step, DownSteps
  <2>2. Moves(p, Idle) /\ cpu' = NoProc
    BY <2>1, MovesReturn DEF Results
  <2> QED BY <1>0, <2>1, <2>2, SemMoves
<1>2. CASE ReadFault(p)
  <2>1. Return(p, "EFAULT") /\ sem' = NoProc /\ sem = p
    BY <1>0, <1>2 DEF ReadFault, Step, Up
  <2>2. Moves(p, Idle) /\ cpu' = NoProc
    BY <2>1, MovesReturn DEF Results
  <2> QED BY <1>0, <2>1, <2>2, SemMoves
<1>3. CASE ReadEnter(p)
  <2>1. sem' = sem /\ sem = NoProc
    BY <1>3 DEF ReadEnter
  <2>2. ASSUME NEW r \in {"EBUSY", "ok"}, Return(p, r)
        PROVE  SemHeld' /\ ProcsOK' /\ CopiersStay
    <3>1. Moves(p, Idle) /\ cpu' = NoProc
      BY <2>2, MovesReturn DEF Results
    <3> QED BY <1>0, <2>1, <3>1, SemMoves
  <2>3. ASSUME NEW s \in {"read_crank", "read_exec"}, Go(p, s)
        PROVE  SemHeld' /\ ProcsOK' /\ CopiersStay
    <3>1. Moves(p, s) /\ cpu' = p
      BY <2>3, MovesTo DEF Go, Pcs, ReadSteps
    <3> QED BY <1>0, <2>1, <3>1, SemMoves
  <2> QED BY <1>3, <2>2, <2>3 DEF ReadEnter
<1>4. CASE RxCrank(p)
  <2> DEFINE to == IF proc[p].cranks < 2 THEN proc[p].pc
                   ELSE IF proc[p].pc = "mmap_crank" THEN "mmap_count"
                   ELSE IF proc[p].nb THEN "read_redown" ELSE "read_spin"
             k == (proc[p].cranks + 1) % 3
  <2>1. /\ sem' = sem /\ proc[p].pc \in {"read_crank", "mmap_crank"} /\ cpu' = p
        /\ proc' = [proc EXCEPT ![p].cranks = k, ![p].pc = to]
    BY <1>4 DEF RxCrank, Step
  <2>2. proc[p].cranks \in 0 .. 2
    BY DEF ProcsOK
  <2>3. k \in 0 .. 2
    BY <2>2
  <2>4. to \in {"read_crank", "mmap_crank", "mmap_count", "read_redown", "read_spin"}
    BY <2>1
  <2> HIDE DEF to, k
  <2>5. to \in Pcs
    BY <2>4 DEF Pcs, ReadSteps, MmapSteps
  <2>6. Moves(p, to)
    BY <2>1, <2>3, <2>5 DEF Moves, ProcsOK
  <2> QED BY <1>0, <2>1, <2>4, <2>6, SemMoves
<1>5. CASE ReadSpin(p)
  <2>1. Moves(p, "read_redown") /\ cpu' = p /\ sem' = sem /\ proc[p].pc = "read_spin"
    BY <1>5, MovesTo DEF ReadSpin, Step, Go, Pcs, ReadSteps
  <2> QED BY <1>0, <2>1, SemMoves
<1>6. CASE ReadExec(p)
  <2>1. PICK s \in {"read_redown", "read_wait"} :
          Go(p, s) /\ sem' = sem /\ proc[p].pc \in {"read_exec", "read_reexec"}
    BY <1>6 DEF ReadExec, Step
  <2>2. Moves(p, s) /\ cpu' = p
    BY <2>1, MovesTo DEF Go, Pcs, ReadSteps
  <2> QED BY <1>0, <2>1, <2>2, SemMoves
<1>7. CASE ReadRedown(p)
  <2>1. Moves(p, "read_check") /\ cpu' = p /\ sem' = p /\ sem = NoProc
    BY <1>7, MovesTo DEF ReadRedown, Go, Down, Pcs, ReadSteps
  <2> QED BY <1>0, <2>1, SemMoves
<1>8. CASE ReadCheck(p)
  <2>1. sem = p
    BY <1>0, <1>8 DEF ReadCheck, Step
  <2>2. ASSUME NEW r \in {"EIO", "EAGAIN"}, Return(p, r), Up
        PROVE  SemHeld' /\ ProcsOK' /\ CopiersStay
    <3>1. Moves(p, Idle) /\ cpu' = NoProc /\ sem' = NoProc
      BY <2>2, MovesReturn DEF Results, Up
    <3> QED BY <1>0, <2>1, <3>1, SemMoves
  <2>3. CASE Data >= proc[p].n /\ Go(p, "read_copy") /\ UNCHANGED sem
    <3>1. Moves(p, "read_copy") /\ cpu' = p /\ sem' = p /\ proc'[p].n = proc[p].n
      BY <2>1, <2>3, MovesTo DEF Go, Pcs, ReadSteps
    <3> QED BY <1>0, <2>1, <2>3, <3>1, SemMoves
  <2>4. CASE Go(p, "read_reexec") /\ Up
    <3>1. Moves(p, "read_reexec") /\ cpu' = p /\ sem' = NoProc
      BY <2>4, MovesTo DEF Go, Up, Pcs, ReadSteps
    <3> QED BY <1>0, <2>1, <3>1, SemMoves
  <2> QED BY <1>8, <2>2, <2>3, <2>4 DEF ReadCheck
<1>9. CASE ReadWait(p)
  <2>1. PICK s \in {"read_redown", "read_sleep"} :
          /\ proc' = [proc EXCEPT ![p].pc = s] /\ cpu' \in {p, NoProc}
          /\ sem' = sem /\ proc[p].pc = "read_wait"
    BY <1>9 DEF ReadWait, Step, Sleep
  <2>2. Moves(p, s)
    BY <2>1, MovesTo DEF Pcs, ReadSteps
  <2> QED BY <1>0, <2>1, <2>2, SemMoves
<1>10. CASE ReadCopy(p)
  <2>1. /\ proc' = [proc EXCEPT ![p].pc = "read_done"] /\ cpu' \in {p, NoProc}
        /\ sem' = sem /\ proc[p].pc = "read_copy"
    BY <1>10 DEF ReadCopy, Step, Go, Sleep
  <2>2. Moves(p, "read_done") /\ proc'[p].n = proc[p].n
    BY <2>1, MovesTo DEF Pcs, ReadSteps
  <2> QED BY <1>0, <2>1, <2>2, SemMoves
<1>11. CASE ReadDone(p)
  <2>1. Return(p, "ok") /\ sem' = NoProc /\ sem = p
    BY <1>0, <1>11 DEF ReadDone, Step, Up
  <2>2. Moves(p, Idle) /\ cpu' = NoProc
    BY <2>1, MovesReturn DEF Results
  <2> QED BY <1>0, <2>1, <2>2, SemMoves
<1>12. CASE MmapEnter(p)
  <2>1. sem' = sem /\ sem = NoProc
    BY <1>12 DEF MmapEnter
  <2>2. CASE Return(p, "EBADFD")
    <3>1. Moves(p, Idle) /\ cpu' = NoProc
      BY <2>2, MovesReturn DEF Results
    <3> QED BY <1>0, <2>1, <3>1, SemMoves
  <2>3. ASSUME NEW s \in {"mmap_crank", "mmap_stream"}, Go(p, s)
        PROVE  SemHeld' /\ ProcsOK' /\ CopiersStay
    <3>1. Moves(p, s) /\ cpu' = p
      BY <2>3, MovesTo DEF Go, Pcs, MmapSteps
    <3> QED BY <1>0, <2>1, <3>1, SemMoves
  <2> QED BY <1>12, <2>2, <2>3 DEF MmapEnter
<1>13. CASE MmapStream(p)
  <2>1. sem' = sem /\ proc[p].pc = "mmap_stream"
    BY <1>13 DEF MmapStream, Step
  <2>2. CASE Return(p, "BUG")
    <3>1. Moves(p, Idle) /\ cpu' = NoProc
      BY <2>2, MovesReturn DEF Results
    <3> QED BY <1>0, <2>1, <3>1, SemMoves
  <2>3. CASE Go(p, "mmap_count")
    <3>1. Moves(p, "mmap_count") /\ cpu' = p
      BY <2>3, MovesTo DEF Go, Pcs, MmapSteps
    <3> QED BY <1>0, <2>1, <3>1, SemMoves
  <2> QED BY <1>13, <2>2, <2>3 DEF MmapStream
<1>14. CASE MmapCount(p)
  <2>1. PICK r \in {"EIO", "ok"} : Return(p, r) /\ sem' = sem /\ proc[p].pc = "mmap_count"
    BY <1>14 DEF MmapCount, Step
  <2>2. Moves(p, Idle) /\ cpu' = NoProc
    BY <2>1, MovesReturn DEF Results
  <2> QED BY <1>0, <2>1, <2>2, SemMoves
<1>15. CASE FsyncRx(p)
  <2>1. Return(p, "ok") /\ sem' = sem /\ proc[p].pc = "fsync_down"
    BY <1>15 DEF FsyncRx, Step
  <2>2. Moves(p, Idle) /\ cpu' = NoProc
    BY <2>1, MovesReturn DEF Results
  <2> QED BY <1>0, <2>1, <2>2, SemMoves
<1> QED BY <1>1, <1>2, <1>3, <1>4, <1>5, <1>6, <1>7, <1>8, <1>9, <1>10, <1>11, <1>12,
           <1>13, <1>14, <1>15 DEF Operation

(* Every step keeps the processes right.                                   *)
LEMMA ControlStep ==
  ASSUME ProcsOK, SemHeld, Next PROVE SemHeld' /\ ProcsOK' /\ CopiersStay
<1> USE DEF HoldSteps, CopySteps
<1>1. ASSUME NEW p \in Procs, NEW pc \in {"read_down", "mmap_down", "fsync_down"},
             NEW n \in Counts \cup {0}, NEW nb \in BOOLEAN, Call(p, pc, n, nb)
      PROVE  SemHeld' /\ ProcsOK' /\ CopiersStay
  <2>1. /\ proc' = [proc EXCEPT ![p] = [pc |-> pc, n |-> n, nb |-> nb, cranks |-> 0,
                                        ret |-> "none"]]
        /\ sem' = sem /\ cpu' = cpu /\ proc[p].pc = Idle
    BY <1>1 DEF Call
  <2>2. pc \in Pcs /\ "none" \in Results /\ 0 \in 0 .. 2
    BY DEF Pcs, ReadSteps, MmapSteps, Results
  <2>3. Moves(p, pc)
    BY <2>1, <2>2 DEF Moves, ProcsOK
  <2>4. sem # p /\ pc \notin HoldSteps
    BY <2>1 DEF SemHeld, Idle
  <2> QED BY <2>1, <2>3, <2>4, SemMoves
<1>2. ASSUME NEW p \in Procs, CallRead(p) \/ CallMmap(p) \/ CallFsync(p)
      PROVE  SemHeld' /\ ProcsOK' /\ CopiersStay
  <2>1. NonBlock \subseteq BOOLEAN
    BY SizesAssumption
  <2> QED BY <1>1, <1>2, <2>1 DEF CallRead, CallMmap, CallFsync
<1>3. ASSUME NEW p \in Procs, Poll(p) PROVE SemHeld' /\ ProcsOK' /\ CopiersStay
  <2>1. proc' = [proc EXCEPT ![p].ret = "EIO"] /\ sem' = sem /\ cpu' = cpu /\ proc[p].pc = Idle
    BY <1>3 DEF Poll
  <2>2. Moves(p, Idle)
    BY <2>1 DEF Moves, ProcsOK, Results
  <2>3. sem # p /\ Idle \notin HoldSteps
    BY <2>1 DEF SemHeld, Idle
  <2> QED BY <2>1, <2>2, <2>3, SemMoves
<1>4. ASSUME UNCHANGED <<sem, cpu, proc>> PROVE SemHeld' /\ ProcsOK' /\ CopiersStay
  BY <1>4 DEF SemHeld, ProcsOK, CopiersStay
<1>5. CASE Irq
  <2>1. /\ sem' = sem /\ cpu' = cpu
        /\ proc' = [p \in Procs |-> IF proc[p].pc = "read_sleep"
                                    THEN [proc[p] EXCEPT !.pc = "read_wait"] ELSE proc[p]]
    BY <1>5 DEF Irq
  <2>2. "read_wait" \in Pcs
    BY DEF Pcs, ReadSteps
  <2>3. ProcsOK'
    BY <2>1, <2>2 DEF ProcsOK
  <2>4. \A r \in Procs : \/ proc'[r] = proc[r]
                         \/ proc[r].pc = "read_sleep" /\ proc'[r].pc = "read_wait"
    BY <2>1 DEF ProcsOK
  <2>5. SemHeld' /\ CopiersStay
    BY <2>1, <2>4 DEF SemHeld, CopiersStay
  <2> QED BY <2>3, <2>5
<1>6. ASSUME NEW p \in Procs, ReceiverClear(p) PROVE UNCHANGED <<sem, cpu, proc>>
  BY <1>6 DEF ReceiverClear, procVars
<1>7. Transmit \/ AdcSample \/ DmaWord => UNCHANGED <<sem, cpu, proc>>
  BY DEF Transmit, AdcSample, DmaWord, procVars
<1> QED BY <1>2, <1>3, <1>4, <1>5, <1>6, <1>7, OperationControl DEF Next

(* What a step does to the ring and to the DMA.                            *)
LEMMA Effects ==
  ASSUME Next
  PROVE  \/ UNCHANGED ringVars /\ UNCHANGED dmaVars
         \/ UNCHANGED ringVars /\ chan' = pdma_clear(chan, 0) /\ UNCHANGED dma
         \/ UNCHANGED ringVars /\ rx_exec(chan, head)
         \/ \E p \in Procs : ReadDone(p)
         \/ DmaWord \/ Irq
<1> USE DEF dmaVars
<1>1. ASSUME NEW p \in Procs, CallRead(p) \/ CallMmap(p) \/ CallFsync(p) \/ Poll(p) \/ Signal(p) \/ ReadFault(p)
      PROVE  UNCHANGED ringVars /\ UNCHANGED dmaVars
  BY <1>1 DEF CallRead, CallMmap, CallFsync, Call, Poll, Signal, ReadFault
<1>2. ASSUME NEW p \in Procs, ReceiverClear(p)
      PROVE  UNCHANGED ringVars /\ UNCHANGED dma /\ chan' \in {chan, pdma_clear(chan, 0)}
  BY <1>2 DEF ReceiverClear
<1>3. ASSUME NEW p \in Procs, ReadEnter(p) \/ ReadSpin(p) \/ ReadRedown(p) \/ ReadCheck(p)
                              \/ ReadWait(p) \/ ReadCopy(p) \/ MmapEnter(p) \/ MmapCount(p)
      PROVE  UNCHANGED ringVars /\ UNCHANGED dmaVars
  BY <1>3 DEF ReadEnter, ReadSpin, ReadRedown, ReadCheck, ReadWait, ReadCopy, MmapEnter, MmapCount
<1>4. ASSUME NEW p \in Procs, RxCrank(p)
      PROVE  /\ UNCHANGED ringVars
             /\ (chan' = pdma_clear(chan, 0) /\ UNCHANGED dma) \/ rx_exec(chan, head)
  BY <1>4 DEF RxCrank, rx_start
<1>5. ASSUME NEW p \in Procs, ReadExec(p) PROVE UNCHANGED ringVars /\ rx_exec(chan, head)
  BY <1>5 DEF ReadExec
<1>6. ASSUME NEW p \in Procs, MmapStream(p)
      PROVE  UNCHANGED ringVars /\ (UNCHANGED dmaVars \/ rx_exec(chan, head))
  BY <1>6 DEF MmapStream
<1>7. ASSUME NEW p \in Procs, FsyncRx(p)
      PROVE  UNCHANGED ringVars /\ UNCHANGED dma /\ chan' \in {chan, pdma_clear(chan, 0)}
  BY <1>7 DEF FsyncRx, rx_stop
<1>8. Transmit \/ AdcSample => UNCHANGED ringVars /\ UNCHANGED dmaVars
  BY DEF Transmit, AdcSample
<1> QED BY <1>1, <1>2, <1>3, <1>4, <1>5, <1>6, <1>7, <1>8 DEF Next, Operation

LEMMA CountWords ==
  ASSUME ProcsOK, NEW p \in Procs PROVE proc[p].n \in Nat /\ proc[p].n % 4 = 0
<1>1. proc[p].n \in Counts \cup {0}
  BY DEF ProcsOK
<1>2. \A n \in Counts \cup {0} : n \in Nat /\ n % 4 = 0
  BY SizesAssumption
<1> QED BY <1>1, <1>2

(* A ring left alone, and the copiers, after a step.                       *)
LEMMA StillRing ==
  ASSUME RingOK, CopyFits, CopiersStay, ProcsOK, UNCHANGED ringVars
  PROVE  RingOK' /\ CopyFits' /\ Total' = Total
<1>1. head' = head /\ tail' = tail /\ unread' = unread
  BY DEF ringVars
<1>2. RingOK' /\ Total' = Total
  BY <1>1 DEF RingOK, HeadOnFrame, RingAccounting, Total
<1>3. Data \in Nat /\ tail + Data <= SinkSize /\ Data <= Total
  BY Sink, CntToEnd DEF RingOK, Data, Total, whitebox_user_sink_data_available,
     whitebox_user_sink_data_total
<1>4. SinkSize \in Nat /\ tail \in Int /\ Total \in Int
  <2>1. head \in 0 .. SinkSize - 4 /\ tail \in 0 .. SinkSize - 4
    BY DEF RingOK
  <2>2. SinkSize \in Nat
    BY SinkAssumption
  <2>3. Total = IF head >= tail THEN head - tail ELSE head - tail + SinkSize
    BY <2>1, Sink, CntInside DEF Total, whitebox_user_sink_data_total
  <2> QED BY <2>1, <2>2, <2>3
<1>5. CopyFits'
  <2> SUFFICES ASSUME NEW p \in Procs, proc'[p].pc \in {"read_copy", "read_done"}
               PROVE  tail' + proc'[p].n <= SinkSize /\ proc'[p].n <= Total'
    BY DEF CopyFits
  <2>1. proc'[p].n = proc[p].n /\ (proc[p].pc \in CopySteps \/ Data >= proc[p].n)
    BY DEF CopiersStay, CopySteps
  <2>2. proc[p].n \in Nat
    BY CountWords
  <2>3. CASE proc[p].pc \in CopySteps
    BY <1>1, <1>2, <2>1, <2>3 DEF CopyFits, CopySteps
  <2>4. CASE Data >= proc[p].n
    <3>1. PICK d \in Nat : d = Data
      BY <1>3
    <3>2. PICK n \in Nat : n = proc[p].n
      BY <2>2
    <3>3. d >= n /\ tail + d <= SinkSize /\ d <= Total
      BY <1>3, <2>4, <3>1, <3>2
    <3>4. tail + n <= SinkSize /\ n <= Total
      BY <1>4, <3>3
    <3> QED BY <1>1, <1>2, <2>1, <3>2, <3>4
  <2> QED BY <2>1, <2>3, <2>4
<1> QED BY <1>2, <1>5

(* The total is a number.                                                  *)
LEMMA TotalNat ==
  ASSUME RingOK PROVE Total \in Nat
<1>1. head \in 0 .. SinkSize - 4 /\ tail \in 0 .. SinkSize - 4 /\ SinkSize \in Nat
  BY SinkAssumption DEF RingOK
<1>2. Total = IF head >= tail THEN head - tail ELSE head - tail + SinkSize
  BY <1>1, Sink, CntInside DEF Total, whitebox_user_sink_data_total
<1> QED BY <1>1, <1>2

(* A copying reader's consume.                                             *)
LEMMA DoneStep ==
  ASSUME Kept, ProcsOK, SemHeld, SemHeld', NEW p \in Procs, ReadDone(p)
  PROVE  Kept'
<1>1. /\ tail' = whitebox_user_sink_consume(tail, proc[p].n)
      /\ unread' = unread - proc[p].n /\ head' = head /\ chan' = chan /\ dma' = dma
      /\ sem' = NoProc /\ proc[p].pc = "read_done"
  BY DEF ReadDone, dmaVars, Up, Step
<1>2. PICK n \in Nat : n = proc[p].n /\ n % 4 = 0
  BY CountWords
<1>3. RingOK /\ Transfers(chan, dma) /\ Reserved(chan, Total) /\ CopyFits
  BY DEF Kept
<1>4. tail + n <= SinkSize /\ n <= Total
  BY <1>1, <1>2, <1>3 DEF CopyFits
<1>5. InRing(tail') /\ Total' = Total - n
  BY <1>1, <1>2, <1>3, <1>4, ConsumeBytes DEF Total
<1>6. PICK t \in Nat : t = Total
  BY <1>3, TotalNat
<1>7. RingOK'
  BY <1>1, <1>2, <1>3, <1>5 DEF RingOK, InRing, HeadOnFrame, RingAccounting, Total
<1>8. Transfers(chan, dma)'
  BY <1>1, <1>3 DEF Transfers
<1>9. Reserved(chan, Total)'
  <2>1. FrameBytes \in Nat /\ Threshold \in Nat
    BY SinkAssumption, SizesAssumption
  <2>2. t - n \in Nat /\ t - n <= t
    BY <1>2, <1>4, <1>6
  <2>3. Reserved(chan, t)
    BY <1>3, <1>6
  <2>4. Reserved(chan, t - n)
    BY <2>1, <2>2, <2>3 DEF Reserved
  <2>5. Total' = t - n
    BY <1>5, <1>6
  <2> QED BY <1>1, <2>4, <2>5 DEF Reserved
<1>10. CopyFits'
  <2>1. \A r \in Procs : proc'[r].pc \notin HoldSteps
    BY <1>1, ProcsAssumption DEF SemHeld
  <2> QED BY <2>1 DEF CopyFits, HoldSteps
<1> QED BY <1>7, <1>8, <1>9, <1>10 DEF Kept

(* The interrupt: the frame its buffer brought was reserved.               *)
LEMMA IrqStep ==
  ASSUME Roomy, Kept, ProcsOK, CopiersStay, Irq
  PROVE  Kept'
<1> DEFINE buf == IF B \in chan.comp THEN B ELSE A
           h   == whitebox_user_sink_produce(head, dma[buf].count)
           d   == IrqAcknowledge(chan)
<1>1. /\ chan.comp # {} /\ head' = h /\ tail' = tail
      /\ unread' = unread + WordAligned(dma[buf].count) /\ rx_exec(d, h)
  BY DEF Irq, whitebox_rf_source_work_done
<1>2. RingOK /\ Transfers(chan, dma) /\ Reserved(chan, Total) /\ CopyFits
  BY DEF Kept
<1>3. Plain(chan)
  BY <1>2 DEF Transfers
<1>4. /\ Plain(d) /\ d.loaded = chan.loaded /\ d.comp = {}
  BY <1>3, PlainAcknowledge
<1>5. buf \in Buffers /\ buf \in chan.comp
  BY <1>1, <1>3, PlainFacts, BuffersAB
<1>6. dma[buf].count = FrameBytes
  BY <1>2, <1>5 DEF Transfers, UnderWay
<1>7. UnderWay(chan, A) \/ UnderWay(chan, B)
  BY <1>5, BuffersAB DEF UnderWay
<1>8. Total < Threshold + FrameBytes
  BY <1>2, <1>7 DEF Reserved
<1>9. h = whitebox_user_sink_produce(head, FrameBytes)
  BY <1>6
<1>10. unread' = unread + WordAligned(FrameBytes)
  BY <1>1, <1>6
<1> HIDE DEF h, d, buf
<1>11. /\ InRing(h) /\ h % FrameBytes = 0
       /\ whitebox_user_sink_data_total(h, tail) = Total + FrameBytes
       /\ WordAligned(FrameBytes) = FrameBytes
  BY <1>2, <1>8, <1>9, ProduceFrame
<1>12. InRing(tail) /\ InRing(head)
  BY <1>2 DEF RingOK, InRing
<1>13. Transfers(d, dma)
  BY <1>2, <1>4 DEF Transfers, UnderWay
<1>14. FrameBytes \in Nat /\ Threshold \in Nat
  BY SinkAssumption, SizesAssumption
<1>15. PICK t \in Nat : t = Total
  BY <1>2, TotalNat
<1>16. Reserved(d, t + FrameBytes)
  <2>1. ~(UnderWay(d, A) /\ UnderWay(d, B))
    BY <1>3, <1>4, <1>5, PlainFacts, BuffersAB DEF UnderWay
  <2>2. UnderWay(d, A) \/ UnderWay(d, B) => UnderWay(chan, A) /\ UnderWay(chan, B)
    BY <1>3, <1>4, <1>5, PlainFacts, BuffersAB DEF UnderWay
  <2>3. t < Threshold + FrameBytes /\ (UnderWay(chan, A) /\ UnderWay(chan, B) => t < Threshold)
    BY <1>2, <1>8, <1>15 DEF Reserved
  <2> QED BY <1>14, <2>1, <2>2, <2>3 DEF Reserved
<1>17. whitebox_user_sink_data_total(h, tail) = t + FrameBytes
  BY <1>11, <1>15
<1>18. Transfers(chan', dma') /\ Reserved(chan', t + FrameBytes)
  BY <1>1, <1>11, <1>12, <1>13, <1>16, <1>17, ExecKeeps
<1>19. Total' = t + FrameBytes
  BY <1>1, <1>17 DEF Total
<1>20. RingOK'
  <2>1. unread = t
    BY <1>2, <1>15 DEF RingOK, RingAccounting, Total
  <2>2. RingAccounting'
    BY <1>10, <1>11, <1>19, <2>1 DEF RingAccounting, Total
  <2>3. HeadOnFrame'
    BY <1>1, <1>11 DEF HeadOnFrame
  <2> QED BY <1>1, <1>11, <1>12, <2>2, <2>3 DEF RingOK, InRing
<1>21. CopyFits'
  <2> SUFFICES ASSUME NEW p \in Procs, proc'[p].pc \in {"read_copy", "read_done"}
               PROVE  tail' + proc'[p].n <= SinkSize /\ proc'[p].n <= Total'
    BY DEF CopyFits
  <2>1. PICK n \in Nat : n = proc[p].n
    BY CountWords
  <2>2. proc'[p].n = n /\ proc[p].pc \in CopySteps
    <3>1. "read_sleep" \notin CopySteps /\ "read_wait" \notin CopySteps
      BY DEF CopySteps
    <3>2. proc' = [r \in Procs |-> IF proc[r].pc = "read_sleep"
                                   THEN [proc[r] EXCEPT !.pc = "read_wait"] ELSE proc[r]]
      BY DEF Irq
    <3>3. proc'[p] = proc[p]
      BY <3>1, <3>2 DEF CopySteps, ProcsOK
    <3> QED BY <2>1, <3>3 DEF CopySteps
  <2>3. tail + n <= SinkSize /\ n <= t
    BY <1>2, <1>15, <2>1, <2>2 DEF CopyFits, CopySteps
  <2>4. n <= t + FrameBytes
    BY <1>14, <2>3
  <2> QED BY <1>1, <1>19, <2>2, <2>3, <2>4
<1>22. Reserved(chan, Total)'
  BY <1>18, <1>19 DEF Reserved
<1>23. Transfers(chan, dma)'
  BY <1>18
<1> QED BY <1>20, <1>21, <1>22, <1>23 DEF Kept

(* A word moved by the DMA.                                                *)
LEMMA DmaKeeps ==
  ASSUME Transfers(chan, dma), NEW n, Reserved(chan, n), DmaWord
  PROVE  Transfers(chan', dma') /\ Reserved(chan', n)
<1>1. PICK b \in Buffers : b = chan.sel /\ b \in chan.loaded
  BY PlainFacts DEF DmaWord, HwCanComplete, Transfers
<1>2. PICK x \in Nat : x = dma[b].left /\ x > 0
  BY <1>1 DEF Transfers
<1>3. /\ dma' = [dma EXCEPT ![b].left = x - 1]
      /\ chan' = IF x = 1 THEN HwComplete(chan) ELSE chan
      /\ HwCanComplete(chan) /\ Plain(chan)
  BY <1>1, <1>2 DEF DmaWord, Transfers
<1>4. x - 1 \in Nat /\ (x # 1 => x - 1 > 0)
  BY <1>2
<1>5. /\ Plain(chan') /\ \A c \in Buffers : UnderWay(chan', c) <=> UnderWay(chan, c)
      /\ chan'.loaded = IF x = 1 THEN chan.loaded \ {b} ELSE chan.loaded
  BY <1>1, <1>3, PlainComplete
<1>6. dma \in [Buffers -> [dest : SinkSlots, count : 0 .. FrameBytes, left : Nat]]
  BY DEF Transfers
<1>7. /\ dma' \in [Buffers -> [dest : SinkSlots, count : 0 .. FrameBytes, left : Nat]]
      /\ dma'[b].left = x - 1 /\ dma'[b].count = dma[b].count
      /\ \A c \in Buffers : c # b => dma'[c] = dma[c]
  BY <1>3, <1>4, <1>6
<1>8. Transfers(chan', dma')
  BY <1>4, <1>5, <1>7 DEF Transfers
<1>9. Reserved(chan', n)
  BY <1>5, BuffersAB DEF Reserved
<1> QED BY <1>8, <1>9

(* pdma_clear leaves nothing under way.                                    *)
LEMMA ClearKeeps ==
  ASSUME Transfers(chan, dma), NEW n, Reserved(chan, n)
  PROVE  Transfers(pdma_clear(chan, 0), dma) /\ Reserved(pdma_clear(chan, 0), n)
<1> DEFINE d == pdma_clear(chan, 0)
<1>1. Plain(d) /\ d.loaded = {} /\ d.comp = {}
  BY PlainClear DEF Transfers
<1> HIDE DEF d
<1>2. Transfers(d, dma) /\ Reserved(d, n)
  BY <1>1 DEF Transfers, Reserved, UnderWay
<1> QED BY <1>2 DEF d

LEMMA KeptStep ==
  ASSUME Roomy, Kept, ProcsOK, SemHeld, Next PROVE Kept'
<1>0. SemHeld' /\ CopiersStay
  BY ControlStep
<1>1. RingOK /\ Transfers(chan, dma) /\ Reserved(chan, Total) /\ CopyFits
  BY DEF Kept
<1>2. ASSUME UNCHANGED ringVars, Transfers(chan', dma'), Reserved(chan', Total) PROVE Kept'
  <2>1. RingOK' /\ CopyFits' /\ Total' = Total
    BY <1>0, <1>1, <1>2, StillRing
  <2>2. Transfers(chan, dma)' /\ Reserved(chan, Total)'
    BY <1>2, <2>1 DEF Transfers, Reserved
  <2> QED BY <2>1, <2>2 DEF Kept
<1>3. CASE UNCHANGED ringVars /\ UNCHANGED dmaVars
  BY <1>1, <1>2, <1>3 DEF dmaVars
<1>4. CASE UNCHANGED ringVars /\ chan' = pdma_clear(chan, 0) /\ UNCHANGED dma
  BY <1>1, <1>2, <1>4, ClearKeeps
<1>5. CASE UNCHANGED ringVars /\ rx_exec(chan, head)
  <2>1. InRing(head) /\ head % FrameBytes = 0 /\ InRing(tail)
    BY <1>1 DEF RingOK, InRing, HeadOnFrame
  <2>2. Transfers(chan', dma') /\ Reserved(chan', Total)
    BY <1>1, <1>5, <2>1, ExecKeeps DEF Total
  <2> QED BY <1>2, <1>5, <2>2
<1>6. CASE DmaWord
  <2>1. UNCHANGED ringVars
    BY <1>6 DEF DmaWord
  <2> QED BY <1>1, <1>2, <1>6, <2>1, DmaKeeps
<1> QED BY <1>0, <1>3, <1>4, <1>5, <1>6, DoneStep, IrqStep, Effects

(* The rest of the type invariant: the state, and the receiver.            *)
ReceiverOK ==
  /\ state \in {IDLE, RX_STREAMING, TX}
  /\ fifo \in 0 .. FifoSize /\ rxen \in BOOLEAN
  /\ runs \in 0 .. RunsModulus - 1 /\ cur_runs \in 0 .. RunsModulus - 1

LEMMA ReceiverStep ==
  ASSUME ReceiverOK, Next PROVE ReceiverOK'
<1>0. FifoSize \in Nat /\ RunsModulus \in Nat /\ RunsModulus > 1
  BY SizesAssumption
<1>1. 0 \in 0 .. FifoSize /\ 0 \in 0 .. RunsModulus - 1
  BY <1>0
<1>2. ASSUME state' \in {state, IDLE, RX_STREAMING, TX},
             \/ UNCHANGED rcvVars
             \/ Clear /\ rxen' \in BOOLEAN,
             cur_runs' \in {cur_runs, runs, 0}
      PROVE  ReceiverOK'
  BY <1>1, <1>2 DEF ReceiverOK, rcvVars, Clear
<1>3. ASSUME NEW p \in Procs, CallRead(p) \/ CallMmap(p) \/ CallFsync(p) \/ Poll(p) \/ Signal(p)
                              \/ ReadFault(p) \/ ReceiverClear(p)
      PROVE  ReceiverOK'
  BY <1>2, <1>3 DEF CallRead, CallMmap, CallFsync, Call, Poll, Signal, ReadFault,
     ReceiverClear, procVars
<1>4. ASSUME NEW p \in Procs, ReadEnter(p) \/ RxCrank(p) \/ ReadSpin(p) \/ ReadExec(p) \/ ReadRedown(p)
      PROVE  ReceiverOK'
  BY <1>2, <1>4 DEF ReadEnter, RxCrank, rx_start, ReadSpin, ReadExec, ReadRedown
<1>5. ASSUME NEW p \in Procs, ReadCheck(p) \/ ReadWait(p) \/ ReadCopy(p) \/ ReadDone(p)
      PROVE  ReceiverOK'
  BY <1>2, <1>5 DEF ReadCheck, ReadWait, ReadCopy, ReadDone
<1>6. ASSUME NEW p \in Procs, MmapEnter(p) \/ MmapStream(p) \/ MmapCount(p) \/ FsyncRx(p)
      PROVE  ReceiverOK'
  BY <1>2, <1>6 DEF MmapEnter, MmapStream, MmapCount, FsyncRx, rx_stop
<1>7. Transmit \/ Irq => ReceiverOK'
  BY <1>2 DEF Transmit, Irq
<1>8. CASE DmaWord
  <2>1. fifo > 0 /\ fifo' = fifo - 1 /\ UNCHANGED <<state, rxen, runs, cur_runs>>
    BY <1>8 DEF DmaWord, procVars
  <2> QED BY <1>0, <2>1 DEF ReceiverOK
<1>9. CASE AdcSample
  <2>1. UNCHANGED <<state, rxen, cur_runs>>
    BY <1>9 DEF AdcSample, procVars
  <2>2. fifo' \in 0 .. FifoSize
    BY <1>0, <1>9 DEF AdcSample, ReceiverOK
  <2>3. runs' \in 0 .. RunsModulus - 1
    <3>1. runs \in Nat
      BY <1>0 DEF ReceiverOK
    <3>2. (runs + 1) % RunsModulus \in 0 .. RunsModulus - 1
      BY <1>0, <3>1, Z3
    <3> QED BY <3>2, <1>9 DEF AdcSample, ReceiverOK
  <2> QED BY <2>1, <2>2, <2>3 DEF ReceiverOK
<1> QED BY <1>3, <1>4, <1>5, <1>6, <1>7, <1>8, <1>9 DEF Next, Operation

(* The parts of the type invariant.                                        *)
LEMMA TypeParts ==
  ASSUME Kept PROVE TypeOK <=> ProcsOK /\ ReceiverOK
<1>1. /\ head \in 0 .. SinkSize - 4 /\ tail \in 0 .. SinkSize - 4 /\ unread \in Nat
      /\ chan \in Channel
      /\ dma \in [Buffers -> [dest : SinkSlots, count : 0 .. FrameBytes, left : Nat]]
  BY PlainFacts, TotalNat DEF Kept, RingOK, RingAccounting, Total, Transfers
<1> QED BY <1>1 DEF TypeOK, ProcsOK, ReceiverOK, Pcs

LEMMA Initially == ASSUME Roomy, Init PROVE IInv
<1>1. ProcsOK /\ ReceiverOK
  <2>1. Idle \in Pcs /\ "none" \in Results
    BY DEF Pcs, Results
  <2>2. 0 \in Counts \cup {0} /\ 0 \in 0 .. 2
    OBVIOUS
  <2>3. ProcsOK
    BY <2>1, <2>2 DEF Init, ProcsOK
  <2>4. FifoSize \in Nat /\ RunsModulus \in Nat /\ RunsModulus > 1
    BY SizesAssumption
  <2>5. 0 \in 0 .. FifoSize /\ 0 \in 0 .. RunsModulus - 1
    BY <2>4
  <2>6. ReceiverOK
    BY <2>5 DEF Init, ReceiverOK
  <2> QED BY <2>3, <2>6
<1>2. SemHeld
  BY ProcsAssumption DEF Init, SemHeld, HoldSteps, Idle
<1>3. CopyFits
  BY DEF Init, CopyFits, Idle
<1>4. RingOK
  <2>1. SinkSize \in Nat /\ SinkSize >= 8 /\ FrameBytes \in Nat /\ FrameBytes > 4
    BY SinkAssumption, SizesAssumption
  <2>2. 0 % 4 = 0 /\ 0 % FrameBytes = 0 /\ 0 \in 0 .. SinkSize - 4
    BY <2>1, ModSmall
  <2>3. CIRC_CNT(0, 0, SinkSize) = 0
    BY <2>2, Sink, CntInside
  <2> QED BY <2>2, <2>3 DEF Init, RingOK, HeadOnFrame, RingAccounting, whitebox_user_sink_data_total
<1>5. Transfers(chan, dma)
  <2>1. chan \in Channel /\ chan.in_use /\ chan.ping_pong = 0
    BY BuffersAB DEF Init, Channel, STOPPED, STARTED
  <2>2. /\ chan.next = A /\ chan.sel = A /\ chan.loaded = {} /\ chan.comp = {}
        /\ chan.status = [b \in Buffers |-> STOPPED]
    BY DEF Init
  <2>3. Plain(chan)
    BY <2>1, <2>2, ClearedFlat DEF Plain, ChanOK
  <2>4. 0 \in SinkSlots /\ 0 \in 0 .. FrameBytes
    BY SinkAssumption, SizesAssumption DEF SinkSlots
  <2>5. dma \in [Buffers -> [dest : SinkSlots, count : 0 .. FrameBytes, left : Nat]]
    BY <2>4 DEF Init
  <2> QED BY <2>2, <2>3, <2>5 DEF Transfers, UnderWay
<1>6. Reserved(chan, Total)
  <2>1. Total = 0
    BY <1>4 DEF RingOK, RingAccounting, Total, Init
  <2>2. chan.loaded = {} /\ chan.comp = {}
    BY DEF Init
  <2>3. Threshold \in Nat /\ FrameBytes \in Nat /\ FrameBytes > 4
    BY SinkAssumption, SizesAssumption
  <2> QED BY <2>1, <2>2, <2>3 DEF Reserved, UnderWay
<1>7. Kept
  BY <1>3, <1>4, <1>5, <1>6 DEF Kept
<1> QED BY <1>1, <1>2, <1>7, TypeParts DEF IInv

LEMMA Inductive == ASSUME Roomy, IInv, [Next]_vars PROVE IInv'
<1>1. Kept /\ SemHeld /\ ProcsOK /\ ReceiverOK
  BY TypeParts DEF IInv
<1>2. CASE Next
  <2>1. SemHeld' /\ ProcsOK' /\ Kept' /\ ReceiverOK'
    BY <1>1, <1>2, ControlStep, KeptStep, ReceiverStep
  <2>2. TypeOK' <=> ProcsOK' /\ ReceiverOK'
    BY <2>1, TypeParts, PTL
  <2> QED BY <2>1, <2>2 DEF IInv
<1>3. CASE UNCHANGED vars
  BY <1>3 DEF IInv, TypeOK, SemHeld, Kept, RingOK, HeadOnFrame, RingAccounting, Transfers,
     Reserved, Total, CopyFits, vars, procVars, ringVars, dmaVars, rcvVars
<1> QED BY <1>2, <1>3

----------------------------------------------------------------------------
(* The theorems. *)

(* IInv is an invariant of the receive path, for any number of processes   *)
(* that read, mmap, poll, fsync and clear at once.                         *)
THEOREM Invariant == ASSUME Roomy PROVE Spec => []IInv
<1>1. Init => IInv
  BY Initially
<1>2. IInv /\ [Next]_vars => IInv'
  BY Inductive
<1> QED BY <1>1, <1>2, PTL DEF Spec

(* Type correctness: the indices stay inside the ring, a DMA transfer's    *)
(* count within a frame, the counters within their widths.                 *)
THEOREM TypeCorrect == ASSUME Roomy PROVE Spec => []TypeOK
<1>1. IInv => TypeOK
  BY DEF IInv
<1> QED BY <1>1, Invariant, PTL

(* The reader is never lapped (whitebox_rx.c, rx_exec and rx_dma_cb):      *)
(* although two transfers are started from one look at the ring and        *)
(* produced later, the distance from tail to head is always exactly what   *)
(* was produced and not consumed.                                          *)
THEOREM ReaderNotLapped == ASSUME Roomy PROVE Spec => []RingAccounting
<1>1. IInv => RingAccounting
  BY DEF IInv, Kept, RingOK
<1> QED BY <1>1, Invariant, PTL

(* head stays on a frame boundary, so rx_exec never meets the single word  *)
(* before the end of the ring that it would refuse for good.               *)
THEOREM FramesStayAligned == ASSUME Roomy PROVE Spec => []HeadOnFrame
<1>1. IInv => HeadOnFrame
  BY DEF IInv, Kept, RingOK
<1> QED BY <1>1, Invariant, PTL

----------------------------------------------------------------------------
(* One process that reads with one size: the sleeping reader. *)

(* The only process reads n bytes at a time, no more than the threshold,   *)
(* and the ring is a whole number of such reads.                           *)
OneReader(n) ==
  /\ \A p, q \in Procs : p = q
  /\ n \in Nat /\ 0 < n /\ n <= Threshold /\ SinkSize % n = 0
  /\ Counts \subseteq {0, n}

(* A transfer is under way.                                                *)
Busy == UnderWay(chan, A) \/ UnderWay(chan, B)

(* After the executor has run a transfer is under way or the threshold is  *)
(* reached; a reader sleeps only in the first case.                        *)
Waits(n) ==
  /\ tail % n = 0
  /\ \A p \in Procs :
       /\ proc[p].pc = "read_wait" => Busy \/ Total >= Threshold
       /\ proc[p].pc = "read_sleep" => Busy
       /\ proc[p].pc \in ReadSteps \ {"read_down"} => proc[p].n = n

LEMMA ExecBusy ==
  ASSUME Roomy, NEW c, Plain(c), NEW h, InRing(h), h % FrameBytes = 0, InRing(tail),
         rx_exec(c, h)
  PROVE  Busy' \/ whitebox_user_sink_data_total(h, tail) >= Threshold
<1>1. CASE /\ chan' = c
           /\ \/ UnderWay(c, A) /\ UnderWay(c, B)
              \/ whitebox_user_sink_data_total(h, tail) >= Threshold
  BY <1>1 DEF Busy
<1>2. CASE AvailableResult(c) > 0 /\ chan' = pdma_start(c)
  <2>1. c.next \in Buffers /\ chan'.loaded = c.loaded \cup {c.next}
    BY <1>2, PlainStart
  <2> QED BY <2>1, BuffersAB DEF Busy, UnderWay
<1> QED BY <1>1, <1>2, RxExecCases

(* At the threshold a reader finds its bytes in one piece.                 *)
LEMMA EnoughAtThreshold ==
  ASSUME RingOK, NEW n, OneReader(n), tail % n = 0, Total >= Threshold
  PROVE  Data >= n
<1>1. /\ Data \in Nat /\ (Data = SinkSize - tail \/ Data = Total)
  BY Sink, CntToEnd DEF RingOK, Data, Total, whitebox_user_sink_data_available,
     whitebox_user_sink_data_total
<1>2. SinkSize \in Nat /\ SinkSize >= 8 /\ Threshold \in Nat
  BY SinkAssumption
<1>3. tail \in Nat /\ tail < SinkSize
  BY <1>2 DEF RingOK
<1>4. n \in Nat /\ n > 0 /\ n <= Threshold /\ SinkSize % n = 0
  BY DEF OneReader
<1>5. tail + n <= SinkSize
  BY <1>2, <1>3, <1>4, NextMultiple
<1>6. PICK t \in Nat : t = Total
  BY TotalNat
<1>7. SinkSize - tail >= n /\ (t >= Threshold => t >= n)
  BY <1>2, <1>3, <1>4, <1>5
<1> QED BY <1>1, <1>6, <1>7

LEMMA WaitsStep ==
  ASSUME Roomy, IInv, NEW n, OneReader(n), Waits(n), Next PROVE Waits(n)'
<1>0. Kept /\ SemHeld /\ ProcsOK /\ RingOK /\ Plain(chan)
  BY TypeParts DEF IInv, Kept, Transfers
<1>1. InRing(head) /\ InRing(tail) /\ head % FrameBytes = 0
  BY <1>0 DEF RingOK, InRing, HeadOnFrame
<1>2. \A p, q \in Procs : p = q
  BY DEF OneReader
<1>3. \A p \in Procs : proc[p].n \in {0, n}
  BY <1>0 DEF OneReader, ProcsOK
<1>4. ASSUME NEW p \in Procs, proc'[p].pc \notin {"read_wait", "read_sleep"}, tail' = tail,
             proc'[p].pc \in ReadSteps \ {"read_down"} => proc'[p].n = n
      PROVE  Waits(n)'
  BY <1>2, <1>4 DEF Waits
<1>5. ASSUME NEW p \in Procs, CallRead(p) \/ CallMmap(p) \/ CallFsync(p) PROVE Waits(n)'
  <2>1. PICK pc \in {"read_down", "mmap_down", "fsync_down"} : proc'[p].pc = pc /\ tail' = tail
    BY <1>0, <1>5 DEF CallRead, CallMmap, CallFsync, Call, ringVars, ProcsOK
  <2> QED BY <1>4, <2>1 DEF ReadSteps
<1>6. ASSUME NEW p \in Procs, NEW r, Return(p, r), tail' = tail PROVE Waits(n)'
  <2>1. proc'[p].pc = Idle
    BY <1>0, <1>6 DEF Return, ProcsOK
  <2> QED BY <1>4, <1>6, <2>1 DEF Idle, ReadSteps
<1>7. ASSUME NEW p \in Procs, NEW to \in Pcs \ {"read_wait", "read_sleep"},
             proc' = [proc EXCEPT ![p].pc = to], tail' = tail,
             proc[p].n # 0 \/ proc[p].pc \in ReadSteps \ {"read_down"} \/ to \notin ReadSteps
      PROVE  Waits(n)'
  <2>1. proc'[p].pc = to /\ proc'[p].n = proc[p].n
    BY <1>0, <1>7, MovesTo DEF Moves
  <2>2. to \in ReadSteps => proc[p].n = n
    BY <1>3, <1>7 DEF Waits
  <2> QED BY <1>4, <1>7, <2>1, <2>2
<1>8. ASSUME NEW p \in Procs, Poll(p) \/ ReceiverClear(p) PROVE Waits(n)'
  <2>1. proc'[p].pc = Idle /\ tail' = tail
    BY <1>0, <1>8 DEF Poll, ReceiverClear, ringVars, procVars, ProcsOK
  <2> QED BY <1>4, <2>1 DEF Idle, ReadSteps
<1>9. ASSUME NEW p \in Procs, Signal(p) \/ ReadFault(p) \/ MmapCount(p) \/ FsyncRx(p) PROVE Waits(n)'
  BY <1>6, <1>9 DEF Signal, ReadFault, MmapCount, FsyncRx, ringVars
<1> USE DEF Pcs, ReadSteps, MmapSteps
<1>10. ASSUME NEW p \in Procs, ReadEnter(p) PROVE Waits(n)'
  BY <1>6, <1>7, <1>10 DEF ReadEnter, Go, ringVars
<1>11. ASSUME NEW p \in Procs, RxCrank(p) PROVE Waits(n)'
  <2> DEFINE to == IF proc[p].cranks < 2 THEN proc[p].pc
                   ELSE IF proc[p].pc = "mmap_crank" THEN "mmap_count"
                   ELSE IF proc[p].nb THEN "read_redown" ELSE "read_spin"
             k == (proc[p].cranks + 1) % 3
  <2>1. /\ proc[p].pc \in {"read_crank", "mmap_crank"} /\ tail' = tail
        /\ proc' = [proc EXCEPT ![p].cranks = k, ![p].pc = to]
    BY <1>11 DEF RxCrank, Step, ringVars
  <2>2. /\ to \in {"read_crank", "mmap_crank", "mmap_count", "read_redown", "read_spin"}
        /\ to \in ReadSteps => proc[p].pc = "read_crank"
    BY <2>1
  <2> HIDE DEF to, k
  <2>3. proc'[p].pc = to /\ proc'[p].n = proc[p].n
    BY <1>0, <2>1 DEF ProcsOK
  <2>4. proc[p].pc = "read_crank" => proc[p].n = n
    BY DEF Waits
  <2> QED BY <1>4, <2>1, <2>2, <2>3, <2>4
<1>12. ASSUME NEW p \in Procs, ReadSpin(p) \/ ReadRedown(p) \/ ReadCopy(p) PROVE Waits(n)'
  BY <1>7, <1>12 DEF ReadSpin, ReadRedown, ReadCopy, Step, Go, Sleep, ringVars
<1>13. ASSUME NEW p \in Procs, ReadCheck(p) PROVE Waits(n)'
  BY <1>6, <1>7, <1>13 DEF ReadCheck, Step, Go, ringVars
<1>14. ASSUME NEW p \in Procs, MmapEnter(p) \/ MmapStream(p) PROVE Waits(n)'
  BY <1>6, <1>7, <1>14 DEF MmapEnter, MmapStream, Go, ringVars
<1>15. ASSUME NEW p \in Procs, ReadExec(p) PROVE Waits(n)'
  <2>1. PICK to \in {"read_redown", "read_wait"} :
          /\ proc' = [proc EXCEPT ![p].pc = to] /\ head' = head /\ tail' = tail
          /\ proc[p].pc \in {"read_exec", "read_reexec"} /\ rx_exec(chan, head)
    BY <1>15 DEF ReadExec, Step, Go, ringVars
  <2>2. proc'[p].pc = to /\ proc'[p].n = proc[p].n
    BY <1>0, <2>1, MovesTo DEF Moves
  <2>3. Busy' \/ Total >= Threshold
    BY <1>0, <1>1, <2>1, ExecBusy DEF Total
  <2>4. Total' = Total
    BY <2>1 DEF Total
  <2>5. proc[p].n = n
    BY <2>1 DEF Waits
  <2> QED BY <1>2, <2>1, <2>2, <2>3, <2>4, <2>5 DEF Waits
<1>16. ASSUME NEW p \in Procs, ReadWait(p) PROVE Waits(n)'
  <2>1. /\ proc[p].pc = "read_wait" /\ chan' = chan /\ tail' = tail
    BY <1>16 DEF ReadWait, Step, ringVars, dmaVars
  <2>2. proc[p].n = n /\ (Busy \/ Total >= Threshold)
    BY <2>1 DEF Waits
  <2>3. CASE proc' = [proc EXCEPT ![p].pc = "read_redown"]
    BY <1>7, <2>1, <2>3
  <2>4. CASE Data < proc[p].n /\ Sleep(p, "read_sleep")
    <3>1. proc'[p].pc = "read_sleep" /\ proc'[p].n = proc[p].n
      BY <1>0, <2>4, MovesTo DEF Moves, Sleep
    <3>2. Data \in Nat /\ n \in Nat
      BY <1>0, Sink, CntToEnd DEF RingOK, Data, whitebox_user_sink_data_available, OneReader
    <3>3. Busy
      BY <1>0, <2>2, <2>4, <3>2, EnoughAtThreshold DEF Waits
    <3>4. Busy'
      BY <2>1, <3>3 DEF Busy
    <3> QED BY <1>2, <2>1, <2>2, <3>1, <3>4 DEF Waits
  <2> QED BY <1>16, <2>3, <2>4 DEF ReadWait
<1>17. ASSUME NEW p \in Procs, ReadDone(p) PROVE Waits(n)'
  <2>1. /\ proc[p].pc = "read_done" /\ Return(p, "ok")
        /\ tail' = whitebox_user_sink_consume(tail, proc[p].n)
    BY <1>17 DEF ReadDone, Step
  <2>2. proc[p].n = n
    BY <2>1 DEF Waits
  <2>3. n \in Nat /\ n > 0 /\ SinkSize % n = 0 /\ SinkSize \in Nat /\ SinkSize >= 8
    BY SinkAssumption DEF OneReader
  <2>4. tail \in Nat /\ tail < SinkSize /\ tail % n = 0
    BY <1>0, <2>3 DEF RingOK, Waits
  <2>5. tail + n <= SinkSize /\ (tail + n) % n = 0
    BY <2>3, <2>4, NextMultiple
  <2>6. tail' = IF tail + n = SinkSize THEN 0 ELSE tail + n
    <3>1. tail' = (tail + n) % SinkSize
      BY <2>1, <2>2 DEF whitebox_user_sink_consume, WrapToByte
    <3>2. tail + n \in Nat /\ tail + n <= SinkSize
      BY <2>3, <2>4, <2>5
    <3>3. CASE tail + n = SinkSize
      BY <2>3, <3>1, <3>3, ModWrap
    <3>4. CASE tail + n # SinkSize
      BY <2>3, <3>1, <3>2, <3>4, ModSmall
    <3> QED BY <3>3, <3>4
  <2>7. tail' % n = 0
    BY <2>3, <2>5, <2>6, ModSmall
  <2>8. proc'[p].pc = Idle
    BY <1>0, <2>1 DEF Return, ProcsOK
  <2> QED BY <1>2, <2>7, <2>8 DEF Waits, Idle
<1>18. CASE Transmit \/ AdcSample
  BY <1>18 DEF Waits, Busy, Total, Transmit, AdcSample, ringVars, dmaVars, procVars
<1>19. CASE DmaWord
  <2>1. chan' \in {chan, HwComplete(chan)} /\ HwCanComplete(chan)
        /\ UNCHANGED procVars /\ UNCHANGED ringVars
    BY <1>19 DEF DmaWord
  <2>2. Busy' <=> Busy
    BY <1>0, <2>1, PlainComplete, BuffersAB DEF Busy
  <2> QED BY <2>1, <2>2 DEF Waits, Total, procVars, ringVars
<1>20. CASE Irq
  <2> DEFINE buf == IF B \in chan.comp THEN B ELSE A
             h   == whitebox_user_sink_produce(head, dma[buf].count)
             d   == IrqAcknowledge(chan)
  <2>1. /\ tail' = tail /\ head' = h /\ rx_exec(d, h)
        /\ proc' = [p \in Procs |-> IF proc[p].pc = "read_sleep"
                                    THEN [proc[p] EXCEPT !.pc = "read_wait"] ELSE proc[p]]
    BY <1>20 DEF Irq, whitebox_rf_source_work_done
  <2>2. Kept'
    BY <1>0, <1>20, KeptStep DEF Next
  <2>3. InRing(h) /\ h % FrameBytes = 0
    BY <2>1, <2>2 DEF Kept, RingOK, InRing, HeadOnFrame
  <2>4. Plain(d)
    BY <1>0, PlainAcknowledge
  <2> HIDE DEF h, d
  <2>5. Busy' \/ Total' >= Threshold
    BY <1>1, <2>1, <2>3, <2>4, ExecBusy DEF Total
  <2>6. \A p \in Procs : /\ proc'[p].n = proc[p].n /\ proc'[p].pc # "read_sleep"
                         /\ \/ proc'[p].pc = proc[p].pc
                            \/ proc[p].pc = "read_sleep" /\ proc'[p].pc = "read_wait"
    BY <1>0, <2>1 DEF ProcsOK
  <2> QED BY <2>1, <2>5, <2>6 DEF Waits
<1> QED BY <1>5, <1>8, <1>9, <1>10, <1>11, <1>12, <1>13, <1>14, <1>15, <1>16, <1>17, <1>18,
           <1>19, <1>20 DEF Next, Operation

(* A process alone that reads with one size never sleeps without a         *)
(* transfer whose interrupt will wake it (whitebox_driver.c, the loop of   *)
(* whitebox_read).  Two readers that together ask for more than the        *)
(* threshold, or a size that does not divide the ring, can be left asleep. *)
THEOREM SleeperIsWoken ==
  ASSUME Roomy, NEW n, OneReader(n) PROVE Spec => []SleeperHasATransfer
<1>1. Init => Waits(n)
  <2>1. n \in Nat /\ n > 0
    BY DEF OneReader
  <2>2. 0 % n = 0
    BY <2>1, ModSmall
  <2> QED BY <2>2 DEF Init, Waits, Idle, ReadSteps
<1>2. IInv /\ Waits(n) /\ [Next]_vars => Waits(n)'
  <2>1. UNCHANGED vars /\ Waits(n) => Waits(n)'
    BY DEF Waits, Busy, Total, vars, procVars, ringVars, dmaVars
  <2> QED BY <2>1, WaitsStep
<1>3. IInv /\ Waits(n) => SleeperHasATransfer
  <2> SUFFICES ASSUME IInv, Waits(n) PROVE SleeperHasATransfer
    OBVIOUS
  <2>1. Plain(chan)
    BY DEF IInv, Kept, Transfers
  <2>2. Started(chan) = {} <=> ~UnderWay(chan, A) /\ ~UnderWay(chan, B)
    BY <2>1, PlainAvailable
  <2> QED BY <2>2 DEF SleeperHasATransfer, Waits, Busy
<1> QED BY <1>1, <1>2, <1>3, Invariant, PTL DEF Spec
=============================================================================
