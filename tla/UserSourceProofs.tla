-------------------------- MODULE UserSourceProofs --------------------------
(***************************************************************************)
(* Proofs about the User Source block, for every buffer size, frame size   *)
(* and set of write counts.                                                *)
(***************************************************************************)
EXTENDS UserSource, DriverLemmas

LEMMA Ring == RingSize(BufSize)
  BY BufSizeAssumption DEF RingSize

----------------------------------------------------------------------------
(* Every step of the writer and of the DMA side preserves the invariant.   *)

LEMMA InitInv == Init => IInv
<1> SUFFICES ASSUME Init PROVE IInv
  OBVIOUS
<1>1. TypeOK
  BY BufSizeAssumption DEF Init, TypeOK, Slots
<1>2. Accounting
  BY BufSizeAssumption, Ring, CntInside DEF Init, Accounting
<1> QED
  BY <1>1, <1>2 DEF Init, IInv, SnapshotsValid

(* copy_from_user writes words of the stream into slots of the buffer.     *)
LEMMA WorkType ==
  ASSUME NEW m \in [Slots -> Nat], NEW d \in Nat, NEW k \in Nat, NEW f \in Nat
  PROVE  whitebox_user_source_work(m, d, k, f) \in [Slots -> Nat]
<1>1. WordOf(d) \in Nat
  BY DEF WordOf, WordBytes
<1>2. ASSUME NEW i \in Slots, i \in WordOf(d) .. (WordOf(d) + k - 1)
      PROVE  f + (i - WordOf(d)) \in Nat
  BY <1>1, <1>2
<1> QED
  BY <1>2 DEF whitebox_user_source_work

LEMMA ReserveInv == ASSUME IInv, NEW n \in Counts, Reserve(n) PROVE IInv'
<1> USE DEF IInv
<1>1. n \in Nat
  BY CountsAssumption
<1>2. TypeOK'
  BY <1>1 DEF TypeOK, Reserve
<1>3. Accounting'
  BY DEF Accounting, Reserve
<1>4. SnapshotsValid'
  <2> DEFINE s == CIRC_SPACE_TO_END(head, tail, BufSize)
  <2>1. /\ s \in Nat
        /\ head + s <= BufSize
        /\ CIRC_CNT(head, tail, BufSize) + s <= BufSize - 1
    BY Ring, SpaceToEnd DEF TypeOK
  <2>2. n <= s - (s % 4)
    BY DEF Reserve, whitebox_user_source_space_available, WordAligned, WordBytes
  <2>3. n <= s
    BY <1>1, <2>1, <2>2
  <2>4. 4 * (produced - consumed) + n <= BufSize - 4
    <3>1. CIRC_CNT(head, tail, BufSize) = 4 * (produced - consumed)
      BY DEF Accounting
    <3>2. 4 * (produced - consumed) + s <= BufSize - 1
      BY <2>1, <3>1
    <3> HIDE DEF s
    <3> QED
      BY <1>1, <2>1, <2>2, <3>2, BufSizeAssumption DEF TypeOK
  <2>5. prod'.n = n /\ prod'.dest = head
    BY DEF Reserve
  <2> HIDE DEF s
  <2> QED
    BY <1>1, <2>1, <2>3, <2>4, <2>5, BufSizeAssumption
    DEF SnapshotsValid, Reserve, TypeOK
<1> QED
  BY <1>2, <1>3, <1>4

LEMMA WorkInv == ASSUME IInv, Work \/ WorkFault PROVE IInv'
<1> USE DEF IInv
<1>1. mem' \in [Slots -> Nat]
  <2>1. Words(prod.n) \in Nat /\ produced + 1 \in Nat /\ prod.dest \in Nat
    BY BufSizeAssumption DEF TypeOK, Words, WordBytes
  <2>2. CASE Work
    BY <2>1, <2>2, WorkType DEF Work, TypeOK
  <2>3. CASE WorkFault
    <3>1. PICK k \in 0 .. Words(prod.n) :
            mem' = whitebox_user_source_work(mem, prod.dest, k, produced + 1)
      BY <2>3 DEF WorkFault
    <3>2. k \in Nat
      BY <2>1
    <3> QED
      BY <2>1, <3>1, <3>2, WorkType DEF TypeOK
  <2> QED
    BY <2>2, <2>3
<1>2. TypeOK'
  BY <1>1 DEF TypeOK, Work, WorkFault
<1>3. Accounting'
  BY DEF Accounting, Work, WorkFault
<1>4. SnapshotsValid'
  BY DEF SnapshotsValid, Work, WorkFault, TypeOK
<1> QED
  BY <1>2, <1>3, <1>4

LEMMA ProduceInv == ASSUME IInv, Produce PROVE IInv'
<1> USE DEF IInv
<1> DEFINE k == Words(prod.n)
<1>1. /\ prod.n \in Nat
      /\ prod.dest = head
      /\ head + prod.n <= BufSize
      /\ 4 * (produced - consumed) + prod.n <= BufSize - 4
  BY DEF Produce, SnapshotsValid, TypeOK
<1>2. /\ head' = IF head + 4 * k = BufSize THEN 0 ELSE head + 4 * k
      /\ k \in Nat /\ 4 * k <= prod.n /\ head + 4 * k <= BufSize
      /\ produced' = produced + k
  BY <1>1, Ring, WrapInside DEF Produce, whitebox_user_source_produce, TypeOK, Accounting
<1> HIDE DEF k
<1>3. head' \in 0 .. BufSize - 4 /\ head' % 4 = 0
  BY <1>2, BufSizeAssumption DEF TypeOK, Accounting
<1>4. TypeOK'
  BY <1>2, <1>3 DEF TypeOK, Produce
<1>5. Accounting'
  <2>1. CIRC_CNT(head, tail, BufSize) = IF head >= tail THEN head - tail ELSE head - tail + BufSize
    BY Ring, CntInside DEF TypeOK
  <2>2. CIRC_CNT(head', tail, BufSize) = IF head' >= tail THEN head' - tail ELSE head' - tail + BufSize
    BY <1>3, Ring, CntInside DEF TypeOK
  <2>3. UNCHANGED <<tail, consumed>>
    BY DEF Produce
  <2> QED
    BY <1>1, <1>2, <1>3, <2>1, <2>2, <2>3, BufSizeAssumption DEF Accounting, TypeOK
<1>6. SnapshotsValid'
  BY <1>2 DEF SnapshotsValid, Produce, TypeOK
<1> QED
  BY <1>4, <1>5, <1>6

LEMMA PeekInv == ASSUME IInv, Peek PROVE IInv'
<1> USE DEF IInv
<1> DEFINE a == whitebox_user_source_data_available(head, tail)
           n == Least(a, FrameBytes)
<1>1. /\ a \in Nat /\ a % 4 = 0
      /\ tail + a <= BufSize
      /\ a <= CIRC_CNT(head, tail, BufSize)
  BY Ring, CntToEnd DEF whitebox_user_source_data_available, TypeOK, Accounting
<1>2. n \in Nat /\ n % 4 = 0 /\ n <= a
  BY <1>1, FrameAssumption DEF Least
<1>3. Words(n) > 0 /\ cons' = [pc |-> "take", n |-> n, src |-> tail]
  BY DEF Peek
<1> HIDE DEF a, n
<1>4. n > 0
  BY <1>2, <1>3 DEF Words, WordBytes
<1>5. UNCHANGED <<head, tail, mem, prod, produced, consumed>>
  BY DEF Peek
<1>6. TypeOK'
  BY <1>2, <1>3, <1>5 DEF TypeOK
<1>7. Accounting'
  BY <1>5 DEF Accounting
<1>8. SnapshotsValid'
  BY <1>1, <1>2, <1>3, <1>4, <1>5, BufSizeAssumption DEF SnapshotsValid, TypeOK, Accounting
<1> QED
  BY <1>6, <1>7, <1>8

LEMMA ConsumeInv == ASSUME IInv, Consume PROVE IInv'
<1> USE DEF IInv
<1> DEFINE k == Words(cons.n)
<1>1. /\ cons.n \in Nat
      /\ tail + cons.n <= BufSize
      /\ cons.n <= 4 * (produced - consumed)
  BY DEF Consume, SnapshotsValid, TypeOK
<1>2. /\ tail' = IF tail + 4 * k = BufSize THEN 0 ELSE tail + 4 * k
      /\ k \in Nat /\ 4 * k <= cons.n /\ tail + 4 * k <= BufSize
      /\ consumed' = consumed + k
  BY <1>1, Ring, WrapInside DEF Consume, whitebox_user_source_consume, TypeOK, Accounting
<1> HIDE DEF k
<1>3. tail' \in 0 .. BufSize - 4 /\ tail' % 4 = 0
  BY <1>2, BufSizeAssumption DEF TypeOK, Accounting
<1>4. TypeOK'
  BY <1>2, <1>3 DEF TypeOK, Consume
<1>5. Accounting'
  <2>1. CIRC_CNT(head, tail, BufSize) = IF head >= tail THEN head - tail ELSE head - tail + BufSize
    BY Ring, CntInside DEF TypeOK
  <2>2. CIRC_CNT(head, tail', BufSize) = IF head >= tail' THEN head - tail' ELSE head - tail' + BufSize
    BY <1>3, Ring, CntInside DEF TypeOK
  <2>3. UNCHANGED <<head, produced>>
    BY DEF Consume
  <2> QED
    BY <1>1, <1>2, <1>3, <2>1, <2>2, <2>3, BufSizeAssumption DEF Accounting, TypeOK
<1>6. SnapshotsValid'
  <2>1. cons'.pc = "idle"
    BY DEF Consume, TypeOK
  <2>2. UNCHANGED <<head, prod, produced>>
    BY DEF Consume
  <2>3. prod.n \in Nat /\ produced \in Nat /\ consumed \in Nat /\ consumed' >= consumed
    BY <1>2 DEF TypeOK
  <2> QED
    BY <1>2, <2>1, <2>2, <2>3, BufSizeAssumption DEF SnapshotsValid
<1> QED
  BY <1>4, <1>5, <1>6

(* The User Source block keeps its invariant for ever.                     *)
THEOREM Invariance == Spec => []IInv
<1>1. IInv /\ [Next]_vars => IInv'
  <2> SUFFICES ASSUME IInv, [Next]_vars PROVE IInv'
    OBVIOUS
  <2>1. CASE UNCHANGED vars
    BY <2>1 DEF vars, IInv, TypeOK, Accounting, SnapshotsValid
  <2> QED
    BY <2>1, ReserveInv, WorkInv, ProduceInv, PeekInv, ConsumeInv DEF Next
<1> QED
  BY <1>1, InitInv, PTL DEF Spec

(* whitebox_user_source.c never leaves its buffer and its indices keep     *)
(* their types.                                                            *)
THEOREM TypeCorrect == Spec => []TypeOK
<1>1. IInv => TypeOK
  BY DEF IInv
<1> QED
  BY <1>1, Invariance, PTL

(* head and tail account exactly for the words produced and consumed: a    *)
(* full buffer is never taken for an empty one, whatever byte counts       *)
(* write() is called with.                                                 *)
THEOREM AccountingHolds == Spec => []Accounting
<1>1. IInv => Accounting
  BY DEF IInv
<1> QED
  BY <1>1, Invariance, PTL

(* The lockless snapshots of the writer and of the DMA side stay valid     *)
(* while the other side moves its index.                                   *)
THEOREM SnapshotsHold == Spec => []SnapshotsValid
<1>1. IInv => SnapshotsValid
  BY DEF IInv
<1> QED
  BY <1>1, Invariance, PTL

----------------------------------------------------------------------------
(* The buffer implements a bounded stream of words.                        *)

N == BufSize \div 4

(* What is between tail and head is the words produced and not consumed,   *)
(* in order; what the writer has copied and not yet published is the words *)
(* that come next.                                                         *)
QueueHolds == Holds(mem, WordOf(tail), produced - consumed, consumed, N)
CopyHolds ==
  prod.pc = "produce" =>
    \A j \in 0 .. Words(prod.n) - 1 : mem[WordOf(head) + j] = produced + 1 + j

RInv == IInv /\ QueueHolds /\ CopyHolds

(* The indices in words.                                                   *)
LEMMA WordIndices ==
  ASSUME IInv
  PROVE  /\ N \in Nat /\ N >= 2 /\ 4 * N = BufSize /\ Slots = 0 .. N - 1
         /\ WordOf(head) \in 0 .. N - 1 /\ 4 * WordOf(head) = head
         /\ WordOf(tail) \in 0 .. N - 1 /\ 4 * WordOf(tail) = tail
         /\ produced - consumed \in 0 .. N - 1
         /\ \/ WordOf(head) = WordOf(tail) + (produced - consumed)
            \/ WordOf(head) = WordOf(tail) + (produced - consumed) - N
<1>1. N \in Nat /\ N >= 2 /\ 4 * N = BufSize
  BY BufSizeAssumption DEF N
<1>2. Slots = 0 .. N - 1
  BY DEF Slots, N
<1>3. /\ head \in 0 .. BufSize - 4 /\ tail \in 0 .. BufSize - 4
      /\ head % 4 = 0 /\ tail % 4 = 0
      /\ produced \in Nat /\ consumed \in Nat /\ consumed <= produced
      /\ 4 * (produced - consumed) <= BufSize - 4
      /\ CIRC_CNT(head, tail, BufSize) = 4 * (produced - consumed)
  BY DEF IInv, TypeOK, Accounting
<1>4. CIRC_CNT(head, tail, BufSize) = IF head >= tail THEN head - tail ELSE head - tail + BufSize
  BY <1>3, Ring, CntInside
<1>5. 4 * WordOf(head) = head /\ WordOf(head) \in Int /\ 4 * WordOf(tail) = tail /\ WordOf(tail) \in Int
  BY <1>3 DEF WordOf, WordBytes
<1> DEFINE h == WordOf(head)
           t == WordOf(tail)
           q == produced - consumed
<1>6. /\ h \in Int /\ t \in Int /\ q \in Int /\ 4 * h = head /\ 4 * t = tail
      /\ 0 <= 4 * q /\ 4 * q <= 4 * N - 4 /\ 0 <= 4 * h /\ 4 * h <= 4 * N - 4
      /\ 0 <= 4 * t /\ 4 * t <= 4 * N - 4
      /\ 4 * q = IF head >= tail THEN 4 * h - 4 * t ELSE 4 * h - 4 * t + 4 * N
  BY <1>1, <1>3, <1>4, <1>5
<1> HIDE DEF h, t, q, N
<1>7. /\ h \in 0 .. N - 1 /\ t \in 0 .. N - 1 /\ q \in 0 .. N - 1
      /\ h = t + q \/ h = t + q - N
  BY <1>1, <1>6
<1> QED
  BY <1>1, <1>2, <1>6, <1>7 DEF h, t, q

LEMMA InitRInv == Init => RInv
<1> SUFFICES ASSUME Init PROVE RInv
  OBVIOUS
<1>1. IInv
  BY InitInv
<1> QED
  BY <1>1 DEF Init, RInv, QueueHolds, CopyHolds, Holds

(* The slots copy_from_user writes lie behind the last published word.     *)
LEMMA WorkKeepsQueue ==
  ASSUME RInv, prod.pc = "copy", NEW k \in 0 .. Words(prod.n),
         mem' = whitebox_user_source_work(mem, prod.dest, k, produced + 1),
         UNCHANGED <<tail, produced, consumed>>
  PROVE  QueueHolds'
<1> DEFINE q == produced - consumed
           h == WordOf(head)
<1>1. /\ IInv /\ prod.dest = head /\ prod.n \in Nat
      /\ head + prod.n <= BufSize /\ 4 * q + prod.n <= BufSize - 4
  BY DEF RInv, IInv, SnapshotsValid, TypeOK
<1>2. /\ N \in Nat /\ 4 * N = BufSize /\ Slots = 0 .. N - 1
      /\ h \in 0 .. N - 1 /\ 4 * h = head /\ WordOf(tail) \in 0 .. N - 1
      /\ q \in 0 .. N - 1 /\ (h = WordOf(tail) + q \/ h = WordOf(tail) + q - N)
  BY <1>1, WordIndices
<1>3. k \in Nat /\ 4 * k <= prod.n
  BY <1>1 DEF Words, WordBytes
<1>4. OnlyWrote(mem, mem', h, k, N)
  BY <1>1, <1>2 DEF whitebox_user_source_work, OnlyWrote
<1>5. consumed \in Int
  BY <1>1 DEF IInv, TypeOK
<1>6. Holds(mem, WordOf(tail), q, consumed, N)
  BY DEF RInv, QueueHolds
<1> HIDE DEF q, h, N
<1>7. q + k <= N /\ h + k <= N /\ q \in Nat
  BY <1>1, <1>2, <1>3
<1>8. Holds(mem', WordOf(tail), q, consumed, N)
  BY <1>2, <1>3, <1>4, <1>5, <1>6, <1>7, HoldsStill
<1> QED
  BY <1>8 DEF QueueHolds, q, N

(* Every step keeps the invariant and is a step of the stream.             *)
LEMMA StepRInv == RInv /\ [Next]_vars => RInv'
<1> SUFFICES ASSUME RInv, [Next]_vars PROVE RInv'
  OBVIOUS
<1>1. IInv /\ IInv'
  <2>1. CASE UNCHANGED vars
    BY <2>1 DEF vars, RInv, IInv, TypeOK, Accounting, SnapshotsValid
  <2> QED
    BY <2>1, ReserveInv, WorkInv, ProduceInv, PeekInv, ConsumeInv DEF Next, RInv
<1>2. ASSUME NEW n \in Counts, Reserve(n) PROVE QueueHolds' /\ CopyHolds'
  <2>1. prod'.pc = "copy" /\ UNCHANGED <<tail, mem, produced, consumed>>
    BY <1>2 DEF Reserve
  <2> QED BY <2>1 DEF RInv, QueueHolds, CopyHolds
<1>3. ASSUME Work PROVE QueueHolds' /\ CopyHolds'
  <2>1. /\ prod.pc = "copy" /\ UNCHANGED <<head, tail, produced, consumed>>
        /\ mem' = whitebox_user_source_work(mem, prod.dest, Words(prod.n), produced + 1)
        /\ prod'.n = prod.n
    BY <1>1, <1>3 DEF Work, IInv, TypeOK
  <2>2. /\ prod.dest = head /\ prod.n \in Nat /\ head + prod.n <= BufSize
    BY <1>1, <2>1 DEF IInv, SnapshotsValid, TypeOK
  <2>3. Words(prod.n) \in Nat /\ 4 * Words(prod.n) <= prod.n
    BY <2>2 DEF Words, WordBytes
  <2>4. QueueHolds'
    BY <2>1, <2>3, WorkKeepsQueue
  <2>5. ASSUME NEW j \in 0 .. Words(prod.n) - 1 PROVE mem'[WordOf(head) + j] = produced + 1 + j
    <3> DEFINE h == WordOf(head)
               k == Words(prod.n)
    <3>0. N \in Nat /\ h \in 0 .. N - 1 /\ 4 * h = head /\ 4 * N = BufSize /\ Slots = 0 .. N - 1
      BY <1>1, WordIndices
    <3> HIDE DEF h, k, N
    <3>1. h + j \in Slots /\ h \in Int
      BY <2>2, <2>3, <3>0 DEF k
    <3> USE DEF h
    <3>2. WordOf(head) + j \in WordOf(head) .. (WordOf(head) + Words(prod.n) - 1)
      BY <2>3, <3>1
    <3>3. mem'[WordOf(head) + j] = produced + 1 + ((WordOf(head) + j) - WordOf(head))
      BY <2>1, <2>2, <3>1, <3>2 DEF whitebox_user_source_work
    <3> QED BY <3>1, <3>3
  <2> QED BY <2>1, <2>4, <2>5 DEF CopyHolds
<1>4. ASSUME WorkFault PROVE QueueHolds' /\ CopyHolds'
  <2>1. /\ prod.pc = "copy" /\ UNCHANGED <<head, tail, produced, consumed>>
        /\ prod'.pc = "idle"
    BY <1>1, <1>4 DEF WorkFault, IInv, TypeOK
  <2>2. PICK k \in 0 .. Words(prod.n) :
          mem' = whitebox_user_source_work(mem, prod.dest, k, produced + 1)
    BY <1>4 DEF WorkFault
  <2> QED BY <2>1, <2>2, WorkKeepsQueue DEF CopyHolds
<1>5. ASSUME Produce PROVE QueueHolds' /\ CopyHolds'
  <2> DEFINE k == Words(prod.n)
             q == produced - consumed
             h == WordOf(head)
  <2>1. /\ prod.pc = "produce" /\ prod'.pc = "idle" /\ UNCHANGED <<tail, mem, consumed>>
        /\ produced' = produced + k
    BY <1>1, <1>5 DEF Produce, IInv, TypeOK
  <2>2. /\ prod.n \in Nat /\ head + prod.n <= BufSize /\ 4 * q + prod.n <= BufSize - 4
        /\ consumed \in Int /\ produced \in Int
    BY <1>1, <2>1 DEF IInv, SnapshotsValid, TypeOK
  <2>3. /\ N \in Nat /\ 4 * N = BufSize
        /\ h \in 0 .. N - 1 /\ 4 * h = head /\ WordOf(tail) \in 0 .. N - 1
        /\ q \in 0 .. N - 1 /\ (h = WordOf(tail) + q \/ h = WordOf(tail) + q - N)
    BY <1>1, WordIndices
  <2>4. k \in Nat /\ 4 * k <= prod.n
    BY <2>2 DEF Words, WordBytes
  <2>5. \A j \in 0 .. k - 1 : mem[h + j] = produced + 1 + j
    BY <2>1 DEF RInv, CopyHolds
  <2>6. Wrote(mem, mem, h, k, produced, N)
    <3>1. ASSUME NEW i \in h .. (h + k - 1) PROVE mem[i] = produced + 1 + (i - h)
      <4>1. i - h \in 0 .. k - 1 /\ h + (i - h) = i
        BY <2>3, <2>4, <3>1
      <4> QED BY <2>5, <4>1
    <3> QED BY <3>1 DEF Wrote
  <2>7. Holds(mem, WordOf(tail), q, consumed, N)
    BY DEF RInv, QueueHolds
  <2>8. /\ q + k <= N /\ h + k <= N /\ q \in Nat
        /\ produced' - consumed' = q + k /\ produced = consumed + q
    BY <2>1, <2>2, <2>3, <2>4
  <2> HIDE DEF q, h, k, N
  <2>9. Holds(mem, WordOf(tail), q + k, consumed, N)
    BY <2>2, <2>3, <2>4, <2>6, <2>7, <2>8, HoldsMore
  <2> QED BY <2>1, <2>8, <2>9 DEF QueueHolds, CopyHolds, N
<1>6. ASSUME Peek PROVE QueueHolds' /\ CopyHolds'
  BY <1>6 DEF RInv, Peek, QueueHolds, CopyHolds
<1>7. ASSUME Consume PROVE QueueHolds' /\ CopyHolds'
  <2> DEFINE k == Words(cons.n)
             q == produced - consumed
  <2>1. UNCHANGED <<head, mem, prod, produced>> /\ consumed' = consumed + k
    BY <1>7 DEF Consume
  <2>2. /\ cons.n \in Nat /\ cons.n <= 4 * q /\ tail + cons.n <= BufSize
        /\ consumed \in Int /\ produced \in Int /\ tail % 4 = 0 /\ tail \in 0 .. BufSize - 4
    BY <1>1, <1>7 DEF Consume, IInv, SnapshotsValid, TypeOK, Accounting
  <2>3. /\ N \in Nat /\ 4 * N = BufSize /\ WordOf(tail) \in 0 .. N - 1 /\ 4 * WordOf(tail) = tail
        /\ q \in 0 .. N - 1
    BY <1>1, WordIndices
  <2>4. /\ tail' = (IF tail + 4 * k = BufSize THEN 0 ELSE tail + 4 * k)
        /\ k \in Nat /\ 4 * k <= cons.n
    BY <1>7, <2>2, Ring, WrapInside DEF Consume, whitebox_user_source_consume
  <2>5. WordOf(tail') \in 0 .. N - 1 /\ 4 * WordOf(tail') = tail'
    <3>0. tail' \in 0 .. BufSize - 4 /\ tail' % 4 = 0
      BY <1>1 DEF IInv, TypeOK, Accounting
    <3>1. tail' \in Nat /\ tail' <= BufSize - 4
      BY <3>0, BufSizeAssumption
    <3>2. WordOf(tail') \in Nat /\ 4 * WordOf(tail') = tail'
      BY <3>0, <3>1, WordOfAligned
    <3> HIDE DEF N
    <3> QED BY <2>3, <3>1, <3>2
  <2>6. WordOf(tail') = WordOf(tail) + k \/ WordOf(tail') = WordOf(tail) + k - N
    BY <2>3, <2>4, <2>5
  <2>7. Holds(mem, WordOf(tail), q, consumed, N)
    BY DEF RInv, QueueHolds
  <2>8. k \in 0 .. q /\ q <= N /\ q \in Nat /\ produced' - consumed' = q - k
    BY <2>1, <2>2, <2>3, <2>4
  <2> HIDE DEF q, k, N
  <2>9. Holds(mem, WordOf(tail'), q - k, consumed + k, N)
    BY <2>2, <2>3, <2>5, <2>6, <2>7, <2>8, HoldsFewer
  <2> QED BY <2>1, <2>8, <2>9 DEF RInv, QueueHolds, CopyHolds, N
<1>8. ASSUME UNCHANGED vars PROVE QueueHolds' /\ CopyHolds'
  BY <1>8 DEF vars, RInv, QueueHolds, CopyHolds
<1>9. QueueHolds' /\ CopyHolds'
  BY <1>2, <1>3, <1>4, <1>5, <1>6, <1>7, <1>8 DEF Next
<1> QED
  BY <1>1, <1>9 DEF RInv

(* The queue as the stream's own numbers.                                  *)
Numbers(c, q) == [i \in 1 .. q |-> c + i]

LEMMA QueueIsNumbers ==
  ASSUME RInv PROVE Queue = Numbers(consumed, produced - consumed)
  BY DEF RInv, QueueHolds, Holds, Queue, Numbers, N

LEMMA NumbersSeq ==
  ASSUME NEW c \in Nat, NEW q \in Nat
  PROVE  Numbers(c, q) \in Seq(Nat) /\ Len(Numbers(c, q)) = q
         /\ \A i \in 1 .. q : Numbers(c, q)[i] = c + i
  BY DEF Numbers

LEMMA NumbersAppend ==
  ASSUME NEW c \in Nat, NEW q \in Nat, NEW k \in Nat
  PROVE  Numbers(c, q + k) = Numbers(c, q) \o Numbers(c + q, k)
  BY DEF Numbers

LEMMA NumbersRest ==
  ASSUME NEW c \in Nat, NEW q \in Nat, NEW k \in 0 .. q
  PROVE  Numbers(c + k, q - k) = SubSeq(Numbers(c, q), k + 1, q)
  BY DEF Numbers

(* The circular buffer is a bounded first-in first-out stream of words:    *)
(* whatever the writer's faults, the broken words and the interleaving of  *)
(* the two sides, every step puts the next words, gets the oldest ones or  *)
(* changes nothing that can be seen.                                       *)
THEOREM ImplementsStream == Spec => IsStream
<1>1. Init => S!StreamInit
  <2> SUFFICES ASSUME Init PROVE S!StreamInit
    OBVIOUS
  <2>1. Queue = Numbers(0, 0) /\ produced = 0
    BY InitRInv, QueueIsNumbers DEF Init
  <2>2. Numbers(0, 0) = << >>
    BY DEF Numbers
  <2> QED BY <2>1, <2>2 DEF S!StreamInit
<1>2. RInv /\ RInv' /\ [Next]_vars => [S!StreamNext]_<<Queue, produced>>
  <2> SUFFICES ASSUME RInv, RInv', [Next]_vars PROVE [S!StreamNext]_<<Queue, produced>>
    OBVIOUS
  <2> DEFINE q == produced - consumed
  <2>0. Queue' = Numbers(consumed', produced' - consumed')
    BY DEF RInv, QueueHolds, Holds, Queue, Numbers, N
  <2>1. /\ Queue = Numbers(consumed, q)
        /\ produced \in Nat /\ consumed \in Nat /\ q \in Nat
        /\ 4 * q <= BufSize - 4
    BY QueueIsNumbers DEF RInv, IInv, TypeOK, Accounting
  <2>2. CASE UNCHANGED <<produced, consumed>>
    BY <2>0, <2>1, <2>2
  <2>3. CASE Produce
    <3> DEFINE k == Words(prod.n)
    <3>1. produced' = produced + k /\ UNCHANGED consumed
      BY <2>3 DEF Produce
    <3>2. prod.n \in Nat /\ 4 * q + prod.n <= BufSize - 4
      BY <2>3 DEF Produce, RInv, IInv, SnapshotsValid, TypeOK
    <3>3. k \in Nat /\ 4 * k <= prod.n
      BY <3>2 DEF Words, WordBytes
    <3>4. q + k <= BufSize \div 4 - 1 /\ k \in 0 .. BufSize \div 4 - 1
      BY <2>1, <3>2, <3>3, BufSizeAssumption
    <3> HIDE DEF k
    <3>5. produced' - consumed' = q + k /\ consumed + q = produced
      BY <2>1, <3>1, <3>3
    <3> HIDE DEF q
    <3>6. Queue' = Numbers(consumed, q) \o Numbers(produced, k)
      <4>1. Numbers(consumed, q + k) = Numbers(consumed, q) \o Numbers(consumed + q, k)
        BY <2>1, <3>3, NumbersAppend
      <4> QED BY <2>0, <3>1, <3>5, <4>1
    <3>7. Len(Queue) = q
      BY <2>1, NumbersSeq
    <3>8. S!Put(k)
      BY <2>1, <3>1, <3>4, <3>6, <3>7 DEF S!Put, Numbers
    <3> QED BY <3>4, <3>8 DEF S!StreamNext
  <2>4. CASE Consume
    <3> DEFINE k == Words(cons.n)
    <3>1. consumed' = consumed + k /\ UNCHANGED produced
      BY <2>4 DEF Consume
    <3>2. cons.n \in Nat /\ cons.n <= 4 * q
      BY <2>4 DEF Consume, RInv, IInv, SnapshotsValid, TypeOK
    <3>3. k \in Nat /\ 4 * k <= cons.n
      BY <3>2 DEF Words, WordBytes
    <3>4. k \in 0 .. q /\ k \in 0 .. BufSize \div 4 - 1
      BY <2>1, <3>2, <3>3, BufSizeAssumption
    <3> HIDE DEF k
    <3>5. produced' - consumed' = q - k
      BY <2>1, <3>1, <3>3
    <3> HIDE DEF q
    <3>6. Queue' = SubSeq(Numbers(consumed, q), k + 1, q)
      BY <2>0, <2>1, <3>1, <3>4, <3>5, NumbersRest
    <3>7. Len(Queue) = q
      BY <2>1, NumbersSeq
    <3>8. S!Get(k)
      BY <2>1, <3>1, <3>4, <3>6, <3>7 DEF S!Get
    <3> QED BY <3>4, <3>8 DEF S!StreamNext
  <2> QED
    BY <2>2, <2>3, <2>4 DEF Next, Reserve, Work, WorkFault, Peek, vars
<1>3. Spec => []RInv
  BY InitRInv, StepRInv, PTL DEF Spec
<1> QED
  BY <1>1, <1>2, <1>3, PTL DEF Spec, IsStream, S!StreamSpec
=============================================================================
