---------------------------- MODULE DriverLemmas ----------------------------
(***************************************************************************)
(* The facts the proofs about the driver share: the index arithmetic of    *)
(* its circular buffers, for a buffer of any size (the user source, the    *)
(* transmit path and the receive path rest on it), and the invariant of    *)
(* one PDMA channel, which every function of the driver and every step of  *)
(* the hardware keeps (the PDMA driver and both paths rest on it).         *)
(***************************************************************************)
EXTENDS CircBuf, PdmaChannel, TLAPS

----------------------------------------------------------------------------
(* Circular buffers *)

(* A buffer of whole words.                                                *)
RingSize(size) == size \in Nat /\ size % 4 = 0 /\ size >= 8

(* Reduction modulo the buffer size of an index at most one lap away.      *)
LEMMA ModSmall == \A x, s \in Int : 0 <= x /\ x < s => x % s = x
  BY Z3

LEMMA ModWrap == \A x, s \in Int : s > 0 /\ s <= x /\ x < 2 * s => x % s = x - s
  BY Z3

LEMMA ModNegative == \A x, s \in Int : s > 0 /\ -s <= x /\ x < 0 => x % s = x + s
  BY Z3

(* The word number of a byte index on a word boundary, and a count of      *)
(* whole words.                                                            *)
LEMMA WordOfAligned ==
  ASSUME NEW x \in Nat, x % 4 = 0
  PROVE  WordOf(x) \in Nat /\ 4 * WordOf(x) = x
  BY DEF WordOf, WordBytes

LEMMA WordsAligned ==
  ASSUME NEW x \in Nat, x % 4 = 0
  PROVE  Words(x) \in Nat /\ 4 * Words(x) = x
  BY DEF Words, WordBytes

(* CIRC_CNT for two indices inside the buffer: their distance going up.    *)
LEMMA CntInside ==
  ASSUME NEW size, RingSize(size), NEW h \in 0 .. size - 4, NEW t \in 0 .. size - 4
  PROVE  CIRC_CNT(h, t, size) = IF h >= t THEN h - t ELSE h - t + size
  BY ModSmall, ModNegative DEF CIRC_CNT, RingSize

(* The free run CIRC_SPACE_TO_END reports ends at the end of the buffer or *)
(* one byte short of tail.                                                 *)
LEMMA SpaceToEnd ==
  ASSUME NEW size, RingSize(size), NEW h \in 0 .. size - 4, NEW t \in 0 .. size - 4
  PROVE  LET n == CIRC_SPACE_TO_END(h, t, size)
         IN  /\ n \in Nat
             /\ h + n <= size
             /\ CIRC_CNT(h, t, size) + n <= size - 1
             /\ n = size - h \/ n = size - 1 - CIRC_CNT(h, t, size)
<1> DEFINE end == size - 1 - h
           n   == (end + t) % size
<1>1. n = IF end + t < size THEN end + t ELSE end + t - size
  BY ModSmall, ModWrap DEF RingSize
<1>2. CIRC_CNT(h, t, size) = IF h >= t THEN h - t ELSE h - t + size
  BY CntInside
<1> QED
  BY <1>1, <1>2 DEF CIRC_SPACE_TO_END, RingSize

(* The data run CIRC_CNT_TO_END reports lies inside the buffer, is no more *)
(* than the data held and some of it if any is held, and is a whole number *)
(* of words when the indices are on word boundaries.                       *)
LEMMA CntToEnd ==
  ASSUME NEW size, RingSize(size), NEW h \in 0 .. size - 4, NEW t \in 0 .. size - 4,
         h % 4 = 0, t % 4 = 0
  PROVE  LET n == CIRC_CNT_TO_END(h, t, size)
         IN  /\ n \in Nat
             /\ t + n <= size
             /\ n <= CIRC_CNT(h, t, size)
             /\ n = size - t \/ n = CIRC_CNT(h, t, size)
             /\ n % 4 = 0
<1> DEFINE end == size - t
           n   == (h + end) % size
<1>1. n = IF h + end < size THEN h + end ELSE h + end - size
  BY ModSmall, ModWrap DEF RingSize
<1>2. CIRC_CNT(h, t, size) = IF h >= t THEN h - t ELSE h - t + size
  BY CntInside
<1> QED
  BY <1>1, <1>2 DEF CIRC_CNT_TO_END, RingSize

(* Moving an aligned index up inside the buffer: whole words only, and the *)
(* end of the buffer is its beginning.                                     *)
LEMMA WrapInside ==
  ASSUME NEW size, RingSize(size), NEW h \in 0 .. size - 4, NEW n \in Nat,
         h % 4 = 0, h + n <= size
  PROVE  /\ WrapToWord(h + n, size) = IF h + 4 * Words(n) = size THEN 0 ELSE h + 4 * Words(n)
         /\ Words(n) \in Nat
         /\ n - 3 <= 4 * Words(n) /\ 4 * Words(n) <= n
         /\ h + 4 * Words(n) <= size
<1>1. /\ Words(n) \in Nat
      /\ n - 3 <= 4 * Words(n) /\ 4 * Words(n) <= n
  BY DEF Words, WordBytes
<1>2. CASE h + n < size
  <2>1. (h + n) % size = h + n
    BY <1>2, ModSmall DEF RingSize
  <2>2. WordAligned(h + n) = h + 4 * Words(n)
    BY <1>1 DEF WordAligned, WordBytes, Words
  <2> QED
    BY <1>1, <1>2, <2>1, <2>2 DEF WrapToWord, RingSize
<1>3. CASE h + n = size
  <2>1. (h + n) % size = 0
    BY <1>3, ModWrap DEF RingSize
  <2>2. 4 * Words(n) = n
    BY <1>3 DEF Words, WordBytes, RingSize
  <2> QED
    BY <1>1, <1>3, <2>1, <2>2 DEF WrapToWord, WordAligned, WordBytes, RingSize
<1> QED
  BY <1>2, <1>3 DEF RingSize

----------------------------------------------------------------------------
(* The words of a ring of slots.  m[w], m[w+1], ... around the ring of N   *)
(* slots are the q words of the stream after the first f.                  *)
Holds(m, w, q, f, N) == \A i \in 1 .. q : m[(w + i - 1) % N] = f + i

(* A writer has put the k words after the first g into the slots from h    *)
(* on; it has written nowhere else.                                        *)
Wrote(m, m2, h, k, g, N) ==
  \A i \in 0 .. N - 1 : m2[i] = IF i \in h .. (h + k - 1) THEN g + 1 + (i - h) ELSE m[i]
OnlyWrote(m, m2, h, k, N) ==
  \A i \in 0 .. N - 1 : i \notin h .. (h + k - 1) => m2[i] = m[i]

(* The slot i words after w, without the remainder.                        *)
LEMMA SlotAt ==
  ASSUME NEW N \in Nat, NEW w \in 0 .. N - 1, NEW i \in 1 .. N
  PROVE  (w + i - 1) % N = IF w + i - 1 < N THEN w + i - 1 ELSE w + i - 1 - N
  BY ModSmall, ModWrap

(* The words a writer put behind the last one belong to the queue, and     *)
(* writing them has disturbed none of the words before them.               *)
LEMMA HoldsMore ==
  ASSUME NEW N \in Nat, NEW m, NEW m2, NEW w \in 0 .. N - 1, NEW q \in Nat, NEW k \in Nat,
         NEW f \in Int, NEW h \in 0 .. N - 1, NEW g,
         q + k <= N, h + k <= N, g = f + q,
         h = w + q \/ h = w + q - N,
         Holds(m, w, q, f, N), Wrote(m, m2, h, k, g, N)
  PROVE  Holds(m2, w, q + k, f, N)
<1> SUFFICES ASSUME NEW i \in 1 .. q + k PROVE m2[(w + i - 1) % N] = f + i
  BY DEF Holds
<1> DEFINE s == IF w + i - 1 < N THEN w + i - 1 ELSE w + i - 1 - N
<1>1. (w + i - 1) % N = s /\ s \in 0 .. N - 1
  BY SlotAt
<1>2. CASE i <= q
  <2>1. s \notin h .. (h + k - 1)
    BY <1>2
  <2>2. m[s] = f + i
    BY <1>1, <1>2 DEF Holds
  <2> HIDE DEF s
  <2> QED BY <1>1, <2>1, <2>2 DEF Wrote
<1>3. CASE i > q
  <2>1. s \in h .. (h + k - 1) /\ s - h = i - q - 1
    BY <1>3
  <2>2. g + 1 + (s - h) = f + i
    BY <2>1
  <2> HIDE DEF s
  <2> QED BY <1>1, <2>1, <2>2 DEF Wrote
<1> QED BY <1>2, <1>3

(* Writing into free slots disturbs none of the words.                     *)
LEMMA HoldsStill ==
  ASSUME NEW N \in Nat, NEW m, NEW m2, NEW w \in 0 .. N - 1, NEW q \in Nat, NEW k \in Nat,
         NEW f \in Int, NEW h \in 0 .. N - 1,
         q + k <= N, h + k <= N,
         h = w + q \/ h = w + q - N,
         Holds(m, w, q, f, N), OnlyWrote(m, m2, h, k, N)
  PROVE  Holds(m2, w, q, f, N)
<1> SUFFICES ASSUME NEW i \in 1 .. q PROVE m2[(w + i - 1) % N] = f + i
  BY DEF Holds
<1> DEFINE s == IF w + i - 1 < N THEN w + i - 1 ELSE w + i - 1 - N
<1>1. (w + i - 1) % N = s /\ s \in 0 .. N - 1
  BY SlotAt
<1>2. s \notin h .. (h + k - 1)
  OBVIOUS
<1>3. m[s] = f + i
  BY <1>1 DEF Holds
<1> HIDE DEF s
<1> QED BY <1>1, <1>2, <1>3 DEF OnlyWrote

(* What is left after the first k words are taken.                         *)
LEMMA HoldsFewer ==
  ASSUME NEW N \in Nat, NEW m, NEW w \in 0 .. N - 1, NEW q \in Nat, NEW k \in 0 .. q,
         NEW f \in Int, NEW w2 \in 0 .. N - 1, q <= N,
         w2 = w + k \/ w2 = w + k - N,
         Holds(m, w, q, f, N)
  PROVE  Holds(m, w2, q - k, f + k, N)
<1> SUFFICES ASSUME NEW i \in 1 .. q - k PROVE m[(w2 + i - 1) % N] = f + k + i
  BY DEF Holds
<1> DEFINE j == i + k
<1>1. j \in 1 .. q /\ j \in 1 .. N /\ f + k + i = f + j
  OBVIOUS
<1>2. (w2 + i - 1) % N = IF w2 + i - 1 < N THEN w2 + i - 1 ELSE w2 + i - 1 - N
  BY SlotAt
<1>3. (w + j - 1) % N = IF w + j - 1 < N THEN w + j - 1 ELSE w + j - 1 - N
  BY <1>1, SlotAt
<1>4. (w2 + i - 1) % N = (w + j - 1) % N
  BY <1>2, <1>3
<1> HIDE DEF j
<1>5. m[(w + j - 1) % N] = f + j
  BY <1>1 DEF Holds
<1> QED BY <1>1, <1>4, <1>5

----------------------------------------------------------------------------
(* A PDMA channel *)

(* The invariant, as facts about each of the two buffers: a buffer is      *)
(* started exactly while it is loaded, complete or held back, and the      *)
(* driver's next and the hardware's sel alternate in step.                 *)
Started1(c, b) == c.status[b] = STARTED
Held(c)        == c.ping_pong = 1 /\ Started1(c, A)

Flat(c) ==
  /\ Started1(c, A) <=> (A \in c.loaded \/ A \in c.comp \/ Held(c))
  /\ Started1(c, B) <=> (B \in c.loaded \/ B \in c.comp)
  /\ ~(A \in c.loaded /\ A \in c.comp) /\ ~(B \in c.loaded /\ B \in c.comp)
  /\ Held(c) => A \notin c.loaded /\ A \notin c.comp
  /\ Started1(c, A) /\ ~Started1(c, B) => c.next = B
  /\ ~Started1(c, A) /\ Started1(c, B) => c.next = A
  /\ A \in c.loaded /\ B \notin c.loaded => c.sel = A /\ c.next = B
  /\ A \notin c.loaded /\ B \in c.loaded => c.sel = B /\ c.next = A
  /\ A \in c.loaded /\ B \in c.loaded => c.sel = c.next
  /\ A \notin c.loaded /\ B \notin c.loaded /\ ~Held(c) => c.sel = c.next
  /\ c.ping_pong = 1 => /\ ~Started1(c, B)
                        /\ A \notin c.loaded /\ B \notin c.loaded
                        /\ Started1(c, A) => c.sel = A
                        /\ ~Started1(c, A) => c.next = A
  /\ ~c.in_use => ~Started1(c, A) /\ ~Started1(c, B)

ChanOK(c) == c \in Channel /\ Flat(c)

----------------------------------------------------------------------------
(* pdma_clear establishes the invariant whatever the channel was doing.    *)
LEMMA ClearFields ==
  ASSUME NEW c \in Channel, NEW pp \in {0, 1}
  PROVE  LET d == pdma_clear(c, pp)
         IN  /\ d \in Channel
             /\ d.in_use = c.in_use /\ d.next = A /\ d.sel = A
             /\ d.loaded = {} /\ d.comp = {} /\ d.ping_pong = pp
             /\ d.status = [b \in Buffers |-> STOPPED]
<1>1. /\ A \in Buffers /\ pp \in 0 .. 2 /\ {} \in SUBSET Buffers
      /\ [b \in Buffers |-> STOPPED] \in [Buffers -> {STOPPED, STARTED}]
  BY DEF Buffers
<1> QED BY <1>1 DEF pdma_clear, Channel

LEMMA ClearedFlat ==
  ASSUME NEW d, d.next = A, d.sel = A, d.loaded = {}, d.comp = {},
         d.status = [b \in Buffers |-> STOPPED]
  PROVE  Flat(d)
  BY DEF Flat, Held, Started1, STARTED, STOPPED, Buffers

LEMMA ClearInv ==
  ASSUME NEW c \in Channel, NEW pp \in {0, 1}
  PROVE  ChanOK(pdma_clear(c, pp))
  BY ClearFields, ClearedFlat DEF ChanOK

LEMMA RequestInv ==
  ASSUME NEW c \in Channel, NEW pp \in {0, 1}
  PROVE  ChanOK(pdma_request(c, pp))
<1>1. [c EXCEPT !.in_use = TRUE] \in Channel
  BY DEF Channel
<1> QED BY <1>1, ClearInv DEF pdma_request

LEMMA ReleaseInv ==
  ASSUME NEW c \in Channel, NEW pp \in {0, 1}
  PROVE  ChanOK(pdma_release(c, pp))
<1> DEFINE e == pdma_clear(c, pp)
           d == [e EXCEPT !.in_use = FALSE]
<1>1. /\ e \in Channel /\ e.next = A /\ e.sel = A /\ e.loaded = {} /\ e.comp = {}
      /\ e.status = [b \in Buffers |-> STOPPED]
  BY ClearFields
<1> HIDE DEF e
<1>2. d \in Channel
  BY <1>1 DEF Channel
<1>3. /\ d.next = e.next /\ d.sel = e.sel /\ d.loaded = e.loaded /\ d.comp = e.comp
      /\ d.status = e.status
  BY <1>1 DEF Channel
<1> HIDE DEF d
<1>4. Flat(d)
  BY <1>1, <1>3, ClearedFlat
<1>5. ChanOK(d)
  BY <1>2, <1>4 DEF ChanOK
<1> QED BY <1>5 DEF pdma_release, d, e

(* A requested channel with a stopped buffer has its next one stopped.     *)
LEMMA NextIsFree ==
  ASSUME NEW c, ChanOK(c), c.in_use, AvailableResult(c) > 0
  PROVE  StartResult(c) \in Buffers
<1>1. c \in Channel /\ Flat(c)
  BY DEF ChanOK
<1>2. ~Started1(c, A) \/ ~Started1(c, B)
  BY <1>1 DEF AvailableResult, Started1, Channel, Buffers, A, B, STARTED, STOPPED
<1>3. c.status[c.next] = STOPPED
  BY <1>1, <1>2 DEF Flat, Started1, Channel, Buffers, A, B, STARTED, STOPPED
<1> QED BY <1>1, <1>3 DEF StartResult, Channel

LEMMA StartInv ==
  ASSUME NEW c, ChanOK(c)
  PROVE  ChanOK(pdma_start(c))
<1> DEFINE d == pdma_start(c)
<1>1. c \in Channel /\ Flat(c)
  BY DEF ChanOK
<1>2. CASE StartResult(c) \notin Buffers
  BY <1>2 DEF pdma_start
<1>3. CASE StartResult(c) \in Buffers
  <2>0. A \in Buffers /\ B \in Buffers /\ A # B /\ Other(A) = B /\ Other(B) = A
    BY DEF Buffers, Other, A, B
  <2>1. c.in_use /\ c.status[c.next] = STOPPED /\ c.next \in {A, B}
    BY <1>1, <1>3 DEF StartResult, Channel, Buffers, A, B, EINVAL, EBUSY
  <2>2. CASE c.next = A
    <3> DEFINE st == [c.status EXCEPT ![A] = STARTED]
               ld == IF c.ping_pong = 1 THEN c.loaded ELSE c.loaded \cup {A}
    <3>1. d = [c EXCEPT !.next = B, !.status = st, !.loaded = ld, !.ping_pong = c.ping_pong]
      BY <1>3, <2>2, <2>0 DEF pdma_start
    <3>2. /\ st \in [Buffers -> {STOPPED, STARTED}] /\ st[A] = STARTED /\ st[B] = c.status[B]
          /\ ld \in SUBSET Buffers /\ c.ping_pong \in 0 .. 2
          /\ A \in ld <=> (A \in c.loaded \/ c.ping_pong # 1)
          /\ B \in ld <=> B \in c.loaded
      BY <1>1, <2>0 DEF Channel, Buffers
    <3> HIDE DEF d, st, ld
    <3>3. /\ d \in Channel /\ d.in_use = c.in_use /\ d.next = B /\ d.sel = c.sel
          /\ d.comp = c.comp /\ d.ping_pong = c.ping_pong /\ d.status = st /\ d.loaded = ld
      BY <1>1, <2>0, <3>1, <3>2 DEF Channel
    <3>4. Flat(d)
      BY <1>1, <2>1, <2>2, <2>0, <3>2, <3>3 DEF Flat, Held, Started1, STARTED, STOPPED
    <3>5. ChanOK(d)
      BY <3>3, <3>4 DEF ChanOK
    <3> QED BY <3>5 DEF d
  <2>3. CASE c.next = B
    <3> DEFINE st == [c.status EXCEPT ![B] = STARTED]
               ld == IF c.ping_pong = 1 THEN c.loaded \cup {A, B} ELSE c.loaded \cup {B}
               pp == IF c.ping_pong = 1 THEN 2 ELSE c.ping_pong
    <3>1. d = [c EXCEPT !.next = A, !.status = st, !.loaded = ld, !.ping_pong = pp]
      BY <1>3, <2>3, <2>0 DEF pdma_start
    <3>2. /\ st \in [Buffers -> {STOPPED, STARTED}] /\ st[B] = STARTED /\ st[A] = c.status[A]
          /\ ld \in SUBSET Buffers /\ pp \in 0 .. 2 /\ pp # 1
          /\ A \in ld <=> (A \in c.loaded \/ c.ping_pong = 1)
          /\ B \in ld
      BY <1>1, <2>0 DEF Channel, Buffers
    <3> HIDE DEF d, st, ld, pp
    <3>3. /\ d \in Channel /\ d.in_use = c.in_use /\ d.next = A /\ d.sel = c.sel
          /\ d.comp = c.comp /\ d.ping_pong = pp /\ d.status = st /\ d.loaded = ld
      BY <1>1, <2>0, <3>1, <3>2 DEF Channel
    <3>4. Flat(d)
      BY <1>1, <2>1, <2>3, <2>0, <3>2, <3>3 DEF Flat, Held, Started1, STARTED, STOPPED
    <3>5. ChanOK(d)
      BY <3>3, <3>4 DEF ChanOK
    <3> QED BY <3>5 DEF d
  <2> QED BY <2>1, <2>2, <2>3
<1> QED BY <1>2, <1>3

LEMMA BuffersAvailableInv ==
  ASSUME NEW c, ChanOK(c)
  PROVE  ChanOK(pdma_buffers_available(c))
<1> DEFINE d == pdma_buffers_available(c)
<1>1. c \in Channel /\ Flat(c)
  BY DEF ChanOK
<1>2. CASE ~(c.in_use /\ c.ping_pong = 1 /\ c.status[A] = STARTED)
  BY <1>2 DEF pdma_buffers_available
<1>3. CASE c.in_use /\ c.ping_pong = 1 /\ c.status[A] = STARTED
  <2> DEFINE ld == c.loaded \cup {A}
             pp == 2
  <2>0. pp \in 0 .. 2 /\ pp # 1 /\ ld \in SUBSET Buffers /\ A \in ld /\ (B \in ld <=> B \in c.loaded) /\ A # B
    BY <1>1 DEF Channel, Buffers, A, B
  <2>1. d = [c EXCEPT !.loaded = ld, !.ping_pong = pp]
    BY <1>3 DEF pdma_buffers_available
  <2> HIDE DEF d, ld, pp
  <2>2. /\ d \in Channel /\ d.in_use = c.in_use /\ d.next = c.next /\ d.sel = c.sel
        /\ d.comp = c.comp /\ d.ping_pong = pp /\ d.status = c.status /\ d.loaded = ld
    BY <1>1, <2>0, <2>1 DEF Channel
  <2>3. Flat(d)
    BY <1>1, <1>3, <2>0, <2>2 DEF Flat, Held, Started1
  <2>4. ChanOK(d)
    BY <2>2, <2>3 DEF ChanOK
  <2> QED BY <2>4 DEF d
<1> QED BY <1>2, <1>3

LEMMA CompleteInv ==
  ASSUME NEW c, ChanOK(c), HwCanComplete(c)
  PROVE  ChanOK(HwComplete(c))
<1> DEFINE d == HwComplete(c)
<1>1. c \in Channel /\ Flat(c) /\ c.sel \in c.loaded
  BY DEF ChanOK, HwCanComplete
<1> DEFINE ld == c.loaded \ {c.sel}
           cp == c.comp \cup {c.sel}
<1>2. /\ c.sel \in {A, B} /\ A # B /\ Other(A) = B /\ Other(B) = A
      /\ Other(c.sel) \in Buffers /\ ld \in SUBSET Buffers /\ cp \in SUBSET Buffers
  BY <1>1 DEF Channel, Buffers, Other, A, B
<1>3. /\ A \in ld <=> A \in c.loaded /\ A # c.sel
      /\ B \in ld <=> B \in c.loaded /\ B # c.sel
      /\ A \in cp <=> A \in c.comp \/ A = c.sel
      /\ B \in cp <=> B \in c.comp \/ B = c.sel
  OBVIOUS
<1>4. d = [c EXCEPT !.loaded = ld, !.sel = Other(c.sel), !.comp = cp]
  BY DEF HwComplete
<1> HIDE DEF d, ld, cp
<1>5. /\ d \in Channel /\ d.in_use = c.in_use /\ d.next = c.next /\ d.sel = Other(c.sel)
      /\ d.ping_pong = c.ping_pong /\ d.status = c.status /\ d.loaded = ld /\ d.comp = cp
  BY <1>1, <1>2, <1>4 DEF Channel
<1>6. Flat(d)
  <2>1. CASE c.sel = A
    BY <1>1, <1>2, <1>3, <1>5, <2>1 DEF Flat, Held, Started1
  <2>2. CASE c.sel = B
    BY <1>1, <1>2, <1>3, <1>5, <2>2 DEF Flat, Held, Started1
  <2> QED BY <1>2, <2>1, <2>2
<1>7. ChanOK(d)
  BY <1>5, <1>6 DEF ChanOK
<1> QED BY <1>7 DEF d

LEMMA AcknowledgeInv ==
  ASSUME NEW c, ChanOK(c)
  PROVE  ChanOK(IrqAcknowledge(c))
<1> DEFINE d == IrqAcknowledge(c)
<1>1. c \in Channel /\ Flat(c)
  BY DEF ChanOK
<1>2. /\ d \in Channel /\ d.in_use = c.in_use /\ d.next = c.next /\ d.sel = c.sel
      /\ d.ping_pong = c.ping_pong /\ d.loaded = c.loaded /\ d.comp = {}
      /\ d.status[A] = (IF A \in c.comp THEN STOPPED ELSE c.status[A])
      /\ d.status[B] = (IF B \in c.comp THEN STOPPED ELSE c.status[B])
  BY <1>1 DEF IrqAcknowledge, Channel, Buffers, A, B, STARTED, STOPPED
<1>3. Flat(d)
  BY <1>1, <1>2 DEF Flat, Held, Started1, Channel, Buffers, STARTED, STOPPED, A, B
<1> QED BY <1>2, <1>3 DEF ChanOK

----------------------------------------------------------------------------
(* A requested channel without ping-pong mode, as the transmit and the     *)
(* receive path use it.                                                    *)
Plain(c) == ChanOK(c) /\ c.in_use /\ c.ping_pong = 0

(* A buffer is under way, from pdma_start to the interrupt's acknowledging.*)
UnderWay(c, b) == b \in c.loaded \/ b \in c.comp

LEMMA BuffersAB == A \in Buffers /\ B \in Buffers /\ A # B /\ Other(A) = B /\ Other(B) = A
                   /\ \A b \in Buffers : b = A \/ b = B
  BY DEF A, B, Buffers, Other

(* What the invariant says in this mode: a started buffer is loaded or     *)
(* complete; the hardware's buffer is the one loaded alone or first, and   *)
(* the driver's next one otherwise.                                        *)
LEMMA PlainFacts ==
  ASSUME NEW c, Plain(c)
  PROVE  /\ c \in Channel /\ c.in_use
         /\ c.next \in Buffers /\ c.sel \in Buffers
         /\ c.loaded \subseteq Buffers /\ c.comp \subseteq Buffers
         /\ \A b \in Buffers : c.status[b] = STARTED <=> UnderWay(c, b)
         /\ \A b \in Buffers : ~(b \in c.loaded /\ b \in c.comp)
         /\ \A b \in Buffers : UnderWay(c, b) /\ ~UnderWay(c, Other(b)) => c.next = Other(b)
         /\ c.loaded # {} => c.sel \in c.loaded
         /\ \A b \in Buffers : b \in c.loaded /\ Other(b) \notin c.loaded => c.next = Other(b)
         /\ c.sel \notin c.loaded => c.sel = c.next
         /\ A \in c.loaded /\ B \in c.loaded => c.sel = c.next
<1>1. c \in Channel /\ Flat(c) /\ c.in_use /\ c.ping_pong = 0
  BY DEF Plain, ChanOK
<1>2. /\ c.next \in Buffers /\ c.sel \in Buffers
      /\ c.loaded \subseteq Buffers /\ c.comp \subseteq Buffers
  BY <1>1 DEF Channel
<1>3. ~Held(c)
  BY <1>1 DEF Held
<1> QED BY <1>1, <1>2, <1>3, BuffersAB DEF Flat, Started1, UnderWay

(* How many buffers are free, and that nothing is held back.               *)
LEMMA PlainAvailable ==
  ASSUME NEW c, Plain(c)
  PROVE  /\ pdma_buffers_available(c) = c
         /\ AvailableResult(c) \in 0 .. 2
         /\ AvailableResult(c) > 0 <=> ~(UnderWay(c, A) /\ UnderWay(c, B))
         /\ AvailableResult(c) = 2 <=> ~UnderWay(c, A) /\ ~UnderWay(c, B)
         /\ AvailableResult(c) = 2 <=> c.loaded = {} /\ c.comp = {}
         /\ Started(c) = {} <=> ~UnderWay(c, A) /\ ~UnderWay(c, B)
<1>1. pdma_buffers_available(c) = c
  BY DEF pdma_buffers_available, Plain
<1>2. /\ c.in_use /\ c.status \in [Buffers -> {STOPPED, STARTED}]
      /\ c.status[A] = STARTED <=> UnderWay(c, A)
      /\ c.status[B] = STARTED <=> UnderWay(c, B)
  BY PlainFacts, BuffersAB DEF Channel
<1>3. /\ c.status[A] = STOPPED <=> ~UnderWay(c, A)
      /\ c.status[B] = STOPPED <=> ~UnderWay(c, B)
  BY <1>2, BuffersAB DEF STOPPED, STARTED
<1>4. Started(c) = {} <=> ~UnderWay(c, A) /\ ~UnderWay(c, B)
  BY <1>2, BuffersAB DEF Started
<1>5. c.loaded = {} /\ c.comp = {} <=> ~UnderWay(c, A) /\ ~UnderWay(c, B)
  BY PlainFacts, BuffersAB DEF UnderWay
<1> QED BY <1>1, <1>2, <1>3, <1>4, <1>5 DEF AvailableResult

(* pdma_start on a channel with a free buffer.                             *)
LEMMA PlainStart ==
  ASSUME NEW c, Plain(c), AvailableResult(c) > 0
  PROVE  LET d == pdma_start(c)
         IN  /\ StartResult(c) = c.next /\ c.next \in Buffers
             /\ ~UnderWay(c, c.next)
             /\ Plain(d)
             /\ d.loaded = c.loaded \cup {c.next} /\ d.comp = c.comp
             /\ d.sel = c.sel /\ d.next = Other(c.next)
<1> DEFINE d == pdma_start(c)
<1>1. /\ c \in Channel /\ c.in_use /\ c.ping_pong = 0 /\ ChanOK(c) /\ c.next \in Buffers
      /\ c.status[c.next] = STARTED <=> UnderWay(c, c.next)
  BY PlainFacts DEF Plain
<1>2. StartResult(c) \in Buffers
  BY <1>1, NextIsFree
<1>3. StartResult(c) = c.next /\ c.status[c.next] = STOPPED
  BY <1>1, <1>2 DEF StartResult, EINVAL, EBUSY, Buffers, A, B
<1>4. ~UnderWay(c, c.next)
  BY <1>1, <1>3 DEF STOPPED, STARTED
<1>5. ChanOK(d)
  BY <1>1, StartInv
<1>6. d = [c EXCEPT !.next = Other(c.next), !.status = [c.status EXCEPT ![c.next] = STARTED],
                    !.loaded = c.loaded \cup {c.next}, !.ping_pong = 0]
  <2>1. A # B /\ c.ping_pong # 1 /\ (c.next = A \/ c.next = B)
    BY <1>1, BuffersAB
  <2>2. CASE c.next = A
    BY <1>1, <1>2, <2>1, <2>2 DEF pdma_start
  <2>3. CASE c.next = B
    BY <1>1, <1>2, <2>1, <2>3 DEF pdma_start
  <2> QED BY <2>1, <2>2, <2>3
<1>7. /\ d.loaded = c.loaded \cup {c.next} /\ d.comp = c.comp
      /\ d.sel = c.sel /\ d.next = Other(c.next)
      /\ d.in_use = c.in_use /\ d.ping_pong = 0
  BY <1>1, <1>6 DEF Channel
<1> QED BY <1>1, <1>3, <1>4, <1>5, <1>7 DEF Plain

(* pdma_clear.                                                             *)
LEMMA PlainClear ==
  ASSUME NEW c, Plain(c)
  PROVE  LET d == pdma_clear(c, 0)
         IN  Plain(d) /\ d.loaded = {} /\ d.comp = {}
<1>1. c \in Channel /\ c.in_use
  BY DEF Plain, ChanOK
<1> QED BY <1>1, ClearInv, ClearFields DEF Plain

(* The hardware finishes the selected buffer.                              *)
LEMMA PlainComplete ==
  ASSUME NEW c, Plain(c), HwCanComplete(c)
  PROVE  LET d == HwComplete(c)
         IN  /\ Plain(d)
             /\ d.loaded = c.loaded \ {c.sel} /\ d.comp = c.comp \cup {c.sel}
             /\ d.sel = Other(c.sel) /\ d.next = c.next
             /\ \A b \in Buffers : UnderWay(d, b) <=> UnderWay(c, b)
<1> DEFINE d == HwComplete(c)
<1>1. c \in Channel /\ c.in_use /\ c.ping_pong = 0 /\ ChanOK(c) /\ c.sel \in c.loaded
  BY DEF Plain, ChanOK, HwCanComplete
<1>2. ChanOK(d)
  BY <1>1, CompleteInv
<1>3. /\ d.loaded = c.loaded \ {c.sel} /\ d.comp = c.comp \cup {c.sel}
      /\ d.sel = Other(c.sel) /\ d.next = c.next
      /\ d.in_use = c.in_use /\ d.ping_pong = c.ping_pong
  BY <1>1 DEF HwComplete, Channel
<1> HIDE DEF d
<1>4. \A b \in Buffers : UnderWay(d, b) <=> UnderWay(c, b)
  BY <1>1, <1>3 DEF UnderWay
<1>5. Plain(d)
  BY <1>1, <1>2, <1>3 DEF Plain
<1> QED BY <1>3, <1>4, <1>5 DEF d

(* The interrupt acknowledges: what is loaded stays, the rest is stopped.  *)
LEMMA PlainAcknowledge ==
  ASSUME NEW c, Plain(c)
  PROVE  LET d == IrqAcknowledge(c)
         IN  /\ Plain(d)
             /\ d.loaded = c.loaded /\ d.comp = {} /\ d.sel = c.sel /\ d.next = c.next
             /\ c.comp # {} => AvailableResult(d) > 0
<1> DEFINE d == IrqAcknowledge(c)
<1>1. c \in Channel /\ c.in_use /\ c.ping_pong = 0 /\ ChanOK(c)
  BY DEF Plain, ChanOK
<1>2. ChanOK(d)
  BY <1>1, AcknowledgeInv
<1>3. /\ d.loaded = c.loaded /\ d.comp = {} /\ d.sel = c.sel /\ d.next = c.next
      /\ d.in_use = c.in_use /\ d.ping_pong = c.ping_pong
  BY <1>1 DEF IrqAcknowledge, Channel
<1> HIDE DEF d
<1>4. Plain(d)
  BY <1>1, <1>2, <1>3 DEF Plain
<1>5. c.comp # {} => AvailableResult(d) > 0
  <2> SUFFICES ASSUME c.comp # {} PROVE ~(UnderWay(d, A) /\ UnderWay(d, B))
    BY <1>4, PlainAvailable
  <2>1. PICK b \in Buffers : b \in c.comp /\ b \notin c.loaded
    BY PlainFacts
  <2> QED BY <1>3, <2>1, BuffersAB DEF UnderWay
<1> QED BY <1>3, <1>4, <1>5 DEF d
============================================================================
