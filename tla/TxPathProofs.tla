---------------------------- MODULE TxPathProofs ----------------------------
(***************************************************************************)
(* Proofs about the transmit path, for every number of processes and for   *)
(* every size of the buffer, the frames and the FIFO.                      *)
(***************************************************************************)
EXTENDS TxPath, DriverLemmas

(* The ring and its data in words.                                         *)
N == BufSize \div 4
H == WordOf(head)
T == WordOf(tail)
Q == Words(whitebox_user_source_data_total(head, tail))

(* The words that have reached the exciter.                                *)
Sent == Len(sent) + Len(fifo)

----------------------------------------------------------------------------
(* The inductive invariant. *)

(* Who holds the semaphore and who the processor.                          *)
HoldSteps == {"write_check", "write_copy", "fsync_drain", "fsync_stop", "fsync_txen"}
CpuSteps  == {"write_check", "write_post", "fsync_drain", "fsync_exec", "fsync_redown",
              "fsync_stop", "fsync_txen", "fsync_txen_redown"}

SemHeld == \A p \in Procs : proc[p].pc \in HoldSteps <=> sem = p
CpuHeld == \A p \in Procs : proc[p].pc \in CpuSteps => cpu = p

(* A write moves whole words, at least one of them.                        *)
CountsOK ==
  \A p \in Procs :
    /\ proc[p].pc \in WriteSteps => proc[p].n % 4 = 0
    /\ proc[p].pc \in WriteSteps \ {"write_down"} => proc[p].n > 0

(* What a copying writer checked is still true: its words fit behind head. *)
CopyFits ==
  \A p \in Procs : proc[p].pc = "write_copy" =>
    head + proc[p].n <= BufSize /\ 4 * Q + proc[p].n <= BufSize - 4

(* The buffer's next word to move.                                         *)
Rest(b) == dma[b].src + dma[b].count - dma[b].left

(* A buffer is loaded exactly while it has words left; its words lie       *)
(* inside the ring.                                                        *)
TransfersOK ==
  \A b \in Buffers :
    /\ dma[b].left <= dma[b].count /\ 4 * dma[b].count <= FrameBytes
    /\ dma[b].src + dma[b].count <= N
    /\ b \in chan.loaded <=> dma[b].left > 0

(* Slot y comes after the words that end before slot x.                    *)
Follows(x, y) == y = x \/ (x = N /\ y = 0)

(* The two transfers and the queue are one run of slots: after the         *)
(* selected buffer comes the other one, and then tail.                     *)
OneRun ==
  \A b \in chan.loaded :
    Follows(dma[b].src + dma[b].count,
            IF b = chan.sel /\ Other(b) \in chan.loaded THEN Rest(Other(b)) ELSE T)

(* How many words go out before those of buffer b.                         *)
Before(b) == Sent + IF b = chan.sel THEN 0 ELSE dma[Other(b)].left

(* The words a transfer has still to move, or those one lap later.         *)
TransferWords ==
  \A b \in chan.loaded : \A j \in 1 .. dma[b].left :
    mem[Rest(b) + j - 1] - (Before(b) + j) \in {0, N}

(* The types of the data, and word boundaries.                             *)
DataTypes ==
  /\ head \in 0 .. BufSize - 4 /\ tail \in 0 .. BufSize - 4
  /\ head % 4 = 0 /\ tail % 4 = 0
  /\ mem \in [Slots -> Nat]
  /\ dma \in [Buffers -> [src : Slots, count : Nat, left : Nat]]
  /\ fifo \in Seq(Nat) /\ sent \in Seq(Nat)
  /\ written \in Nat
  /\ Plain(chan)

(* Everything about where the words are.                                   *)
WordsOK ==
  /\ DataTypes /\ TransfersOK /\ EveryWordAccounted /\ QueueIntact
  /\ OneRun /\ TransferWords /\ NothingLostOrReordered

(* From its entry to its return fsync() owns the device's state.           *)
Stopping ==
  \A p \in Procs : proc[p].pc \in FsyncSteps \ {"fsync_down"} => state = TX_STOPPING

(* An idle device has no transfer, nor has one that fsync() waits for to   *)
(* turn itself off.                                                        *)
Quiet == state = IDLE \/ \E p \in Procs : proc[p].pc \in {"fsync_txen", "fsync_txen_redown"}
NoneLeft == Quiet => chan.loaded = {} /\ chan.comp = {}

(* A writer that has produced finds its words in the queue, or an          *)
(* interrupt has woken everybody since.                                    *)
SleepersSeeData ==
  PostPending /\ Q = 0 => \A p \in Procs : proc[p].pc # "write_sleep"

Control == SemHeld /\ CpuHeld /\ CountsOK
Waiting == SleepersSeeData /\ QueuedDataHasATransfer /\ NoLostWakeup

Kept == WordsOK /\ CopyFits /\ Stopping /\ NoneLeft /\ Waiting
IInv == TypeOK /\ Control /\ Kept

----------------------------------------------------------------------------
(* Processes: the semaphore and the processor. *)

ProcsOK ==
  /\ sem \in Procs \cup {NoProc} /\ cpu \in Procs \cup {NoProc}
  /\ proc \in [Procs -> [pc : {Idle} \cup WriteSteps \cup FsyncSteps, n : Nat,
                         err : BOOLEAN, ret : Results]]

(* Process p makes a step to pc `to' and the others stay where they are.   *)
Moves(p, to) ==
  /\ proc' \in [Procs -> [pc : {Idle} \cup WriteSteps \cup FsyncSteps, n : Nat,
                          err : BOOLEAN, ret : Results]]
  /\ proc'[p].pc = to
  /\ \A r \in Procs \ {p} : proc'[r] = proc[r]

LEMMA MovesTo ==
  ASSUME ProcsOK, NEW p \in Procs, NEW to \in {Idle} \cup WriteSteps \cup FsyncSteps,
         Go(p, to) \/ Sleep(p, to)
  PROVE  Moves(p, to) /\ proc'[p].n = proc[p].n
  BY DEF ProcsOK, Moves, Go, Sleep

LEMMA MovesReturn ==
  ASSUME ProcsOK, NEW p \in Procs, NEW r \in Results, Return(p, r)
  PROVE  Moves(p, Idle) /\ proc'[p].ret = r
  BY DEF ProcsOK, Moves, Return

(* A step keeps the invariant if what p's new pc asks for is so.           *)
LEMMA ControlMoves ==
  ASSUME ProcsOK, Control, NEW p \in Procs, NEW to, Moves(p, to),
         cpu' = cpu \/ (cpu \in {p, NoProc} /\ cpu' \in {p, NoProc}),
         to \in CpuSteps => cpu' = p,
         to \in HoldSteps <=> sem' = p,
         sem' # sem => sem' \in {p, NoProc} /\ sem \in {p, NoProc},
         to \in WriteSteps => proc'[p].n % 4 = 0 /\ (to # "write_down" => proc'[p].n > 0)
  PROVE  Control' /\ ProcsOK'
<1>1. \A r \in Procs : r # NoProc
  BY ProcsAssumption
<1>2. ProcsOK'
  BY DEF ProcsOK, Moves
<1>3. SemHeld'
  BY <1>1 DEF Control, SemHeld, Moves
<1>4. CpuHeld'
  BY <1>1 DEF Control, CpuHeld, Moves
<1>5. CountsOK'
  BY DEF Control, CountsOK, Moves
<1> QED BY <1>2, <1>3, <1>4, <1>5 DEF Control

LEMMA ControlStep ==
  ASSUME ProcsOK, Control, written \in Nat, [Next]_vars PROVE ProcsOK' /\ Control'
<1> USE DEF WriteSteps, FsyncSteps, HoldSteps, CpuSteps, Idle, Results
<1>0. \A r \in Procs : r # NoProc
  BY ProcsAssumption
<1>1. ASSUME NEW p \in Procs, CallWrite(p) PROVE ProcsOK' /\ Control'
  <2>1. PICK n \in Counts : Call(p, "write_down", n)
    BY <1>1 DEF CallWrite
  <2>2. n \in Nat /\ n % 4 = 0
    BY SizesAssumption
  <2>3. Moves(p, "write_down") /\ proc'[p].n = n /\ UNCHANGED <<sem, cpu>> /\ proc[p].pc = Idle
    BY <2>1, <2>2 DEF Call, ProcsOK, Moves
  <2>4. sem # p
    BY <2>3 DEF Control, SemHeld
  <2> QED BY <2>2, <2>3, <2>4, ControlMoves
<1>2. ASSUME NEW p \in Procs, CallFsync(p), written \in Nat PROVE ProcsOK' /\ Control'
  <2>3. Moves(p, "fsync_down") /\ UNCHANGED <<sem, cpu>> /\ proc[p].pc = Idle
    BY <1>2 DEF CallFsync, Call, ProcsOK, Moves
  <2>4. sem # p
    BY <2>3 DEF Control, SemHeld
  <2> QED BY <2>3, <2>4, ControlMoves
<1>3. ASSUME NEW p \in Procs, Poll(p) PROVE ProcsOK' /\ Control'
  <2>3. Moves(p, Idle) /\ UNCHANGED <<sem, cpu>> /\ proc[p].pc = Idle
    BY <1>3 DEF Poll, Step, ProcsOK, Moves
  <2>4. sem # p
    BY <2>3 DEF Control, SemHeld
  <2> QED BY <2>3, <2>4, ControlMoves
<1>4. ASSUME NEW p \in Procs, Signal(p) PROVE ProcsOK' /\ Control'
  <2>1. Return(p, "ERESTARTSYS") /\ UNCHANGED sem /\ cpu \in {NoProc, p}
    BY <1>4 DEF Signal, Step
  <2>2. Moves(p, Idle) /\ cpu' = NoProc
    BY <2>1, MovesReturn DEF Return
  <2>3. proc[p].pc \notin HoldSteps
    BY <1>4 DEF Signal, Step, DownSteps
  <2>4. sem # p
    BY <2>3 DEF Control, SemHeld
  <2> QED BY <2>1, <2>2, <2>4, ControlMoves
<1>5. ASSUME NEW p \in Procs, WriteFault(p) PROVE ProcsOK' /\ Control'
  <2>1. Return(p, "EFAULT") /\ sem' = NoProc /\ cpu \in {NoProc, p} /\ proc[p].pc = "write_copy"
    BY <1>5 DEF WriteFault, Step, Up
  <2>2. Moves(p, Idle) /\ cpu' = NoProc
    BY <2>1, MovesReturn DEF Return
  <2>4. sem = p
    BY <2>1 DEF Control, SemHeld
  <2> QED BY <1>0, <2>1, <2>2, <2>4, ControlMoves
<1>6. ASSUME NEW p \in Procs, WriteEnter(p) PROVE ProcsOK' /\ Control'
  <2>1. sem = NoProc /\ cpu \in {NoProc, p} /\ proc[p].pc = "write_down"
    BY <1>6 DEF WriteEnter, Step
  <2>2. CASE (Return(p, "ok") \/ Return(p, "EIO")) /\ UNCHANGED sem
    <3>1. Moves(p, Idle) /\ cpu' = NoProc
      BY <2>2, MovesReturn DEF Return
    <3> QED BY <1>0, <2>1, <2>2, <3>1, ControlMoves
  <2>3. CASE proc[p].n # 0 /\ Go(p, "write_check") /\ Down(p)
    <3>1. Moves(p, "write_check") /\ cpu' = p /\ sem' = p /\ proc'[p].n = proc[p].n
      BY <2>3, MovesTo DEF Go, Down
    <3>2. proc[p].n \in Nat /\ proc[p].n % 4 = 0 /\ proc[p].n > 0
      BY <2>1, <2>3 DEF Control, CountsOK, ProcsOK
    <3> QED BY <1>0, <2>1, <3>1, <3>2, ControlMoves
  <2> QED BY <1>6, <2>2, <2>3 DEF WriteEnter
<1>7. ASSUME NEW p \in Procs, WriteCheck(p) PROVE ProcsOK' /\ Control'
  <2>1. cpu \in {NoProc, p} /\ proc[p].pc = "write_check" /\ sem = p
    BY <1>7 DEF WriteCheck, Step, Control, SemHeld
  <2>2. proc[p].n % 4 = 0 /\ proc[p].n > 0
    BY <2>1 DEF Control, CountsOK
  <2>3. CASE (Return(p, "EIO") \/ Return(p, "EAGAIN")) /\ Up
    <3>1. Moves(p, Idle) /\ cpu' = NoProc /\ sem' = NoProc
      BY <2>3, MovesReturn DEF Return, Up
    <3> QED BY <1>0, <2>1, <3>1, ControlMoves
  <2>4. CASE Go(p, "write_wait") /\ Up
    <3>1. Moves(p, "write_wait") /\ cpu' = p /\ sem' = NoProc /\ proc'[p].n = proc[p].n
      BY <2>4, MovesTo DEF Go, Up
    <3> QED BY <1>0, <2>1, <2>2, <3>1, ControlMoves
  <2>5. CASE Sleep(p, "write_copy") /\ UNCHANGED sem
    <3>1. Moves(p, "write_copy") /\ cpu' = NoProc /\ sem' = sem /\ proc'[p].n = proc[p].n
      BY <2>5, MovesTo DEF Sleep
    <3> QED BY <1>0, <2>1, <2>2, <3>1, ControlMoves
  <2> QED BY <1>7, <2>3, <2>4, <2>5 DEF WriteCheck
<1>8. ASSUME NEW p \in Procs, WriteWait(p) PROVE ProcsOK' /\ Control'
  <2>1. /\ cpu \in {NoProc, p} /\ proc[p].pc = "write_wait" /\ sem # p
        /\ proc[p].n % 4 = 0 /\ proc[p].n > 0 /\ UNCHANGED sem
    BY <1>8 DEF WriteWait, Step, Control, SemHeld, CountsOK
  <2>2. CASE \E e \in BOOLEAN : proc' = [proc EXCEPT ![p].pc = "write_redown", ![p].err = e]
    <3>1. Moves(p, "write_redown") /\ proc'[p].n = proc[p].n
      <4>1. PICK e \in BOOLEAN : proc' = [proc EXCEPT ![p].pc = "write_redown", ![p].err = e]
        BY <2>2
      <4>2. proc'[p] = [proc[p] EXCEPT !.pc = "write_redown", !.err = e]
        BY <4>1 DEF ProcsOK
      <4>3. \A r \in Procs \ {p} : proc'[r] = proc[r]
        BY <4>1 DEF ProcsOK
      <4>4. proc'[p] \in [pc : {Idle} \cup WriteSteps \cup FsyncSteps, n : Nat,
                          err : BOOLEAN, ret : Results]
        BY <4>2 DEF ProcsOK
      <4>5. proc'[p].pc = "write_redown" /\ proc'[p].n = proc[p].n
        BY <4>2 DEF ProcsOK
      <4> QED BY <4>1, <4>3, <4>4, <4>5 DEF Moves, ProcsOK
    <3>2. cpu' \in {p, NoProc}
      BY <1>8 DEF WriteWait, Sleep
    <3> QED BY <2>1, <3>1, <3>2, ControlMoves
  <2>3. CASE Sleep(p, "write_sleep")
    <3>1. Moves(p, "write_sleep") /\ proc'[p].n = proc[p].n /\ cpu' = NoProc
      BY <2>3, MovesTo DEF Sleep
    <3> QED BY <2>1, <3>1, ControlMoves
  <2> QED BY <1>8, <2>2, <2>3 DEF WriteWait, tx_error
<1>9. ASSUME NEW p \in Procs, WriteRedown(p) PROVE ProcsOK' /\ Control'
  <2>1. /\ cpu \in {NoProc, p} /\ proc[p].pc = "write_redown" /\ sem = NoProc /\ sem' = p
        /\ proc[p].n % 4 = 0 /\ proc[p].n > 0 /\ cpu' = p
    BY <1>9 DEF WriteRedown, Step, Control, CountsOK, Down, Go
  <2>2. Moves(p, "write_check") /\ proc'[p].n = proc[p].n
    BY <1>9, MovesTo DEF WriteRedown
  <2> QED BY <2>1, <2>2, ControlMoves
<1>10. ASSUME NEW p \in Procs, WriteCopy(p) PROVE ProcsOK' /\ Control'
  <2>1. /\ cpu \in {NoProc, p} /\ proc[p].pc = "write_copy" /\ sem = p /\ sem' = NoProc
        /\ proc[p].n % 4 = 0 /\ proc[p].n > 0 /\ cpu' = p
    BY <1>10 DEF WriteCopy, Step, Control, CountsOK, SemHeld, Up, Go
  <2>2. Moves(p, "write_post") /\ proc'[p].n = proc[p].n
    BY <1>10, MovesTo DEF WriteCopy
  <2> QED BY <1>0, <2>1, <2>2, ControlMoves
<1>11. ASSUME NEW p \in Procs, WritePost(p) PROVE ProcsOK' /\ Control'
  <2>1. /\ cpu \in {NoProc, p} /\ sem # p /\ UNCHANGED sem
        /\ Return(p, "ok") /\ cpu' = NoProc
    BY <1>11 DEF WritePost, Step, Control, SemHeld, Return
  <2>2. Moves(p, Idle)
    BY <2>1, MovesReturn
  <2> QED BY <2>1, <2>2, ControlMoves
<1>12. ASSUME NEW p \in Procs, FsyncEnter(p) PROVE ProcsOK' /\ Control'
  <2>1. cpu \in {NoProc, p} /\ sem = NoProc
    BY <1>12 DEF FsyncEnter, Step
  <2>2. CASE Return(p, "ok") /\ UNCHANGED sem
    <3>1. Moves(p, Idle) /\ cpu' = NoProc
      BY <2>2, MovesReturn DEF Return
    <3> QED BY <1>0, <2>1, <2>2, <3>1, ControlMoves
  <2>3. CASE Go(p, "fsync_drain") /\ Down(p)
    <3>1. Moves(p, "fsync_drain") /\ cpu' = p /\ sem' = p
      BY <2>3, MovesTo DEF Go, Down
    <3> QED BY <1>0, <2>1, <3>1, ControlMoves
  <2> QED BY <1>12, <2>2, <2>3 DEF FsyncEnter
<1>13. ASSUME NEW p \in Procs, FsyncDrain(p) \/ FsyncStop(p) \/ FsyncTxen(p)
       PROVE ProcsOK' /\ Control'
  <2>1. /\ cpu \in {NoProc, p} /\ sem = p
    BY <1>13 DEF FsyncDrain, FsyncStop, FsyncTxen, Step, Control, SemHeld
  <2>2. CASE (Return(p, "ok") \/ Return(p, "EIO")) /\ Up
    <3>1. Moves(p, Idle) /\ cpu' = NoProc /\ sem' = NoProc
      BY <2>2, MovesReturn DEF Return, Up
    <3> QED BY <1>0, <2>1, <3>1, ControlMoves
  <2>3. ASSUME NEW to \in {"fsync_stop", "fsync_txen"}, Go(p, to), UNCHANGED sem
        PROVE ProcsOK' /\ Control'
    <3>1. Moves(p, to) /\ cpu' = p
      BY <2>3, MovesTo DEF Go
    <3> QED BY <1>0, <2>1, <2>3, <3>1, ControlMoves
  <2>4. ASSUME NEW to \in {"fsync_exec", "fsync_txen_redown"}, Go(p, to), Up
        PROVE ProcsOK' /\ Control'
    <3>1. Moves(p, to) /\ cpu' = p /\ sem' = NoProc
      BY <2>4, MovesTo DEF Go, Up
    <3> QED BY <1>0, <2>1, <2>4, <3>1, ControlMoves
  <2> QED BY <1>13, <2>2, <2>3, <2>4 DEF FsyncDrain, FsyncStop, FsyncTxen, FsyncError
<1>14. ASSUME NEW p \in Procs, FsyncExec(p) PROVE ProcsOK' /\ Control'
  <2>1. /\ cpu \in {NoProc, p} /\ sem # p /\ UNCHANGED sem /\ cpu' = p
    BY <1>14 DEF FsyncExec, Step, Control, SemHeld, Go
  <2>2. Moves(p, "fsync_redown")
    BY <1>14, MovesTo DEF FsyncExec
  <2> QED BY <2>1, <2>2, ControlMoves
<1>15. ASSUME NEW p \in Procs, FsyncRedown(p) PROVE ProcsOK' /\ Control'
  <2>1. cpu \in {NoProc, p} /\ sem = NoProc /\ sem' = p
    BY <1>15 DEF FsyncRedown, Step, Down
  <2>2. ASSUME NEW to \in {"fsync_drain", "fsync_txen"}, Go(p, to) PROVE ProcsOK' /\ Control'
    <3>1. Moves(p, to) /\ cpu' = p
      BY <2>2, MovesTo DEF Go
    <3> QED BY <1>0, <2>1, <2>2, <3>1, ControlMoves
  <2> QED BY <1>15, <2>2 DEF FsyncRedown
<1>16. ASSUME Irq PROVE ProcsOK' /\ Control'
  <2>1. /\ UNCHANGED <<sem, cpu>>
        /\ proc' = [p \in Procs |-> IF proc[p].pc = "write_sleep"
                              THEN [proc[p] EXCEPT !.pc = "write_wait"] ELSE proc[p]]
    BY <1>16 DEF Irq
  <2>2. ASSUME NEW p \in Procs
        PROVE  /\ proc'[p] \in [pc : {Idle} \cup WriteSteps \cup FsyncSteps, n : Nat,
                                err : BOOLEAN, ret : Results]
               /\ proc'[p].n = proc[p].n
               /\ \/ proc'[p].pc = proc[p].pc
                  \/ proc[p].pc = "write_sleep" /\ proc'[p].pc = "write_wait"
    BY <2>1 DEF ProcsOK
  <2>3. ProcsOK'
    BY <2>1, <2>2 DEF ProcsOK
  <2>4. SemHeld' /\ CpuHeld' /\ CountsOK'
    BY <2>1, <2>2 DEF Control, SemHeld, CpuHeld, CountsOK
  <2> QED BY <2>3, <2>4 DEF Control
<1>17. ASSUME UNCHANGED <<sem, cpu, proc>> PROVE ProcsOK' /\ Control'
  BY <1>17 DEF ProcsOK, Control, SemHeld, CpuHeld, CountsOK
<1>18. DmaWord \/ DacSample \/ UNCHANGED vars => UNCHANGED <<sem, cpu, proc>>
  BY DEF DmaWord, DacSample, vars, procVars
<1> QED BY <1>1, <1>2, <1>3, <1>4, <1>5, <1>6, <1>7, <1>8, <1>9, <1>10, <1>11, <1>12,
           <1>13, <1>14, <1>15, <1>16, <1>17, <1>18 DEF Next, Operation

----------------------------------------------------------------------------
(* The ring. *)

LEMMA Ring == RingSize(BufSize)
  BY BufSizeAssumption DEF RingSize

LEMMA NWords == N \in Nat /\ N >= 2 /\ 4 * N = BufSize /\ Slots = 0 .. N - 1
<1>1. N \in Nat /\ N >= 2 /\ 4 * N = BufSize
  BY BufSizeAssumption DEF N
<1> QED BY <1>1 DEF Slots, N

(* The indices and the counts of the user source in words.                 *)
LEMMA RingWords ==
  ASSUME NEW h \in 0 .. BufSize - 4, NEW t \in 0 .. BufSize - 4, h % 4 = 0, t % 4 = 0
  PROVE  LET q == Words(whitebox_user_source_data_total(h, t))
         IN  /\ WordOf(h) \in 0 .. N - 1 /\ 4 * WordOf(h) = h
             /\ WordOf(t) \in 0 .. N - 1 /\ 4 * WordOf(t) = t
             /\ q \in 0 .. N - 1 /\ whitebox_user_source_data_total(h, t) = 4 * q
             /\ WordOf(h) = WordOf(t) + q \/ WordOf(h) = WordOf(t) + q - N
<1> DEFINE n == whitebox_user_source_data_total(h, t)
           hw == WordOf(h)
           tw == WordOf(t)
           q == Words(n)
<1>1. h \in Nat /\ t \in Nat /\ h <= BufSize - 4 /\ t <= BufSize - 4
  BY BufSizeAssumption
<1>2. n = IF h >= t THEN h - t ELSE h - t + BufSize
  BY Ring, CntInside DEF whitebox_user_source_data_total
<1>3. n \in Nat /\ n % 4 = 0 /\ n < BufSize
  BY <1>1, <1>2, BufSizeAssumption
<1>4. /\ hw \in Nat /\ 4 * hw = h /\ tw \in Nat /\ 4 * tw = t
      /\ q \in Nat /\ 4 * q = n
  BY <1>1, <1>3, WordOfAligned, WordsAligned
<1> HIDE DEF n, hw, tw, q
<1>5. hw \in 0 .. N - 1 /\ tw \in 0 .. N - 1 /\ q \in 0 .. N - 1
  BY <1>1, <1>3, <1>4, NWords
<1>6. hw = tw + q \/ hw = tw + q - N
  BY <1>1, <1>2, <1>4, NWords
<1> QED BY <1>4, <1>5, <1>6 DEF n, hw, tw, q

(* What can be taken in one piece: something unless the queue is empty.    *)
LEMMA RingPiece ==
  ASSUME NEW h \in 0 .. BufSize - 4, NEW t \in 0 .. BufSize - 4, h % 4 = 0, t % 4 = 0
  PROVE  LET q == Words(whitebox_user_source_data_total(h, t))
             n == whitebox_user_source_data_available(h, t)
         IN  /\ n \in Nat /\ n % 4 = 0 /\ n <= 4 * q /\ t + n <= BufSize
             /\ n = 0 <=> q = 0
<1> DEFINE q == Words(whitebox_user_source_data_total(h, t))
           n == whitebox_user_source_data_available(h, t)
<1>1. /\ n \in Nat /\ n % 4 = 0 /\ t + n <= BufSize
      /\ n <= CIRC_CNT(h, t, BufSize) /\ (n = BufSize - t \/ n = CIRC_CNT(h, t, BufSize))
  BY Ring, CntToEnd DEF whitebox_user_source_data_available
<1>2. q \in 0 .. N - 1 /\ CIRC_CNT(h, t, BufSize) = 4 * q
  BY RingWords DEF whitebox_user_source_data_total
<1>3. BufSize - t > 0 /\ t \in Int
  BY BufSizeAssumption
<1> HIDE DEF q, n
<1>4. n = 0 <=> q = 0
  BY <1>1, <1>2, <1>3, BufSizeAssumption
<1> QED BY <1>1, <1>2, <1>4 DEF q, n

(* An index moved up by k words, and the queue between the two indices.    *)
LEMMA MovedTail ==
  ASSUME NEW h \in 0 .. BufSize - 4, NEW t \in 0 .. BufSize - 4, h % 4 = 0, t % 4 = 0,
         NEW u \in 0 .. BufSize - 4, u % 4 = 0,
         NEW k \in 0 .. Words(whitebox_user_source_data_total(h, t)),
         Follows(WordOf(t) + k, WordOf(u))
  PROVE  Words(whitebox_user_source_data_total(h, u))
           = Words(whitebox_user_source_data_total(h, t)) - k
<1> DEFINE q == Words(whitebox_user_source_data_total(h, t))
           r == Words(whitebox_user_source_data_total(h, u))
<1>1. /\ WordOf(h) \in 0 .. N - 1 /\ WordOf(t) \in 0 .. N - 1 /\ q \in 0 .. N - 1
      /\ WordOf(h) = WordOf(t) + q \/ WordOf(h) = WordOf(t) + q - N
  BY RingWords
<1>2. /\ WordOf(u) \in 0 .. N - 1 /\ r \in 0 .. N - 1
      /\ WordOf(h) = WordOf(u) + r \/ WordOf(h) = WordOf(u) + r - N
  BY RingWords
<1>3. k \in 0 .. q /\ (WordOf(u) = WordOf(t) + k \/ WordOf(u) = WordOf(t) + k - N)
  BY NWords, <1>1 DEF Follows
<1> DEFINE hw == WordOf(h)
           tw == WordOf(t)
           uw == WordOf(u)
<1>4. /\ hw \in Int /\ tw \in Int /\ uw \in Int /\ q \in Int /\ r \in Int /\ k \in Int /\ N \in Int
      /\ 0 <= q /\ q < N /\ 0 <= r /\ r < N /\ 0 <= k /\ k <= q
      /\ hw = tw + q \/ hw = tw + q - N
      /\ hw = uw + r \/ hw = uw + r - N
      /\ uw = tw + k \/ uw = tw + k - N
  BY <1>1, <1>2, <1>3, NWords
<1> HIDE DEF q, r, hw, tw, uw, N
<1>5. r = q - k
  BY <1>4
<1> QED BY <1>5 DEF q, r

LEMMA MovedHead ==
  ASSUME NEW h \in 0 .. BufSize - 4, NEW t \in 0 .. BufSize - 4, h % 4 = 0, t % 4 = 0,
         NEW u \in 0 .. BufSize - 4, u % 4 = 0,
         NEW k \in Nat, Words(whitebox_user_source_data_total(h, t)) + k <= N - 1,
         Follows(WordOf(h) + k, WordOf(u))
  PROVE  Words(whitebox_user_source_data_total(u, t))
           = Words(whitebox_user_source_data_total(h, t)) + k
<1> DEFINE q == Words(whitebox_user_source_data_total(h, t))
           r == Words(whitebox_user_source_data_total(u, t))
<1>1. /\ WordOf(h) \in 0 .. N - 1 /\ WordOf(t) \in 0 .. N - 1 /\ q \in 0 .. N - 1
      /\ WordOf(h) = WordOf(t) + q \/ WordOf(h) = WordOf(t) + q - N
  BY RingWords
<1>2. /\ WordOf(u) \in 0 .. N - 1 /\ r \in 0 .. N - 1
      /\ WordOf(u) = WordOf(t) + r \/ WordOf(u) = WordOf(t) + r - N
  BY RingWords
<1>3. q + k < N /\ (WordOf(u) = WordOf(h) + k \/ WordOf(u) = WordOf(h) + k - N)
  BY NWords, <1>1 DEF Follows
<1> DEFINE hw == WordOf(h)
           tw == WordOf(t)
           uw == WordOf(u)
<1>4. /\ hw \in Int /\ tw \in Int /\ uw \in Int /\ q \in Int /\ r \in Int /\ N \in Int
      /\ 0 <= q /\ 0 <= r /\ r < N /\ 0 <= k /\ q + k < N
      /\ hw = tw + q \/ hw = tw + q - N
      /\ uw = tw + r \/ uw = tw + r - N
      /\ uw = hw + k \/ uw = hw + k - N
  BY <1>1, <1>2, <1>3, NWords
<1> HIDE DEF q, r, hw, tw, uw, N
<1>5. r = q + k
  BY <1>4
<1> QED BY <1>5 DEF q, r

LEMMA MovedIndex ==
  ASSUME NEW h \in 0 .. BufSize - 4, h % 4 = 0, NEW n \in Nat, n % 4 = 0, h + n <= BufSize
  PROVE  LET u == WrapToWord(h + n, BufSize)
         IN  /\ u \in 0 .. BufSize - 4 /\ u % 4 = 0
             /\ Follows(WordOf(h) + Words(n), WordOf(u))
             /\ Words(n) \in Nat /\ 4 * Words(n) = n /\ WordOf(h) + Words(n) <= N
<1> DEFINE u == WrapToWord(h + n, BufSize)
           k == Words(n)
<1>1. u = (IF h + 4 * k = BufSize THEN 0 ELSE h + 4 * k) /\ k \in Nat /\ 4 * k = n
  BY Ring, WrapInside, WordsAligned
<1>2. h \in Nat /\ h <= BufSize - 4 /\ WordOf(h) \in Nat /\ 4 * WordOf(h) = h
  BY BufSizeAssumption, WordOfAligned
<1> HIDE DEF u, k
<1>3. u \in Nat /\ u <= BufSize - 4 /\ u % 4 = 0
  BY <1>1, <1>2, BufSizeAssumption
<1>4. WordOf(u) \in Nat /\ 4 * WordOf(u) = u
  BY <1>3, WordOfAligned
<1>5. WordOf(h) + k <= N /\ Follows(WordOf(h) + k, WordOf(u))
  BY <1>1, <1>2, <1>4, NWords DEF Follows
<1>6. u \in 0 .. BufSize - 4
  BY <1>3, BufSizeAssumption
<1> QED BY <1>1, <1>3, <1>5, <1>6 DEF u, k

----------------------------------------------------------------------------
(* The executor. *)

(* tx_exec finds nothing to do, or starts a transfer of the k words at     *)
(* tail with the next buffer.                                              *)
Starts(c, k) ==
  /\ 4 * k <= FrameBytes /\ T + k <= N
  /\ AvailableResult(c) > 0
  /\ chan' = pdma_start(c)
  /\ dma' = [dma EXCEPT ![c.next] = [src |-> T, count |-> k, left |-> k]]
  /\ tail' \in 0 .. BufSize - 4 /\ tail' % 4 = 0
  /\ Follows(T + k, WordOf(tail'))
  /\ txen' \in BOOLEAN

NothingToStart(c) ==
  /\ Q = 0 \/ (UnderWay(c, A) /\ UnderWay(c, B))
  /\ chan' = c /\ UNCHANGED <<tail, dma, txen>>

LEMMA TxExecCases ==
  ASSUME DataTypes, txen \in BOOLEAN, NEW c, Plain(c), tx_exec(c)
  PROVE  NothingToStart(c) \/ \E k \in 1 .. Q : Starts(c, k)
<1> DEFINE src == whitebox_user_source_data_available(head, tail)
           spc == whitebox_rf_sink_space_available(c)
           count == Least(src, spc)
           k == Words(count)
<1>1. /\ src \in Nat /\ src % 4 = 0 /\ src <= 4 * Q /\ tail + src <= BufSize
      /\ src = 0 <=> Q = 0
  BY RingPiece DEF DataTypes, Q
<1>2. /\ pdma_buffers_available(c) = c /\ AvailableResult(c) \in 0 .. 2
      /\ AvailableResult(c) > 0 <=> ~(UnderWay(c, A) /\ UnderWay(c, B))
  BY PlainAvailable
<1>3. spc = IF AvailableResult(c) > 0 THEN FrameBytes ELSE 0
  BY DEF whitebox_rf_sink_space_available
<1>4. FrameBytes \in Nat /\ FrameBytes % 4 = 0 /\ FrameBytes > 0
  BY SizesAssumption
<1>5. Q \in 0 .. N - 1
  BY RingWords DEF DataTypes, Q
<1> HIDE DEF src, spc
<1>6. /\ count \in Nat /\ count % 4 = 0 /\ count <= src /\ count <= FrameBytes
      /\ count = 0 <=> (src = 0 \/ ~(AvailableResult(c) > 0))
  BY <1>1, <1>2, <1>3, <1>4 DEF Least
<1> HIDE DEF count
<1>7. k \in Nat /\ 4 * k = count
  BY <1>6, WordsAligned
<1>8. CASE k = 0 \/ StartResult(c) \notin Buffers
  <2>1. chan' = c /\ UNCHANGED <<tail, dma, txen>>
    BY <1>2, <1>8 DEF tx_exec, k, count, src, spc
  <2>2. AvailableResult(c) > 0 => StartResult(c) \in Buffers
    BY PlainStart
  <2>3. Q = 0 \/ ~(AvailableResult(c) > 0)
    BY <1>1, <1>6, <1>7, <1>8, <2>2
  <2> QED BY <1>2, <2>1, <2>3 DEF NothingToStart
<1>9. CASE ~(k = 0 \/ StartResult(c) \notin Buffers)
  <2>1. /\ whitebox_rf_sink_work(c, k) /\ _exciter_produce
        /\ tail' = whitebox_user_source_consume(tail, count)
    BY <1>2, <1>9 DEF tx_exec, k, count, src, spc
  <2>2. AvailableResult(c) > 0
    BY <1>2, <1>6, <1>7, <1>9
  <2>3. StartResult(c) = c.next
    BY <2>2, PlainStart
  <2>4. tail \in 0 .. BufSize - 4 /\ tail % 4 = 0 /\ tail + count <= BufSize
    BY <1>1, <1>6, BufSizeAssumption DEF DataTypes
  <2>5. /\ tail' \in 0 .. BufSize - 4 /\ tail' % 4 = 0
        /\ Follows(T + k, WordOf(tail')) /\ T + k <= N
    BY <1>6, <2>1, <2>4, MovedIndex DEF whitebox_user_source_consume, T
  <2>6. txen' \in BOOLEAN
    BY <2>1 DEF _exciter_produce
  <2>7. /\ chan' = pdma_start(c)
        /\ dma' = [dma EXCEPT ![c.next] = [src |-> T, count |-> k, left |-> k]]
    BY <2>1, <2>3 DEF whitebox_rf_sink_work, T
  <2>8. k \in 1 .. Q /\ 4 * k <= FrameBytes
    BY <1>1, <1>5, <1>6, <1>7, <1>9
  <2>9. Starts(c, k)
    BY <2>2, <2>5, <2>6, <2>7, <2>8 DEF Starts
  <2> QED BY <2>8, <2>9
<1> QED BY <1>8, <1>9

----------------------------------------------------------------------------
(* Where the words are. *)

LEMMA QueueHolds == QueueIntact <=> Holds(mem, T, Q, written - Q, N)
  BY DEF QueueIntact, Holds, T, Q, N

LEMMA QueueHoldsNext == QueueIntact' <=> Holds(mem', T', Q', written' - Q', N)
  BY DEF QueueIntact, Holds, T, Q, N

(* The two buffers, from either one's point of view.                       *)
LEMMA TwoBuffers ==
  ASSUME NEW b \in Buffers, NEW d \in [Buffers -> [src : Slots, count : Nat, left : Nat]]
  PROVE  /\ Other(b) \in Buffers /\ Other(b) # b /\ Other(Other(b)) = b
         /\ \A x \in Buffers : x = b \/ x = Other(b)
         /\ d[A].left + d[B].left = d[b].left + d[Other(b)].left
<1>1. /\ Other(b) \in Buffers /\ Other(b) # b /\ Other(Other(b)) = b
      /\ \A x \in Buffers : x = b \/ x = Other(b)
  BY BuffersAB
<1>2. d[A].left \in Nat /\ d[B].left \in Nat
  BY BuffersAB
<1> QED BY <1>1, <1>2, BuffersAB

(* Where the words are, added up from one buffer's point of view.          *)
LEMMA AccountedSum ==
  ASSUME NEW b \in Buffers, NEW d \in [Buffers -> [src : Slots, count : Nat, left : Nat]],
         NEW s \in Seq(Nat), NEW f \in Seq(Nat), NEW q \in Int
  PROVE  Len(s) + Len(f) + d[A].left + d[B].left + q
           = Len(s) + Len(f) + d[b].left + d[Other(b)].left + q
<1> DEFINE x == Len(s) + Len(f)
<1>1. d[A].left \in Nat /\ d[B].left \in Nat /\ x \in Nat
  BY BuffersAB
<1> HIDE DEF x
<1>2. (b = A /\ Other(b) = B) \/ (b = B /\ Other(b) = A)
  BY BuffersAB
<1>3. x + d[A].left + d[B].left + q = x + d[b].left + d[Other(b)].left + q
  BY <1>1, <1>2
<1> QED BY <1>3 DEF x

LEMMA Accounted ==
  ASSUME DataTypes, NEW b \in Buffers
  PROVE  EveryWordAccounted <=> written = Sent + dma[b].left + dma[Other(b)].left + Q
<1>1. Q \in Int
  <2>1. Q \in 0 .. N - 1
    BY RingWords DEF DataTypes, Q
  <2> QED BY <2>1, NWords
<1>2. /\ dma \in [Buffers -> [src : Slots, count : Nat, left : Nat]]
      /\ fifo \in Seq(Nat) /\ sent \in Seq(Nat)
  BY DEF DataTypes
<1>3. Len(sent) + Len(fifo) + dma[A].left + dma[B].left + Q
        = Len(sent) + Len(fifo) + dma[b].left + dma[Other(b)].left + Q
  BY <1>1, <1>2, AccountedSum
<1> QED BY <1>3 DEF EveryWordAccounted, Sent, Q

LEMMA AccountedNext ==
  ASSUME DataTypes', NEW b \in Buffers
  PROVE  EveryWordAccounted' <=> written' = Sent' + dma'[b].left + dma'[Other(b)].left + Q'
<1>1. Q' \in Int
  <2>1. Q' \in 0 .. N - 1
    BY RingWords DEF DataTypes, Q
  <2> QED BY <2>1, NWords
<1>2. /\ dma' \in [Buffers -> [src : Slots, count : Nat, left : Nat]]
      /\ fifo' \in Seq(Nat) /\ sent' \in Seq(Nat)
  BY DEF DataTypes
<1>3. Len(sent') + Len(fifo') + dma'[A].left + dma'[B].left + Q'
        = Len(sent') + Len(fifo') + dma'[b].left + dma'[Other(b)].left + Q'
  BY <1>1, <1>2, AccountedSum
<1> QED BY <1>3 DEF EveryWordAccounted, Sent, Q

LEMMA DataWords ==
  ASSUME DataTypes
  PROVE  /\ H \in 0 .. N - 1 /\ 4 * H = head /\ T \in 0 .. N - 1 /\ 4 * T = tail
         /\ Q \in 0 .. N - 1 /\ (H = T + Q \/ H = T + Q - N)
         /\ N \in Nat /\ N >= 2 /\ 4 * N = BufSize /\ Slots = 0 .. N - 1
         /\ Sent \in Nat /\ written \in Nat
         /\ \A b \in Buffers : /\ dma[b].src \in 0 .. N - 1
                               /\ dma[b].count \in Nat /\ dma[b].left \in Nat
<1>1. /\ H \in 0 .. N - 1 /\ 4 * H = head /\ T \in 0 .. N - 1 /\ 4 * T = tail
      /\ Q \in 0 .. N - 1 /\ (H = T + Q \/ H = T + Q - N)
  BY RingWords DEF DataTypes, H, T, Q
<1>2. Sent \in Nat /\ written \in Nat
  BY DEF DataTypes, Sent
<1>3. \A b \in Buffers : dma[b].src \in Slots /\ dma[b].count \in Nat /\ dma[b].left \in Nat
  BY DEF DataTypes
<1> QED BY <1>1, <1>2, <1>3, NWords

(* A transfer is started: the words at tail change from the queue to the   *)
(* buffer, which comes after the one under way.                            *)
LEMMA StartKeepsWords ==
  ASSUME DataTypes, TransfersOK, EveryWordAccounted, QueueIntact, OneRun, TransferWords,
         NEW c, Plain(c), c.loaded = chan.loaded, c.sel = chan.sel,
         NEW k \in 1 .. Q, Starts(c, k), UNCHANGED <<head, mem, written, fifo, sent>>
  PROVE  /\ DataTypes' /\ TransfersOK' /\ EveryWordAccounted' /\ QueueIntact'
         /\ OneRun' /\ TransferWords' /\ Q' = Q - k
<1> DEFINE b == c.next
           o == Other(b)
<1>0. /\ AvailableResult(c) > 0 /\ 4 * k <= FrameBytes /\ T + k <= N
      /\ tail' \in 0 .. BufSize - 4 /\ tail' % 4 = 0 /\ Follows(T + k, WordOf(tail'))
      /\ dma' = [dma EXCEPT ![b] = [src |-> T, count |-> k, left |-> k]]
      /\ chan' = pdma_start(c)
  BY DEF Starts
<1>1. /\ b \in Buffers /\ ~UnderWay(c, b) /\ Plain(chan')
      /\ chan'.loaded = c.loaded \cup {b} /\ chan'.sel = c.sel
  BY <1>0, PlainStart
<1>2. /\ o \in Buffers /\ o # b /\ Other(o) = b /\ \A x \in Buffers : x = b \/ x = o
  BY <1>1, BuffersAB
<1>3. /\ H \in 0 .. N - 1 /\ T \in 0 .. N - 1 /\ 4 * T = tail
      /\ Q \in 0 .. N - 1 /\ N \in Nat /\ N >= 2 /\ Slots = 0 .. N - 1
      /\ Sent \in Nat /\ written \in Nat
      /\ dma[b].left \in Nat /\ dma[o].left \in Nat
  BY <1>1, <1>2, DataWords
<1>4. b \notin chan.loaded /\ dma[b].left = 0
  BY <1>1, <1>3 DEF TransfersOK, UnderWay
<1>5. o \in chan.loaded => chan.sel = o
  BY <1>1, <1>2, <1>4, PlainFacts
<1>6. o \notin chan.loaded => chan.sel = b /\ dma[o].left = 0
  <2>1. o \notin chan.loaded => chan.sel = c.next
    BY <1>1, <1>2, <1>4, PlainFacts
  <2> QED BY <1>2, <1>3, <2>1 DEF TransfersOK
<1>7. k \in Nat /\ k > 0
  BY <1>3
<1>8. /\ dma'[b].src = T /\ dma'[b].count = k /\ dma'[b].left = k
      /\ dma'[o] = dma[o]
      /\ dma' \in [Buffers -> [src : Slots, count : Nat, left : Nat]]
  BY <1>0, <1>1, <1>2, <1>3, <1>7 DEF DataTypes
<1> HIDE DEF b, o
<1>9. DataTypes'
  BY <1>0, <1>1, <1>8 DEF DataTypes
<1>10. Q' = Q - k
  <2>1. /\ head \in 0 .. BufSize - 4 /\ tail \in 0 .. BufSize - 4
        /\ head % 4 = 0 /\ tail % 4 = 0 /\ head' = head
        /\ k \in 0 .. Words(whitebox_user_source_data_total(head, tail))
    BY <1>3 DEF DataTypes, Q
  <2>2. Follows(WordOf(tail) + k, WordOf(tail'))
    BY <1>0 DEF T
  <2>3. Words(whitebox_user_source_data_total(head, tail'))
          = Words(whitebox_user_source_data_total(head, tail)) - k
    BY <1>0, <2>1, <2>2, MovedTail
  <2> QED BY <2>1, <2>3 DEF Q
<1>11. /\ T' \in 0 .. N - 1 /\ (T' = T + k \/ T' = T + k - N)
  <2>1. WordOf(tail') \in 0 .. N - 1
    BY <1>0, RingWords
  <2> QED BY <1>0, <1>3, <1>7, <2>1 DEF T, Follows
<1>12. Sent' = Sent
  BY DEF Sent
<1>13. EveryWordAccounted'
  <2>1. written = Sent + dma[b].left + dma[o].left + Q
    BY <1>1, Accounted DEF o
  <2>2. written' = Sent' + dma'[b].left + dma'[o].left + Q'
    <3>1. PICK x \in Nat : x = dma[o].left
      BY <1>3
    <3>2. /\ written' = written /\ Sent' = Sent /\ Q' = Q - k
          /\ dma'[b].left = k /\ dma'[o].left = x
      BY <1>8, <1>10, <1>12, <3>1
    <3>3. written = Sent + 0 + x + Q
      BY <1>4, <2>1, <3>1
    <3>4. Sent + k + x + (Q - k) = Sent + 0 + x + Q
      BY <1>3, <1>7
    <3> QED BY <3>2, <3>3, <3>4
  <2> QED BY <1>1, <1>9, <2>2, AccountedNext DEF o
<1>14. QueueIntact'
  <2>1. Holds(mem, T, Q, written - Q, N)
    BY QueueHolds
  <2>2. written - Q \in Int /\ Q \in Nat /\ k \in 0 .. Q /\ Q <= N
    BY <1>3
  <2>3. Holds(mem, T', Q - k, (written - Q) + k, N)
    BY <1>3, <1>11, <2>1, <2>2, HoldsFewer
  <2>4. (written - Q) + k = written' - Q'
    BY <1>3, <1>10, <2>2
  <2> QED BY <1>10, <2>3, <2>4, QueueHoldsNext
<1>15. TransfersOK'
  BY <1>0, <1>1, <1>2, <1>4, <1>7, <1>8 DEF TransfersOK
<1>16. Rest(b)' = T /\ Rest(o)' = Rest(o)
  BY <1>3, <1>7, <1>8 DEF Rest
<1>17. OneRun'
  <2>1. ASSUME NEW x \in chan'.loaded
        PROVE  Follows(dma'[x].src + dma'[x].count,
                       IF x = chan'.sel /\ Other(x) \in chan'.loaded
                       THEN Rest(Other(x))' ELSE T')
    <3>1. CASE x = b
      <4>1. ~(x = chan'.sel /\ Other(x) \in chan'.loaded)
        BY <1>1, <1>2, <1>5, <3>1 DEF o
      <4> QED BY <1>0, <1>8, <3>1, <4>1 DEF T
    <3>2. CASE x = o
      <4>1. o \in chan.loaded /\ x = chan'.sel /\ Other(x) = b /\ b \in chan'.loaded
        BY <1>1, <1>2, <1>5, <3>2
      <4>2. Follows(dma[o].src + dma[o].count, T)
        BY <1>2, <1>4, <4>1 DEF OneRun
      <4> QED BY <1>8, <1>16, <3>2, <4>1, <4>2
    <3>3. x \in Buffers
      BY <1>1, PlainFacts
    <3> QED BY <1>2, <3>1, <3>2, <3>3
  <2> QED BY <2>1 DEF OneRun, Follows
<1>18. TransferWords'
  <2>1. ASSUME NEW j \in 1 .. k PROVE mem[T + j - 1] - (Before(b)' + j) \in {0, N}
    <3>1. Before(b)' = Sent + dma[o].left
      BY <1>1, <1>2, <1>3, <1>5, <1>6, <1>8, <1>12 DEF Before, o
    <3>2. written = Sent + dma[b].left + dma[o].left + Q
      BY <1>1, Accounted DEF o
    <3>3. Before(b)' = written - Q
      <4>1. written = Sent + dma[o].left + Q
        BY <1>3, <1>4, <3>2
      <4>2. Sent + dma[o].left \in Int /\ Q \in Int
        BY <1>3
      <4>3. written - Q = Sent + dma[o].left
        BY <4>1, <4>2
      <4> QED BY <3>1, <4>3
    <3>4. mem[(T + j - 1) % N] = (written - Q) + j
      BY <1>3, QueueHolds DEF Holds
    <3>5. (T + j - 1) % N = T + j - 1
      <4>1. T + j - 1 \in Int /\ N \in Int /\ 0 <= T + j - 1 /\ T + j - 1 < N
        <5>1. j \in Int /\ 1 <= j /\ j <= k /\ k \in Int
          BY <1>7
        <5>2. T \in Int /\ 0 <= T /\ T + k <= N /\ N \in Int
          BY <1>0, <1>3
        <5> QED BY <5>1, <5>2
      <4> QED BY <4>1, ModSmall
    <3> QED BY <1>3, <3>3, <3>4, <3>5
  <2>2. ASSUME o \in chan.loaded, NEW j \in 1 .. dma[o].left
        PROVE  mem[Rest(o) + j - 1] - (Before(o)' + j) \in {0, N}
    <3>1. Before(o)' = Before(o)
      BY <1>1, <1>5, <1>12, <2>2 DEF Before
    <3> QED BY <2>2, <3>1 DEF TransferWords
  <2>3. chan'.loaded \subseteq {b, o}
    BY <1>1, <1>2, PlainFacts
  <2>4. ASSUME NEW x \in chan'.loaded, NEW j \in 1 .. dma'[x].left
        PROVE  mem'[Rest(x)' + j - 1] - (Before(x)' + j) \in {0, N}
    <3>1. CASE x = b
      BY <1>8, <1>16, <2>1, <2>4, <3>1
    <3>2. CASE x = o
      <4>1. o \in chan.loaded
        BY <1>1, <1>2, <2>4, <3>2
      <4> QED BY <1>8, <1>16, <2>2, <2>4, <3>2, <4>1
    <3> QED BY <2>3, <3>1, <3>2
  <2> QED BY <2>4 DEF TransferWords
<1> QED BY <1>9, <1>10, <1>13, <1>14, <1>15, <1>17, <1>18

(* The words stay where they are and so do the loaded buffers.             *)
LEMMA SameWords ==
  ASSUME WordsOK, UNCHANGED <<head, tail, mem, dma, fifo, sent, written>>,
         Plain(chan'), chan'.loaded = chan.loaded,
         chan.loaded = {} \/ chan'.sel = chan.sel
  PROVE  WordsOK' /\ Q' = Q
<1>1. Q' = Q /\ T' = T /\ Sent' = Sent /\ \A b \in Buffers : Rest(b)' = Rest(b)
  BY DEF Q, T, Sent, Rest
<1>2. DataTypes'
  BY DEF WordsOK, DataTypes
<1>3. EveryWordAccounted' /\ QueueIntact' /\ NothingLostOrReordered'
  BY DEF WordsOK, EveryWordAccounted, QueueIntact, NothingLostOrReordered
<1>4. TransfersOK'
  BY DEF WordsOK, TransfersOK
<1>5. OneRun' /\ TransferWords'
  <2>1. CASE chan.loaded = {}
    BY <2>1 DEF OneRun, TransferWords
  <2>2. CASE chan'.sel = chan.sel
    <3>1. chan.loaded \subseteq Buffers /\ \A b \in Buffers : Other(b) \in Buffers
      BY PlainFacts, BuffersAB DEF WordsOK, DataTypes
    <3>2. \A b \in Buffers : Before(b)' = Before(b)
      BY <1>1, <2>2 DEF Before
    <3>3. OneRun'
      BY <1>1, <2>2, <3>1 DEF WordsOK, OneRun, Follows
    <3>4. TransferWords'
      BY <1>1, <3>1, <3>2 DEF WordsOK, TransferWords
    <3> QED BY <3>3, <3>4
  <2> QED BY <2>1, <2>2
<1> QED BY <1>1, <1>2, <1>3, <1>4, <1>5 DEF WordsOK

(* What tx_exec leaves behind: an empty queue or a buffer under way.       *)
LEMMA ExecKeepsWords ==
  ASSUME WordsOK, txen \in BOOLEAN,
         NEW c, Plain(c), c.loaded = chan.loaded, c.sel = chan.sel,
         tx_exec(c), UNCHANGED <<head, mem, written, fifo, sent>>
  PROVE  /\ WordsOK' /\ Q' \in 0 .. Q /\ txen' \in BOOLEAN
         /\ Started(chan') # {} \/ (Q = 0 /\ chan' = c /\ UNCHANGED tail)
<1>0. DataTypes /\ Q \in Nat
  BY DataWords DEF WordsOK
<1>1. CASE NothingToStart(c)
  <2>1. chan' = c /\ UNCHANGED <<tail, dma, txen>>
    BY <1>1 DEF NothingToStart
  <2>2. WordsOK' /\ Q' = Q
    BY <2>1, SameWords
  <2>3. Q = 0 \/ Started(chan') # {}
    BY <1>1, <2>1, PlainAvailable DEF NothingToStart
  <2> QED BY <1>0, <2>1, <2>2, <2>3
<1>2. ASSUME NEW k \in 1 .. Q, Starts(c, k)
      PROVE  /\ WordsOK' /\ Q' \in 0 .. Q /\ txen' \in BOOLEAN
             /\ Started(chan') # {}
  <2>1. /\ DataTypes' /\ TransfersOK' /\ EveryWordAccounted' /\ QueueIntact'
        /\ OneRun' /\ TransferWords' /\ Q' = Q - k
    BY <1>2, StartKeepsWords DEF WordsOK
  <2>2. NothingLostOrReordered'
    BY DEF WordsOK, NothingLostOrReordered
  <2>3. txen' \in BOOLEAN /\ AvailableResult(c) > 0 /\ chan' = pdma_start(c)
    BY <1>2 DEF Starts
  <2>4. c.next \in Buffers /\ Plain(chan') /\ chan'.loaded = c.loaded \cup {c.next}
    BY <2>3, PlainStart
  <2>5. Started(chan') # {}
    BY <2>4, PlainAvailable, BuffersAB DEF UnderWay
  <2> QED BY <1>0, <2>1, <2>2, <2>3, <2>5 DEF WordsOK
<1> QED BY <1>0, <1>1, <1>2, TxExecCases

----------------------------------------------------------------------------
(* The DMA and the DAC. *)

LEMMA StreamOf ==
  ASSUME NEW s \in Seq(Nat), NEW f \in Seq(Nat)
  PROVE  /\ Len(s) \in Nat /\ Len(f) \in Nat /\ Len(s \o f) = Len(s) + Len(f)
         /\ \A i \in 1 .. Len(s) + Len(f) :
              (s \o f)[i] = IF i <= Len(s) THEN s[i] ELSE f[i - Len(s)]
  OBVIOUS

(* The same stream, element by element.                                    *)
LEMMA StreamAppend ==
  ASSUME NEW s \in Seq(Nat), NEW f \in Seq(Nat), NEW v \in Nat
  PROVE  /\ Len(Append(f, v)) = Len(f) + 1 /\ Append(f, v) \in Seq(Nat)
         /\ \A i \in 1 .. Len(s) + Len(f) + 1 :
              (s \o Append(f, v))[i] = IF i = Len(s) + Len(f) + 1 THEN v ELSE (s \o f)[i]
<1> DEFINE g == Append(f, v)
<1>1. /\ Len(g) = Len(f) + 1 /\ g \in Seq(Nat) /\ Len(f) \in Nat /\ Len(s) \in Nat
      /\ \A i \in 1 .. Len(f) : g[i] = f[i]
      /\ g[Len(f) + 1] = v
  OBVIOUS
<1> HIDE DEF g
<1>2. ASSUME NEW i \in 1 .. Len(s) + Len(f) + 1
      PROVE  (s \o g)[i] = IF i = Len(s) + Len(f) + 1 THEN v ELSE (s \o f)[i]
  <2>1. (s \o g)[i] = IF i <= Len(s) THEN s[i] ELSE g[i - Len(s)]
    BY <1>1, StreamOf
  <2>2. CASE i = Len(s) + Len(f) + 1
    <3>1. ~(i <= Len(s)) /\ i - Len(s) = Len(f) + 1
      BY <1>1, <2>2
    <3> QED BY <1>1, <2>1, <2>2, <3>1
  <2>3. CASE i # Len(s) + Len(f) + 1
    <3>1. (s \o f)[i] = IF i <= Len(s) THEN s[i] ELSE f[i - Len(s)]
      BY <1>1, <2>3, StreamOf
    <3>2. ~(i <= Len(s)) => i - Len(s) \in 1 .. Len(f)
      BY <1>1, <2>3
    <3>3. ~(i <= Len(s)) => g[i - Len(s)] = f[i - Len(s)]
      BY <1>1, <3>2
    <3> QED BY <2>1, <2>3, <3>1, <3>3
  <2> QED BY <2>2, <2>3
<1> QED BY <1>1, <1>2 DEF g

LEMMA StreamMove ==
  ASSUME NEW s \in Seq(Nat), NEW f \in Seq(Nat), f # <<>>
  PROVE  /\ Head(f) \in Nat /\ Append(s, Head(f)) \in Seq(Nat) /\ Tail(f) \in Seq(Nat)
         /\ Len(f) >= 1
         /\ Len(Append(s, Head(f))) = Len(s) + 1 /\ Len(Tail(f)) = Len(f) - 1
         /\ \A i \in 1 .. Len(s) + Len(f) :
              (Append(s, Head(f)) \o Tail(f))[i] = (s \o f)[i]
  OBVIOUS

(* The DMA moves a word: it is the next one of the stream.                 *)
LEMMA DmaKeepsWords ==
  ASSUME WordsOK, DmaWord
  PROVE  /\ WordsOK' /\ Q' = Q /\ Len(fifo') = Len(fifo) + 1
         /\ Started(chan') # {}
<1>s. chan.sel \in Buffers /\ dma[chan.sel].left \in Nat
  BY PlainFacts, DataWords DEF WordsOK, DataTypes
<1>p. PICK b \in Buffers, l \in Nat : b = chan.sel /\ l = dma[b].left
  BY <1>s
<1> DEFINE o == Other(b)
           v == mem[Rest(b)]
<1>0. /\ b \in chan.loaded /\ fifo' = Append(fifo, v)
      /\ dma' = [dma EXCEPT ![b].left = l - 1]
      /\ chan' = (IF l = 1 THEN HwComplete(chan) ELSE chan)
      /\ UNCHANGED <<head, tail, mem, written, sent>>
  BY <1>p DEF DmaWord, HwCanComplete, Rest, srcVars
<1>1. /\ Plain(chan) /\ chan.loaded \subseteq Buffers
      /\ DataTypes /\ TransfersOK /\ OneRun /\ TransferWords /\ NothingLostOrReordered
  BY PlainFacts DEF WordsOK, DataTypes
<1>2. o \in Buffers /\ o # b /\ Other(o) = b /\ \A x \in Buffers : x = b \/ x = o
  BY <1>1, BuffersAB
<1>3. /\ N \in Nat /\ Slots = 0 .. N - 1 /\ Sent \in Nat /\ Q \in Nat
      /\ dma[b].src \in Nat /\ dma[b].count \in Nat /\ dma[o].left \in Nat
      /\ dma[o].src \in Nat /\ dma[o].count \in Nat
  <2>1. N \in Nat /\ Slots = 0 .. N - 1 /\ Sent \in Nat /\ Q \in 0 .. N - 1
    BY <1>1, DataWords
  <2>2. /\ dma[b].src \in 0 .. N - 1 /\ dma[o].src \in 0 .. N - 1
        /\ dma[b].count \in Nat /\ dma[o].count \in Nat /\ dma[o].left \in Nat
    BY <1>1, <1>2, DataWords
  <2> QED BY <2>1, <2>2
<1>4. l > 0 /\ l <= dma[b].count /\ dma[b].src + dma[b].count <= N
  BY <1>p, <1>0, <1>1 DEF TransfersOK
<1>5. Rest(b) \in Slots
  <2>0. PICK x \in Nat, y \in Nat : x = dma[b].src /\ y = dma[b].count
    BY <1>3
  <2>1. dma[b].src + dma[b].count - l \in 0 .. N - 1
    <3>1. x + y - l \in 0 .. N - 1
      <4>1. x + y <= N /\ l > 0 /\ l <= y /\ N \in Nat
        BY <1>3, <1>4, <2>0
      <4> QED BY <4>1
    <3> QED BY <2>0, <3>1
  <2> QED BY <1>p, <1>3, <2>1 DEF Rest
<1>6. v \in Nat /\ v - (Sent + 1) \in {0, N}
  <2>1. v \in Nat
    BY <1>1, <1>5 DEF DataTypes
  <2>2. 1 \in 1 .. l /\ Rest(b) \in Int /\ Rest(b) + 1 - 1 = Rest(b)
    BY <1>3, <1>4, <1>5
  <2>3. mem[Rest(b) + 1 - 1] - (Before(b) + 1) \in {0, N}
    BY <1>p, <1>0, <1>1, <2>2 DEF TransferWords
  <2>4. Before(b) = Sent
    BY <1>p, <1>3 DEF Before
  <2> QED BY <2>1, <2>2, <2>3, <2>4
<1>7. fifo \in Seq(Nat) /\ sent \in Seq(Nat) /\ dma \in [Buffers -> [src : Slots, count : Nat, left : Nat]]
  BY <1>1 DEF DataTypes
<1> HIDE DEF v
<1>8. fifo' \in Seq(Nat) /\ Len(fifo') = Len(fifo) + 1
  BY <1>0, <1>6, <1>7, StreamAppend
<1>9. Sent' = Sent + 1 /\ Q' = Q /\ T' = T
  BY <1>0, <1>7, <1>8 DEF Sent, Q, T
<1>10. /\ dma'[b].src = dma[b].src /\ dma'[b].count = dma[b].count /\ dma'[b].left = l - 1
       /\ dma'[o] = dma[o]
       /\ dma' \in [Buffers -> [src : Slots, count : Nat, left : Nat]]
  <2>1. l - 1 \in Nat
    BY <1>4
  <2> QED BY <1>0, <1>2, <1>7, <2>1
<1>11. /\ Plain(chan') /\ Started(chan') # {}
       /\ l = 1 => chan'.loaded = chan.loaded \ {b} /\ chan'.sel = o
       /\ l # 1 => chan' = chan
  <2>1. CASE l = 1
    <3>1. /\ Plain(chan') /\ chan'.loaded = chan.loaded \ {b} /\ chan'.sel = o
          /\ chan'.comp = chan.comp \cup {b}
      BY <1>p, <1>0, <1>1, <2>1, PlainComplete DEF HwCanComplete
    <3>2. UnderWay(chan', b)
      BY <3>1 DEF UnderWay
    <3> QED BY <1>1, <2>1, <3>1, <3>2, PlainAvailable, BuffersAB
  <2>2. CASE l # 1
    <3>1. UnderWay(chan, b) /\ chan' = chan
      BY <1>0, <2>2 DEF UnderWay
    <3> QED BY <1>1, <2>2, <3>1, PlainAvailable, BuffersAB
  <2> QED BY <2>1, <2>2
<1> HIDE DEF o
<1>12. DataTypes'
  BY <1>0, <1>1, <1>8, <1>10, <1>11 DEF DataTypes
<1>13. EveryWordAccounted'
  <2>1. written = Sent + l + dma[o].left + Q
    BY <1>p, <1>1, Accounted DEF WordsOK, o
  <2>2. written' = Sent' + dma'[b].left + dma'[o].left + Q'
    <3>1. written' = written /\ Sent' = Sent + 1 /\ Q' = Q
          /\ dma'[b].left = l - 1 /\ dma'[o].left = dma[o].left
      BY <1>0, <1>9, <1>10
    <3>2. (Sent + 1) + (l - 1) + dma[o].left + Q = Sent + l + dma[o].left + Q
      BY <1>3
    <3> QED BY <2>1, <3>1, <3>2
  <2> QED BY <1>1, <1>12, <2>2, AccountedNext DEF o
<1>14. QueueIntact'
  BY <1>0, <1>1 DEF WordsOK, QueueIntact
<1>15. TransfersOK'
  <2>1. \A x \in Buffers : x \in chan'.loaded <=> dma'[x].left > 0
    <3>1. b \in chan'.loaded <=> dma'[b].left > 0
      BY <1>0, <1>3, <1>4, <1>10, <1>11
    <3>2. o \in chan'.loaded <=> dma'[o].left > 0
      BY <1>1, <1>2, <1>10, <1>11 DEF TransfersOK
    <3> QED BY <1>2, <3>1, <3>2
  <2>2. \A x \in Buffers : /\ dma'[x].left <= dma'[x].count /\ 4 * dma'[x].count <= FrameBytes
                           /\ dma'[x].src + dma'[x].count <= N
    <3>1. dma'[b].left <= dma'[b].count
      BY <1>3, <1>4, <1>10
    <3> QED BY <1>1, <1>2, <1>10, <3>1 DEF TransfersOK
  <2> QED BY <2>1, <2>2 DEF TransfersOK
<1>16. Rest(b)' = Rest(b) + 1 /\ Rest(o)' = Rest(o)
  <2>1. dma[b].src + dma[b].count - (l - 1) = dma[b].src + dma[b].count - l + 1
    <3>0. PICK x \in Nat, y \in Nat : x = dma[b].src /\ y = dma[b].count
      BY <1>3
    <3>1. x + y - (l - 1) = x + y - l + 1
      OBVIOUS
    <3> QED BY <3>0, <3>1
  <2> QED BY <1>p, <1>10, <2>1 DEF Rest
<1>17. OneRun'
  <2>1. CASE l # 1
    <3>1. ASSUME NEW x \in chan'.loaded
          PROVE  Follows(dma'[x].src + dma'[x].count,
                         IF x = chan'.sel /\ Other(x) \in chan'.loaded
                         THEN Rest(Other(x))' ELSE T')
      <4>1. chan' = chan /\ x \in chan.loaded /\ dma'[x].src = dma[x].src /\ dma'[x].count = dma[x].count
        BY <1>1, <1>2, <1>10, <1>11, <2>1
      <4>2. x = chan.sel => Rest(Other(x))' = Rest(Other(x))
        BY <1>p, <1>16 DEF o
      <4> QED BY <1>1, <1>9, <4>1, <4>2 DEF OneRun
    <3> QED BY <3>1 DEF OneRun, Follows
  <2>2. CASE l = 1
    <3>1. ASSUME NEW x \in chan'.loaded
          PROVE  Follows(dma'[x].src + dma'[x].count,
                         IF x = chan'.sel /\ Other(x) \in chan'.loaded
                         THEN Rest(Other(x))' ELSE T')
      <4>1. x = o /\ x \in chan.loaded /\ Other(x) \notin chan'.loaded
        BY <1>1, <1>2, <1>11, <2>2
      <4>2. x # chan.sel
        BY <1>p, <1>2, <4>1
      <4>3. Follows(dma[x].src + dma[x].count, T)
        BY <1>1, <4>1, <4>2 DEF OneRun
      <4> QED BY <1>9, <1>10, <4>1, <4>3
    <3> QED BY <3>1 DEF OneRun, Follows
  <2> QED BY <2>1, <2>2
<1>18. TransferWords'
  <2>1. b \in chan'.loaded => Before(b)' = Before(b) + 1
    <3>1. b \in chan'.loaded => chan'.sel = b /\ chan.sel = b
      BY <1>p, <1>0, <1>11
    <3> QED BY <1>3, <1>9, <3>1 DEF Before
  <2>2. o \in chan.loaded => Before(o)' = Before(o)
    <3>1. Before(o) = Sent + l
      BY <1>p, <1>2 DEF Before
    <3>2. CASE l = 1
      BY <1>3, <1>9, <1>11, <3>1, <3>2 DEF Before
    <3>3. CASE l # 1
      <4>1. Before(o)' = Sent' + dma'[b].left
        BY <1>p, <1>2, <1>11, <3>3 DEF Before
      <4> QED BY <1>3, <1>9, <1>10, <3>1, <4>1
    <3> QED BY <3>2, <3>3
  <2>3. ASSUME NEW x \in chan'.loaded, NEW j \in 1 .. dma'[x].left
        PROVE  mem'[Rest(x)' + j - 1] - (Before(x)' + j) \in {0, N}
    <3>1. CASE x = b
      <4>1. b \in chan.loaded /\ j + 1 \in 1 .. l /\ j \in Int
        BY <1>0, <1>10, <2>3, <3>1
      <4>2. mem[Rest(b) + (j + 1) - 1] - (Before(b) + (j + 1)) \in {0, N}
        BY <1>p, <1>1, <4>1 DEF TransferWords
      <4>3. Rest(b) \in Int /\ Before(b) \in Int
        BY <1>p, <1>3, <1>5 DEF Before
      <4>4. Rest(b)' + j - 1 = Rest(b) + (j + 1) - 1 /\ Before(b)' + j = Before(b) + (j + 1)
        BY <1>16, <2>1, <2>3, <3>1, <4>1, <4>3
      <4> QED BY <1>0, <3>1, <4>2, <4>4
    <3>2. CASE x = o
      <4>1. o \in chan.loaded /\ j \in 1 .. dma[o].left
        BY <1>10, <1>11, <2>3, <3>2
      <4> QED BY <1>0, <1>1, <1>16, <2>2, <3>2, <4>1 DEF TransferWords
    <3>3. x \in Buffers
      BY <1>11, PlainFacts
    <3> QED BY <1>2, <3>1, <3>2, <3>3
  <2> QED BY <2>3 DEF TransferWords
<1>19. NothingLostOrReordered'
  <2>1. Len(sent \o fifo) = Sent /\ Len(sent' \o fifo') = Sent + 1
    BY <1>0, <1>7, <1>8, <1>9, StreamOf DEF Sent
  <2>2. ASSUME NEW i \in 1 .. Sent + 1 PROVE (sent' \o fifo')[i] - i \in {0, N}
    <3>1. (sent' \o fifo')[i] = IF i = Sent + 1 THEN v ELSE (sent \o fifo)[i]
      <4>1. \A n \in 1 .. Len(sent) + Len(fifo) + 1 :
              (sent \o Append(fifo, v))[n]
                = IF n = Len(sent) + Len(fifo) + 1 THEN v ELSE (sent \o fifo)[n]
        BY <1>6, <1>7, StreamAppend
      <4> QED BY <1>0, <4>1 DEF Sent
    <3>2. CASE i = Sent + 1
      BY <1>6, <3>1, <3>2
    <3>3. CASE i # Sent + 1
      <4>1. i \in 1 .. Sent
        BY <1>3, <3>3
      <4> QED BY <1>1, <2>1, <3>1, <3>3, <4>1 DEF NothingLostOrReordered, N
    <3> QED BY <3>2, <3>3
  <2> QED BY <2>1, <2>2 DEF NothingLostOrReordered, N
<1> QED BY <1>8, <1>9, <1>11, <1>12, <1>13, <1>14, <1>15, <1>17, <1>18, <1>19 DEF WordsOK

(* The DAC takes a word: the stream is the same.                           *)
LEMMA DacKeepsWords ==
  ASSUME WordsOK, DacSample
  PROVE  WordsOK' /\ Q' = Q /\ Len(fifo') <= Len(fifo)
<1>1. UNCHANGED <<head, tail, mem, written, chan, dma>>
  BY DEF DacSample, srcVars
<1>2. DataTypes /\ Plain(chan) /\ fifo \in Seq(Nat) /\ sent \in Seq(Nat)
  BY DEF WordsOK, DataTypes
<1>3. CASE UNCHANGED <<fifo, sent>>
  BY <1>1, <1>2, <1>3, SameWords
<1>4. CASE /\ fifo # <<>> /\ sent' = Append(sent, Head(fifo)) /\ fifo' = Tail(fifo)
  <2>1. /\ sent' \in Seq(Nat) /\ fifo' \in Seq(Nat)
        /\ Len(sent') = Len(sent) + 1 /\ Len(fifo') = Len(fifo) - 1
        /\ Len(sent) \in Nat /\ Len(fifo) \in Nat
    BY <1>2, <1>4, StreamMove
  <2>2. \A i \in 1 .. Len(sent) + Len(fifo) : (sent' \o fifo')[i] = (sent \o fifo)[i]
    BY <1>2, <1>4, StreamMove
  <2>3. Sent' = Sent /\ Q' = Q /\ T' = T
    BY <1>1, <2>1 DEF Sent, Q, T
  <2>4. DataTypes'
    BY <1>1, <1>2, <2>1 DEF DataTypes
  <2>5. EveryWordAccounted'
    <3>1. written = Sent + dma[A].left + dma[Other(A)].left + Q
      BY <1>2, Accounted, BuffersAB DEF WordsOK
    <3>2. written' = Sent' + dma'[A].left + dma'[Other(A)].left + Q'
      BY <1>1, <2>3, <3>1
    <3> QED BY <2>4, <3>2, AccountedNext, BuffersAB
  <2>6. QueueIntact' /\ TransfersOK'
    BY <1>1 DEF WordsOK, QueueIntact, TransfersOK
  <2>7. \A b \in Buffers : Rest(b)' = Rest(b) /\ Before(b)' = Before(b)
    BY <1>1, <2>3 DEF Rest, Before
  <2>8. chan.loaded \subseteq Buffers /\ \A b \in Buffers : Other(b) \in Buffers
    BY <1>2, PlainFacts, BuffersAB
  <2>9. OneRun' /\ TransferWords'
    BY <1>1, <2>3, <2>7, <2>8 DEF WordsOK, OneRun, TransferWords, Follows
  <2>10. NothingLostOrReordered'
    <3>1. Len(sent \o fifo) = Len(sent) + Len(fifo) /\ Len(sent' \o fifo') = Len(sent) + Len(fifo)
      <4>1. Len(sent') + Len(fifo') = Len(sent) + Len(fifo)
        BY <2>1
      <4> QED BY <1>2, <2>1, <4>1, StreamOf
    <3> QED BY <2>2, <3>1 DEF WordsOK, NothingLostOrReordered
  <2> QED BY <2>1, <2>3, <2>4, <2>5, <2>6, <2>9, <2>10 DEF WordsOK
<1>5. fifo' = fifo => Len(fifo') <= Len(fifo)
  BY <1>2
<1> QED BY <1>3, <1>4, <1>5 DEF DacSample

----------------------------------------------------------------------------
(* The copy into the ring. *)

(* A word that is d words before tail and is overwritten by one of the k   *)
(* words behind head is overwritten by the word one lap later.             *)
LEMMA OneLap ==
  ASSUME NEW n \in Nat, NEW q \in Nat, NEW k \in Nat, NEW d \in Nat, d >= 1, d <= n,
         NEW s \in Int, NEW t \in Int, NEW h \in Int,
         s + d = t \/ s + d = t + n \/ s + d = t + n + n,
         h = t + q \/ h = t + q - n,
         q + k <= n - 1, s >= h, s <= h + k - 1
  PROVE  d + q + (s - h) = n
  BY Z3

LEMMA Overwritten ==
  ASSUME WordsOK, NEW b \in chan.loaded, NEW j \in 1 .. dma[b].left,
         NEW k \in Nat, Q + k <= N - 1,
         NEW s \in H .. (H + k - 1), s = Rest(b) + j - 1
  PROVE  written + 1 + (s - H) - (Before(b) + j) = N
<1> DEFINE o == Other(b)
<1>1. /\ Plain(chan) /\ b \in Buffers /\ DataTypes /\ TransfersOK /\ OneRun
  BY PlainFacts DEF WordsOK, DataTypes
<1>2. o \in Buffers /\ o # b /\ Other(o) = b
  BY <1>1, BuffersAB
<1>3. PICK sb \in Nat, cb \in Nat, lb \in Nat, so \in Nat, co \in Nat, lo \in Nat :
        /\ sb = dma[b].src /\ cb = dma[b].count /\ lb = dma[b].left
        /\ so = dma[o].src /\ co = dma[o].count /\ lo = dma[o].left
  <2>1. \A x \in Buffers : dma[x].src \in 0 .. N - 1 /\ dma[x].count \in Nat /\ dma[x].left \in Nat
    BY <1>1, DataWords
  <2>2. \A x \in Buffers : dma[x].src \in Nat
    BY <2>1
  <2> QED BY <1>1, <1>2, <2>1, <2>2
<1>4. /\ H \in Int /\ T \in Int /\ Q \in Nat /\ N \in Nat /\ Sent \in Nat /\ written \in Nat
      /\ H = T + Q \/ H = T + Q - N
  BY <1>1, DataWords
<1>5. /\ lb <= cb /\ lo <= co /\ lb + lo <= N
  <2>1. lb <= cb /\ lo <= co /\ 4 * cb <= FrameBytes /\ 4 * co <= FrameBytes
    BY <1>1, <1>2, <1>3 DEF TransfersOK
  <2>2. 4 * N = BufSize /\ FrameBytes \in Nat
    BY NWords, SizesAssumption
  <2> QED BY <1>4, <2>1, <2>2, FramesAssumption
<1>6. Rest(b) = sb + cb - lb /\ Rest(o) = so + co - lo
  BY <1>3 DEF Rest
<1>7. written = Sent + lb + lo + Q
  BY <1>1, <1>3, Accounted DEF WordsOK
<1>8. j \in Int /\ 1 <= j /\ j <= lb
  BY <1>3
<1>9. s \in Int /\ s >= H /\ s <= H + k - 1 /\ s = sb + cb - lb + j - 1
  BY <1>4, <1>6, <1>8
<1>10. CASE b = chan.sel /\ o \in chan.loaded
  <2>1. Before(b) = Sent
    BY <1>4, <1>10 DEF Before
  <2>2. Follows(sb + cb, so + co - lo) /\ Follows(so + co, T)
    BY <1>1, <1>2, <1>3, <1>6, <1>10 DEF OneRun
  <2> DEFINE d == lb - j + 1 + lo
  <2>3. d \in Nat /\ d >= 1 /\ d <= N
    BY <1>4, <1>5, <1>8
  <2>4. s + d = T \/ s + d = T + N \/ s + d = T + N + N
    BY <1>4, <1>8, <1>9, <2>2 DEF Follows
  <2>5. written + 1 - (Before(b) + j) = d + Q
    BY <1>4, <1>7, <1>8, <2>1
  <2> HIDE DEF d
  <2>6. d + Q + (s - H) = N
    BY <1>4, <1>9, <2>3, <2>4, OneLap
  <2>7. Before(b) + j \in Int
    BY <1>4, <1>8, <2>1
  <2>8. PICK x \in Int, w \in Int : x = Before(b) + j /\ w = written + 1
    BY <1>4, <2>7
  <2>9. w + (s - H) - x = N
    BY <1>4, <1>9, <2>3, <2>5, <2>6, <2>8
  <2> QED BY <2>8, <2>9
<1>11. CASE ~(b = chan.sel /\ o \in chan.loaded)
  <2>1. Before(b) = Sent + lo
    <3>1. CASE b = chan.sel
      <4>1. lo = 0
        BY <1>1, <1>2, <1>3, <1>11, <3>1 DEF TransfersOK
      <4> QED BY <1>4, <3>1, <4>1 DEF Before
    <3>2. CASE b # chan.sel
      BY <1>3, <3>2 DEF Before
    <3> QED BY <3>1, <3>2
  <2>2. Follows(sb + cb, T)
    BY <1>1, <1>3, <1>11 DEF OneRun
  <2> DEFINE d == lb - j + 1
  <2>3. d \in Nat /\ d >= 1 /\ d <= N
    BY <1>4, <1>5, <1>8
  <2>4. s + d = T \/ s + d = T + N \/ s + d = T + N + N
    BY <1>4, <1>8, <1>9, <2>2 DEF Follows
  <2>5. written + 1 - (Before(b) + j) = d + Q
    BY <1>4, <1>7, <1>8, <2>1
  <2> HIDE DEF d
  <2>6. d + Q + (s - H) = N
    BY <1>4, <1>9, <2>3, <2>4, OneLap
  <2>7. Before(b) + j \in Int
    BY <1>4, <1>8, <2>1
  <2>8. PICK x \in Int, w \in Int : x = Before(b) + j /\ w = written + 1
    BY <1>4, <2>7
  <2>9. w + (s - H) - x = N
    BY <1>4, <1>9, <2>3, <2>5, <2>6, <2>8
  <2> QED BY <2>8, <2>9
<1> QED BY <1>10, <1>11

(* What a copy of k words does to the memory.                              *)
LEMMA WorkWrites ==
  ASSUME DataTypes, NEW k \in Nat,
         mem' = whitebox_user_source_work(mem, head, k, written + 1)
  PROVE  /\ mem' \in [Slots -> Nat]
         /\ Wrote(mem, mem', H, k, written, N) /\ OnlyWrote(mem, mem', H, k, N)
<1>1. /\ H \in 0 .. N - 1 /\ N \in Nat /\ Slots = 0 .. N - 1 /\ written \in Nat
  BY DataWords
<1>2. mem \in [Slots -> Nat]
  BY DEF DataTypes
<1>3. \A i \in Slots : mem'[i] = IF i \in H .. (H + k - 1) THEN (written + 1) + (i - H) ELSE mem[i]
  BY DEF whitebox_user_source_work, H
<1>4. Wrote(mem, mem', H, k, written, N)
  BY <1>1, <1>3 DEF Wrote
<1>5. OnlyWrote(mem, mem', H, k, N)
  BY <1>1, <1>3 DEF OnlyWrote
<1>6. \A i \in Slots : mem'[i] \in Nat
  BY <1>1, <1>2, <1>3
<1>7. mem' = [i \in Slots |-> mem'[i]]
  BY DEF whitebox_user_source_work
<1> QED BY <1>4, <1>5, <1>6, <1>7

(* The transfers under way after a copy of k words that fits.              *)
LEMMA WriteKeepsTransfers ==
  ASSUME WordsOK, NEW k \in Nat, Q + k <= N - 1,
         mem' = whitebox_user_source_work(mem, head, k, written + 1),
         UNCHANGED <<tail, chan, dma, fifo, sent>>
  PROVE  /\ mem' \in [Slots -> Nat] /\ Sent' = Sent /\ T' = T
         /\ TransfersOK' /\ OneRun' /\ TransferWords' /\ NothingLostOrReordered'
<1>1. DataTypes /\ chan.loaded \subseteq Buffers
  BY PlainFacts DEF WordsOK, DataTypes
<1>2. /\ mem' \in [Slots -> Nat] /\ Wrote(mem, mem', H, k, written, N)
  BY <1>1, WorkWrites
<1>3. Sent' = Sent /\ T' = T
  BY DEF Sent, T
<1>4. TransfersOK' /\ NothingLostOrReordered'
  BY DEF WordsOK, TransfersOK, NothingLostOrReordered
<1>5. \A b \in Buffers : Rest(b)' = Rest(b) /\ Before(b)' = Before(b) /\ Other(b) \in Buffers
  BY <1>3, BuffersAB DEF Rest, Before
<1>6. OneRun'
  BY <1>1, <1>3, <1>5 DEF WordsOK, OneRun, Follows
<1>7. ASSUME NEW b \in chan.loaded, NEW j \in 1 .. dma[b].left
      PROVE  mem'[Rest(b) + j - 1] - (Before(b) + j) \in {0, N}
  <2> DEFINE s == Rest(b) + j - 1
  <2>1. s \in 0 .. N - 1
    <3>1. PICK sb \in Nat, cb \in Nat, lb \in Nat :
            sb = dma[b].src /\ cb = dma[b].count /\ lb = dma[b].left
      <4>1. dma[b].src \in 0 .. N - 1 /\ dma[b].count \in Nat /\ dma[b].left \in Nat
        BY <1>1, DataWords
      <4> QED BY <4>1
    <3>2. lb <= cb /\ sb + cb <= N /\ N \in Nat
      BY <1>1, <3>1, DataWords DEF WordsOK, TransfersOK
    <3>3. j \in Int /\ 1 <= j /\ j <= lb
      BY <3>1
    <3>4. sb + cb - lb + j - 1 \in 0 .. N - 1
      BY <3>2, <3>3
    <3> QED BY <3>1, <3>4 DEF Rest
  <2>2. CASE s \in H .. (H + k - 1)
    <3>1. mem'[s] = written + 1 + (s - H)
      BY <1>2, <2>1, <2>2 DEF Wrote
    <3>2. written + 1 + (s - H) - (Before(b) + j) = N
      <4>1. s = Rest(b) + j - 1
        OBVIOUS
      <4> HIDE DEF s
      <4> QED BY <2>2, <4>1, Overwritten
    <3> HIDE DEF s
    <3>3. mem'[s] - (Before(b) + j) = N
      <4>1. H \in Int /\ written \in Int /\ s \in Int
        BY <1>1, <2>1, DataWords
      <4>2. PICK v \in Int : v = written + 1 + (s - H)
        BY <4>1
      <4>3. v - (Before(b) + j) = N
        <5>1. Sent \in Nat /\ dma[Other(b)].left \in Nat
          BY <1>1, BuffersAB, DataWords
        <5>2. Before(b) \in Int /\ j \in Int
          BY <5>1 DEF Before
        <5>3. PICK x \in Int : x = Before(b) + j
          BY <5>2
        <5>4. v - x = N
          BY <3>2, <4>1, <4>2, <5>3
        <5> QED BY <5>3, <5>4
      <4>4. mem'[s] = v
        BY <3>1, <4>2
      <4> QED BY <4>3, <4>4
    <3> QED BY <3>3 DEF s
  <2>3. CASE s \notin H .. (H + k - 1)
    <3>1. mem'[s] = mem[s]
      BY <1>2, <2>1, <2>3 DEF Wrote
    <3>2. mem[s] - (Before(b) + j) \in {0, N}
      BY DEF WordsOK, TransferWords
    <3> QED BY <3>1, <3>2
  <2> QED BY <2>2, <2>3
<1>8. TransferWords'
  BY <1>1, <1>5, <1>7 DEF TransferWords
<1> QED BY <1>2, <1>3, <1>4, <1>6, <1>8

(* write() copies n bytes that fit and produces them.                      *)
LEMMA CopyKeepsWords ==
  ASSUME WordsOK, NEW n \in Nat, n % 4 = 0, head + n <= BufSize, 4 * Q + n <= BufSize - 4,
         mem' = whitebox_user_source_work(mem, head, Words(n), written + 1),
         head' = whitebox_user_source_produce(head, n),
         written' = written + Words(n),
         UNCHANGED <<tail, chan, dma, fifo, sent>>
  PROVE  WordsOK' /\ Q' = Q + Words(n) /\ 4 * Words(n) = n
<1>1. PICK k \in Nat : k = Words(n) /\ 4 * k = n
  BY WordsAligned
<1>2. DataTypes
  BY DEF WordsOK
<1>3. /\ H \in 0 .. N - 1 /\ 4 * H = head /\ T \in 0 .. N - 1
      /\ Q \in 0 .. N - 1 /\ (H = T + Q \/ H = T + Q - N)
      /\ N \in Nat /\ 4 * N = BufSize /\ Sent \in Nat /\ written \in Nat
      /\ \A b \in Buffers : dma[b].left \in Nat
  BY <1>2, DataWords
<1>4. Q \in Nat /\ Q + k <= N - 1 /\ H + k <= N
  BY <1>1, <1>3, BufSizeAssumption
<1>5. /\ mem' \in [Slots -> Nat] /\ Sent' = Sent /\ T' = T
      /\ TransfersOK' /\ OneRun' /\ TransferWords' /\ NothingLostOrReordered'
  BY <1>1, <1>4, WriteKeepsTransfers
<1>6. head \in 0 .. BufSize - 4 /\ head % 4 = 0 /\ tail \in 0 .. BufSize - 4 /\ tail % 4 = 0
  BY <1>2 DEF DataTypes
<1>7. head' \in 0 .. BufSize - 4 /\ head' % 4 = 0 /\ Follows(WordOf(head) + k, WordOf(head'))
  BY <1>1, <1>6, MovedIndex DEF whitebox_user_source_produce
<1>8. Q' = Q + k
  <2>1. Words(whitebox_user_source_data_total(head, tail)) + k <= N - 1
    BY <1>4 DEF Q
  <2>2. Words(whitebox_user_source_data_total(head', tail))
          = Words(whitebox_user_source_data_total(head, tail)) + k
    BY <1>6, <1>7, <2>1, MovedHead
  <2> QED BY <2>2 DEF Q
<1>9. DataTypes'
  <2>1. written' \in Nat
    BY <1>1, <1>3
  <2> QED BY <1>2, <1>5, <1>7, <2>1 DEF DataTypes
<1>10. EveryWordAccounted'
  <2>1. written = Sent + dma[A].left + dma[Other(A)].left + Q
    BY <1>2, Accounted, BuffersAB DEF WordsOK
  <2>2. PICK x \in Nat : x = dma[A].left
    BY <1>3, BuffersAB
  <2>3. PICK y \in Nat : y = dma[Other(A)].left
    BY <1>3, BuffersAB
  <2>4. written + k = Sent + x + y + (Q + k)
    BY <1>3, <1>4, <2>1, <2>2, <2>3
  <2>5. written' = Sent' + dma'[A].left + dma'[Other(A)].left + Q'
    BY <1>1, <1>5, <1>8, <2>2, <2>3, <2>4
  <2> QED BY <1>9, <2>5, AccountedNext, BuffersAB
<1>11. QueueIntact'
  <2>1. Holds(mem, T, Q, written - Q, N)
    BY QueueHolds DEF WordsOK
  <2>2. Wrote(mem, mem', H, k, written, N)
    BY <1>1, <1>2, WorkWrites
  <2>3. written - Q \in Int /\ written = (written - Q) + Q /\ Q + k <= N
    BY <1>3, <1>4
  <2>4. Holds(mem', T, Q + k, written - Q, N)
    BY <1>3, <1>4, <2>1, <2>2, <2>3, HoldsMore
  <2>5. written - Q = written' - Q'
    BY <1>1, <1>3, <1>4, <1>8
  <2> QED BY <1>5, <1>8, <2>4, <2>5, QueueHoldsNext
<1> QED BY <1>1, <1>5, <1>8, <1>9, <1>10, <1>11 DEF WordsOK

(* write() faults: it may have written words behind head, and produces     *)
(* none of them.                                                           *)
LEMMA FaultKeepsWords ==
  ASSUME WordsOK, NEW n \in Nat, n % 4 = 0, head + n <= BufSize, 4 * Q + n <= BufSize - 4,
         NEW k \in 0 .. Words(n),
         mem' = whitebox_user_source_work(mem, head, k, written + 1),
         UNCHANGED <<head, written, tail, chan, dma, fifo, sent>>
  PROVE  WordsOK' /\ Q' = Q
<1>2. DataTypes
  BY DEF WordsOK
<1>3. /\ H \in 0 .. N - 1 /\ 4 * H = head /\ T \in 0 .. N - 1
      /\ Q \in 0 .. N - 1 /\ (H = T + Q \/ H = T + Q - N)
      /\ N \in Nat /\ 4 * N = BufSize /\ written \in Nat
  BY <1>2, DataWords
<1>4. k \in Nat /\ Q \in Nat /\ Q + k <= N - 1 /\ H + k <= N
  <2>1. Words(n) \in Nat /\ 4 * Words(n) = n
    BY WordsAligned
  <2> QED BY <1>3, <2>1, BufSizeAssumption
<1>5. /\ mem' \in [Slots -> Nat] /\ Sent' = Sent /\ T' = T
      /\ TransfersOK' /\ OneRun' /\ TransferWords' /\ NothingLostOrReordered'
  BY <1>4, WriteKeepsTransfers
<1>8. Q' = Q
  BY DEF Q
<1>9. DataTypes'
  BY <1>2, <1>5 DEF DataTypes
<1>10. EveryWordAccounted'
  BY DEF WordsOK, EveryWordAccounted
<1>11. QueueIntact'
  <2>1. Holds(mem, T, Q, written - Q, N)
    BY QueueHolds DEF WordsOK
  <2>2. OnlyWrote(mem, mem', H, k, N)
    BY <1>2, <1>4, WorkWrites
  <2>3. written - Q \in Int /\ Q + k <= N
    BY <1>3, <1>4
  <2>4. Holds(mem', T, Q, written - Q, N)
    BY <1>3, <1>4, <2>1, <2>2, <2>3, HoldsStill
  <2> QED BY <1>5, <1>8, <2>4, QueueHoldsNext
<1> QED BY <1>5, <1>8, <1>9, <1>10, <1>11 DEF WordsOK

(* There is space for n bytes behind head: they fit.                       *)
LEMMA SpaceFits ==
  ASSUME DataTypes, NEW n \in Nat, n % 4 = 0, Space >= n
  PROVE  head + n <= BufSize /\ 4 * Q + n <= BufSize - 4
<1> DEFINE e == CIRC_SPACE_TO_END(head, tail, BufSize)
           c == CIRC_CNT(head, tail, BufSize)
<1>1. head \in 0 .. BufSize - 4 /\ head % 4 = 0 /\ tail \in 0 .. BufSize - 4 /\ tail % 4 = 0
  BY DEF DataTypes
<1>2. e \in Nat /\ head + e <= BufSize /\ c + e <= BufSize - 1
  BY <1>1, Ring, SpaceToEnd
<1>3. c = 4 * Q /\ Q \in Nat
  <2>1. Q \in 0 .. N - 1 /\ c = 4 * Q
    BY <1>1, RingWords DEF Q, whitebox_user_source_data_total
  <2> QED BY <2>1, NWords
<1> HIDE DEF e, c
<1>4. n <= e
  BY <1>2 DEF Space, whitebox_user_source_space_available, WordAligned, WordBytes, e
<1> QED BY <1>1, <1>2, <1>3, <1>4, BufSizeAssumption

----------------------------------------------------------------------------
(* Steps of the processes. *)

LEMMA EmptyQueue ==
  ASSUME DataTypes, Q = 0 PROVE whitebox_user_source_data_total(head, tail) = 0
<1>1. head \in 0 .. BufSize - 4 /\ tail \in 0 .. BufSize - 4 /\ head % 4 = 0 /\ tail % 4 = 0
  BY DEF DataTypes
<1>2. whitebox_user_source_data_total(head, tail) = 4 * Q
  BY <1>1, RingWords DEF Q
<1> QED BY <1>2

(* A step of process p that leaves the queue as it is.                     *)
LEMMA StillStep ==
  ASSUME ProcsOK, Control, Kept, NEW p \in Procs, NEW to, Moves(p, to),
         WordsOK', UNCHANGED <<head, tail>>,
         chan' = chan \/ (chan'.loaded = {} /\ chan'.comp = {} /\ state' # TX_STREAMING),
         state' = state \/ cpu \in {NoProc, p},
         state' = TX_STREAMING => state = TX_STREAMING,
         to # "write_post", proc[p].pc = "write_post" => state' # TX_STREAMING,
         to = "write_sleep" => cpu \in {NoProc, p} /\ ~(Space >= proc'[p].n),
         to = "write_copy" => Space >= proc'[p].n /\ proc'[p].n % 4 = 0,
         to \in FsyncSteps \ {"fsync_down"} => state' = TX_STOPPING,
         state' = IDLE \/ to \in {"fsync_txen", "fsync_txen_redown"}
           => Quiet \/ (chan.loaded = {} /\ chan.comp = {})
  PROVE  Kept'
<1>1. /\ proc'[p].pc = to /\ \A r \in Procs : r # p => proc'[r] = proc[r]
      /\ proc'[p].n \in Nat /\ p # NoProc /\ \A r \in Procs : r # NoProc
  BY ProcsAssumption DEF Moves
<1>2. Q' = Q /\ Space' = Space /\ DataTypes
  BY DEF Q, Space, Kept, WordsOK
<1>3. CopyFits'
  <2>1. to = "write_copy" => head + proc'[p].n <= BufSize /\ 4 * Q + proc'[p].n <= BufSize - 4
    BY <1>1, <1>2, SpaceFits
  <2>2. ASSUME NEW r \in Procs, proc'[r].pc = "write_copy"
        PROVE  head' + proc'[r].n <= BufSize /\ 4 * Q' + proc'[r].n <= BufSize - 4
    BY <1>1, <1>2, <2>1, <2>2 DEF Kept, CopyFits
  <2> QED BY <2>2 DEF CopyFits
<1>4. Stopping'
  <2>1. ASSUME NEW r \in Procs, proc'[r].pc \in FsyncSteps \ {"fsync_down"}
        PROVE  state' = TX_STOPPING
    <3>1. CASE r = p
      BY <1>1, <2>1, <3>1
    <3>2. CASE r # p
      <4>1. state = TX_STOPPING /\ cpu = r
        BY <1>1, <2>1, <3>2 DEF Kept, Stopping, Control, CpuHeld, FsyncSteps, CpuSteps
      <4> QED BY <1>1, <3>2, <4>1
    <3> QED BY <3>1, <3>2
  <2> QED BY <2>1 DEF Stopping
<1>5. NoneLeft'
  <2> SUFFICES ASSUME Quiet' PROVE chan'.loaded = {} /\ chan'.comp = {}
    BY DEF NoneLeft
  <2>1. Quiet \/ (chan.loaded = {} /\ chan.comp = {})
    BY <1>1 DEF Quiet
  <2> QED BY <2>1 DEF Kept, NoneLeft
<1>6. state' = TX_STREAMING /\ ~PostPending' => ~PostPending
  BY <1>1 DEF PostPending
<1>7. QueuedDataHasATransfer'
  BY <1>6 DEF Kept, Waiting, QueuedDataHasATransfer
<1>8. SleepersSeeData'
  <2> SUFFICES ASSUME PostPending', Q' = 0, NEW r \in Procs, proc'[r].pc = "write_sleep" PROVE FALSE
    BY DEF SleepersSeeData
  <2>1. PICK w \in Procs : proc'[w].pc = "write_post"
    BY DEF PostPending
  <2>2. w # p /\ proc[w].pc = "write_post" /\ cpu = w
    BY <1>1, <2>1 DEF Control, CpuHeld, CpuSteps
  <2>3. r # p
    BY <1>1, <2>2
  <2>4. PostPending /\ Q = 0 /\ proc[r].pc = "write_sleep"
    BY <1>1, <1>2, <2>2, <2>3 DEF PostPending
  <2> QED BY <2>4 DEF Kept, Waiting, SleepersSeeData
<1>9. NoLostWakeup'
  <2> SUFFICES ASSUME NEW r \in Procs, proc'[r].pc = "write_sleep", Space' >= proc'[r].n,
                      state' = TX_STREAMING, ~PostPending'
               PROVE  Started(chan') # {}
    BY DEF NoLostWakeup
  <2>1. r # p
    BY <1>1, <1>2
  <2>2. proc[r].pc = "write_sleep" /\ Space >= proc[r].n /\ state = TX_STREAMING /\ ~PostPending
    BY <1>1, <1>2, <1>6, <2>1
  <2> QED BY <2>2 DEF Kept, Waiting, NoLostWakeup
<1> QED BY <1>3, <1>4, <1>5, <1>7, <1>8, <1>9 DEF Kept, Waiting

(* write() produces, with its way to tx_exec still ahead.                  *)
LEMMA CopyStep ==
  ASSUME ProcsOK, Control, Kept, NEW p \in Procs, WriteCopy(p) PROVE Kept'
<1>1. /\ proc[p].pc = "write_copy" /\ cpu \in {NoProc, p}
      /\ Moves(p, "write_post") /\ proc[p].n \in Nat /\ proc[p].n % 4 = 0 /\ proc[p].n > 0
      /\ UNCHANGED <<state, tail, chan, dma, fifo, sent>>
  BY MovesTo DEF WriteCopy, Step, Control, CountsOK, ProcsOK, dmaVars, dacVars, WriteSteps
<1>2. /\ proc'[p].pc = "write_post" /\ \A r \in Procs : r # p => proc'[r] = proc[r]
      /\ \A r \in Procs : r # NoProc
  BY <1>1, ProcsAssumption DEF Moves
<1>3. head + proc[p].n <= BufSize /\ 4 * Q + proc[p].n <= BufSize - 4
  BY <1>1 DEF Kept, CopyFits
<1>4. WordsOK' /\ Q' = Q + Words(proc[p].n) /\ 4 * Words(proc[p].n) = proc[p].n
  BY <1>1, <1>3, CopyKeepsWords DEF WriteCopy, Kept
<1>5. Q' # 0
  <2>1. Q \in Nat
    BY DataWords DEF Kept, WordsOK
  <2>2. Words(proc[p].n) \in Nat /\ Words(proc[p].n) > 0
    BY <1>1, WordsAligned
  <2> QED BY <1>4, <2>1, <2>2
<1>6. CopyFits'
  <2>1. ASSUME NEW r \in Procs, proc'[r].pc = "write_copy" PROVE FALSE
    <3>1. r # p /\ proc[r].pc = "write_copy"
      BY <1>2, <2>1
    <3> QED BY <1>1, <3>1 DEF Control, SemHeld, HoldSteps
  <2> QED BY <2>1 DEF CopyFits
<1>7. Stopping'
  BY <1>1, <1>2 DEF Kept, Stopping, FsyncSteps
<1>8. NoneLeft'
  <2>1. Quiet' => Quiet
    BY <1>1, <1>2 DEF Quiet
  <2> QED BY <1>1, <2>1 DEF Kept, NoneLeft
<1>9. PostPending'
  BY <1>2 DEF PostPending
<1> QED BY <1>4, <1>5, <1>6, <1>7, <1>8, <1>9
    DEF Kept, Waiting, SleepersSeeData, QueuedDataHasATransfer, NoLostWakeup

(* write() and fsync() run the executor.                                   *)
LEMMA ExecStep ==
  ASSUME ProcsOK, Control, Kept, txen \in BOOLEAN, NEW p \in Procs,
         NEW to, Moves(p, to), proc[p].pc \in {"write_post", "fsync_exec"},
         tx_exec(chan), UNCHANGED <<head, mem, written, fifo, sent>>,
         (proc[p].pc = "write_post" /\ to = Idle /\ state' = TX_STREAMING)
           \/ (proc[p].pc = "fsync_exec" /\ to = "fsync_redown" /\ state' = state)
  PROVE  Kept'
<1>1. /\ proc'[p].pc = to /\ \A r \in Procs : r # p => proc'[r] = proc[r]
      /\ \A r \in Procs : r # NoProc
  BY ProcsAssumption DEF Moves
<1>2. cpu = p /\ \A r \in Procs : r # p => proc[r].pc \notin CpuSteps
  BY DEF Control, CpuHeld, CpuSteps
<1>3. WordsOK /\ Plain(chan)
  BY DEF Kept, WordsOK, DataTypes
<1>4. /\ WordsOK' /\ Q' \in 0 .. Q /\ txen' \in BOOLEAN
      /\ Started(chan') # {} \/ (Q = 0 /\ chan' = chan /\ UNCHANGED tail)
  BY <1>3, ExecKeepsWords
<1>5. Q \in Nat
  BY <1>3, DataWords DEF WordsOK
<1>6. CopyFits'
  <2>1. ASSUME NEW r \in Procs, proc'[r].pc = "write_copy"
        PROVE  head' + proc'[r].n <= BufSize /\ 4 * Q' + proc'[r].n <= BufSize - 4
    <3>1. r # p /\ proc'[r] = proc[r]
      BY <1>1, <2>1 DEF Idle
    <3>2. head + proc[r].n <= BufSize /\ 4 * Q + proc[r].n <= BufSize - 4 /\ proc[r].n \in Nat
      BY <2>1, <3>1 DEF Kept, CopyFits, ProcsOK
    <3> QED BY <1>4, <1>5, <3>1, <3>2, BufSizeAssumption
  <2> QED BY <2>1 DEF CopyFits
<1>7. \A r \in Procs : r # p => proc'[r].pc \notin CpuSteps
  BY <1>1, <1>2
<1>8. Stopping'
  <2>1. ASSUME NEW r \in Procs, proc'[r].pc \in FsyncSteps \ {"fsync_down"}
        PROVE  state' = TX_STOPPING
    <3>1. r = p
      BY <1>7, <2>1 DEF FsyncSteps, CpuSteps
    <3>2. proc[p].pc = "fsync_exec" /\ state' = state
      BY <1>1, <2>1, <3>1 DEF Idle, FsyncSteps
    <3> QED BY <3>2 DEF Kept, Stopping, FsyncSteps
  <2> QED BY <2>1 DEF Stopping
<1>9. NoneLeft'
  <2>1. state' # IDLE
    BY DEF Kept, Stopping, FsyncSteps, IDLE, TX_STREAMING, TX_STOPPING
  <2>2. ~Quiet'
    BY <1>1, <1>7, <2>1 DEF Quiet, CpuSteps, Idle
  <2> QED BY <2>2 DEF NoneLeft
<1>10. ~PostPending'
  BY <1>1, <1>7 DEF PostPending, CpuSteps, Idle
<1>11. QueuedDataHasATransfer' /\ NoLostWakeup'
  <2>1. CASE Started(chan') # {}
    BY <2>1 DEF QueuedDataHasATransfer, NoLostWakeup
  <2>2. CASE Q = 0 /\ chan' = chan /\ UNCHANGED tail
    <3>1. CASE proc[p].pc = "fsync_exec"
      <4>1. state' # TX_STREAMING
        BY <3>1 DEF Kept, Stopping, FsyncSteps, TX_STREAMING, TX_STOPPING
      <4> QED BY <4>1 DEF QueuedDataHasATransfer, NoLostWakeup
    <3>2. CASE proc[p].pc = "write_post"
      <4>1. \A r \in Procs : proc[r].pc # "write_sleep"
        BY <2>2, <3>2 DEF Kept, Waiting, SleepersSeeData, PostPending
      <4>2. \A r \in Procs : proc'[r].pc # "write_sleep"
        BY <1>1, <4>1 DEF Idle
      <4>3. whitebox_user_source_data_total(head', tail') = 0
        BY <1>3, <2>2, EmptyQueue DEF WordsOK
      <4> QED BY <4>2, <4>3 DEF QueuedDataHasATransfer, NoLostWakeup
    <3> QED BY <3>1, <3>2
  <2> QED BY <1>4, <2>1, <2>2
<1>12. SleepersSeeData'
  BY <1>10 DEF SleepersSeeData
<1> QED BY <1>4, <1>6, <1>8, <1>9, <1>11, <1>12 DEF Kept, Waiting

(* The interrupt: everybody is awake after it.                             *)
LEMMA IrqStep ==
  ASSUME ProcsOK, Control, Kept, txen \in BOOLEAN, Irq PROVE Kept' /\ txen' \in BOOLEAN
<1>1. /\ chan.comp # {} /\ tx_exec(IrqAcknowledge(chan))
      /\ UNCHANGED <<state, sem, cpu, head, mem, written, fifo, sent>>
  BY DEF Irq, srcVars, dacVars
<1>2. ASSUME NEW r \in Procs
      PROVE  /\ proc'[r].n = proc[r].n /\ proc'[r].pc # "write_sleep"
             /\ proc'[r].pc = proc[r].pc \/ proc'[r].pc = "write_wait"
    BY DEF Irq, ProcsOK
<1>3. WordsOK /\ Plain(chan)
  BY DEF Kept, WordsOK, DataTypes
<1> DEFINE c == IrqAcknowledge(chan)
<1>4. Plain(c) /\ c.loaded = chan.loaded /\ c.sel = chan.sel
  BY <1>3, PlainAcknowledge
<1> HIDE DEF c
<1>5. /\ WordsOK' /\ Q' \in 0 .. Q /\ txen' \in BOOLEAN
      /\ Started(chan') # {} \/ (Q = 0 /\ chan' = c /\ UNCHANGED tail)
  BY <1>1, <1>3, <1>4, ExecKeepsWords DEF c
<1>6. Q \in Nat
  BY <1>3, DataWords DEF WordsOK
<1>7. CopyFits'
  <2>1. ASSUME NEW r \in Procs, proc'[r].pc = "write_copy"
        PROVE  head' + proc'[r].n <= BufSize /\ 4 * Q' + proc'[r].n <= BufSize - 4
    <3>2. head + proc[r].n <= BufSize /\ 4 * Q + proc[r].n <= BufSize - 4 /\ proc[r].n \in Nat
      BY <1>2, <2>1 DEF Kept, CopyFits, ProcsOK
    <3> QED BY <1>1, <1>2, <1>5, <1>6, <3>2, BufSizeAssumption
  <2> QED BY <2>1 DEF CopyFits
<1>8. Stopping'
  BY <1>1, <1>2 DEF Kept, Stopping, FsyncSteps
<1>9. NoneLeft'
  <2>1. ~Quiet'
    BY <1>1, <1>2 DEF Kept, NoneLeft, Quiet
  <2> QED BY <2>1 DEF NoneLeft
<1>10. SleepersSeeData' /\ NoLostWakeup'
  BY <1>2 DEF SleepersSeeData, NoLostWakeup
<1>11. QueuedDataHasATransfer'
  <2>1. CASE Q = 0 /\ UNCHANGED tail
    <3>1. whitebox_user_source_data_total(head', tail') = 0
      BY <1>1, <1>3, <2>1, EmptyQueue DEF WordsOK
    <3> QED BY <3>1 DEF QueuedDataHasATransfer
  <2> QED BY <1>5, <2>1 DEF QueuedDataHasATransfer
<1> QED BY <1>5, <1>7, <1>8, <1>9, <1>10, <1>11 DEF Kept, Waiting

(* The hardware's own steps.                                               *)
LEMMA HardwareStep ==
  ASSUME Kept, DmaWord \/ DacSample PROVE Kept'
<1>1. /\ UNCHANGED <<state, sem, cpu, proc, head, tail>>
      /\ UNCHANGED chan \/ (Started(chan') # {} /\ chan.loaded # {})
      /\ WordsOK' /\ Q' = Q /\ Space' = Space
  <2>1. CASE DmaWord
    <3>1. WordsOK' /\ Q' = Q /\ Started(chan') # {}
      BY <2>1, DmaKeepsWords DEF Kept
    <3> QED BY <2>1, <3>1 DEF DmaWord, procVars, srcVars, HwCanComplete, Space
  <2>2. CASE DacSample
    BY <2>2, DacKeepsWords DEF Kept, DacSample, procVars, srcVars, Space
  <2> QED BY <2>1, <2>2
<1>2. CopyFits' /\ Stopping' /\ (Quiet' <=> Quiet) /\ (PostPending' <=> PostPending)
  BY <1>1 DEF Kept, CopyFits, Stopping, Quiet, PostPending
<1>3. NoneLeft'
  BY <1>1, <1>2 DEF Kept, NoneLeft
<1>4. SleepersSeeData' /\ QueuedDataHasATransfer' /\ NoLostWakeup'
  BY <1>1, <1>2 DEF Kept, Waiting, SleepersSeeData, QueuedDataHasATransfer, NoLostWakeup
<1> QED BY <1>1, <1>2, <1>3, <1>4 DEF Kept, Waiting

(* Every step keeps the invariant.                                         *)
LEMMA KeptStep ==
  ASSUME ProcsOK, Control, Kept, txen \in BOOLEAN, [Next]_vars PROVE Kept'
<1> USE DEF WriteSteps, FsyncSteps, Idle, Results, DownSteps
<1>0. /\ WordsOK /\ Plain(chan) /\ \A r \in Procs : r # NoProc
      /\ IDLE # TX_STREAMING /\ TX # TX_STREAMING /\ TX_STOPPING # TX_STREAMING
      /\ IDLE # TX_STOPPING /\ TX # IDLE
  BY ProcsAssumption DEF Kept, WordsOK, DataTypes, IDLE, TX, TX_STREAMING, TX_STOPPING
<1> DEFINE Same == UNCHANGED <<head, tail, mem, dma, fifo, sent, written, chan>>
<1>s. Same => WordsOK'
  BY <1>0, SameWords
<1>1. ASSUME NEW p \in Procs, CallWrite(p) \/ CallFsync(p) \/ Poll(p) PROVE Kept'
  <2>1. PICK to \in {"write_down", "fsync_down", Idle} : Moves(p, to)
    <3>1. CASE CallWrite(p)
      <4>1. PICK n \in Counts : Call(p, "write_down", n)
        BY <3>1 DEF CallWrite
      <4>2. n \in Nat
        BY SizesAssumption
      <4>3. Moves(p, "write_down")
        BY <4>1, <4>2 DEF Call, ProcsOK, Moves
      <4> QED BY <4>3
    <3>2. CASE CallFsync(p)
      <4>1. written \in Nat
        BY <1>0 DEF WordsOK, DataTypes
      <4>2. Moves(p, "fsync_down")
        BY <3>2, <4>1 DEF CallFsync, Call, ProcsOK, Moves
      <4> QED BY <4>2
    <3>3. CASE Poll(p)
      <4>1. Moves(p, Idle)
        BY <3>3 DEF Poll, Step, ProcsOK, Moves
      <4> QED BY <4>1
    <3> QED BY <1>1, <3>1, <3>2, <3>3
  <2>2. Same /\ state' = state /\ proc[p].pc = Idle
    BY <1>1 DEF CallWrite, CallFsync, Call, Poll, Step, srcVars, dmaVars, dacVars
  <2>3. WordsOK'
    BY <1>s, <2>2
  <2> QED BY <2>1, <2>2, <2>3, StillStep DEF Quiet
<1>2. ASSUME NEW p \in Procs, Signal(p) PROVE Kept'
  <2>1. Same /\ state' = state /\ proc[p].pc # "write_post"
    BY <1>2 DEF Signal, Step, srcVars, dmaVars, dacVars
  <2>2. Moves(p, Idle)
    BY <1>2, MovesReturn DEF Signal
  <2>3. WordsOK'
    BY <1>s, <2>1
  <2> QED BY <2>1, <2>2, <2>3, StillStep DEF Quiet
<1>3. ASSUME NEW p \in Procs, WriteFault(p) PROVE Kept'
  <2>1. /\ UNCHANGED <<state, head, written, tail, chan, dma, fifo, sent>>
        /\ proc[p].pc = "write_copy"
    BY <1>3 DEF WriteFault, Step, dmaVars, dacVars
  <2>2. Moves(p, Idle)
    BY <1>3, MovesReturn DEF WriteFault
  <2>3. /\ proc[p].n \in Nat /\ proc[p].n % 4 = 0
        /\ head + proc[p].n <= BufSize /\ 4 * Q + proc[p].n <= BufSize - 4
    BY <2>1 DEF Control, CountsOK, ProcsOK, Kept, CopyFits
  <2>4. PICK k \in 0 .. Words(proc[p].n) :
          mem' = whitebox_user_source_work(mem, head, k, written + 1)
    BY <1>3 DEF WriteFault
  <2>5. WordsOK'
    BY <1>0, <2>1, <2>3, <2>4, FaultKeepsWords
  <2> QED BY <2>1, <2>2, <2>5, StillStep DEF Quiet
<1>4. ASSUME NEW p \in Procs, WriteEnter(p) PROVE Kept'
  <2>1. /\ UNCHANGED <<head, tail, mem, dma, fifo, sent, written>>
        /\ proc[p].pc = "write_down" /\ cpu \in {NoProc, p}
    BY <1>4 DEF WriteEnter, Step, srcVars, dacVars
  <2>2. PICK to \in {Idle, "write_check"} : Moves(p, to)
    <3>1. Return(p, "ok") \/ Return(p, "EIO") \/ Go(p, "write_check")
      BY <1>4 DEF WriteEnter
    <3>2. Moves(p, Idle) \/ Moves(p, "write_check")
      BY <3>1, MovesReturn, MovesTo
    <3> QED BY <3>2
  <2>3. CASE state = IDLE
    <3>1. state' = TX /\ chan' = pdma_clear(chan, 0)
      BY <1>4, <2>3 DEF WriteEnter, tx_start
    <3>2. Plain(chan') /\ chan'.loaded = {} /\ chan'.comp = {}
      BY <1>0, <3>1, PlainClear
    <3>3. chan.loaded = {}
      BY <2>3 DEF Kept, NoneLeft, Quiet
    <3>4. WordsOK'
      BY <1>0, <2>1, <3>2, <3>3, SameWords
    <3> QED BY <1>0, <2>1, <2>2, <3>1, <3>2, <3>4, StillStep
  <2>4. CASE state # IDLE
    <3>1. Same /\ state' = state
      BY <1>4, <2>1, <2>4 DEF WriteEnter
    <3>2. WordsOK'
      BY <1>s, <3>1
    <3> QED BY <2>1, <2>2, <2>4, <3>1, <3>2, StillStep
  <2> QED BY <2>3, <2>4
<1>5. ASSUME NEW p \in Procs, WriteCheck(p) PROVE Kept'
  <2>1. Same /\ state' = state /\ proc[p].pc = "write_check"
    BY <1>5 DEF WriteCheck, Step, srcVars, dmaVars, dacVars
  <2>2. WordsOK'
    BY <1>s, <2>1
  <2>3. CASE Return(p, "EIO") \/ Return(p, "EAGAIN")
    <3>1. Moves(p, Idle)
      BY <2>3, MovesReturn
    <3> QED BY <2>1, <2>2, <3>1, StillStep DEF Quiet
  <2>4. CASE Go(p, "write_wait")
    <3>1. Moves(p, "write_wait")
      BY <2>4, MovesTo
    <3> QED BY <2>1, <2>2, <3>1, StillStep DEF Quiet
  <2>5. CASE Space >= proc[p].n /\ Sleep(p, "write_copy")
    <3>1. Moves(p, "write_copy") /\ proc'[p].n = proc[p].n
      BY <2>5, MovesTo
    <3>2. proc[p].n % 4 = 0
      BY <2>1 DEF Control, CountsOK
    <3> QED BY <2>1, <2>2, <2>5, <3>1, <3>2, StillStep DEF Quiet
  <2> QED BY <1>5, <2>3, <2>4, <2>5 DEF WriteCheck
<1>6. ASSUME NEW p \in Procs, WriteWait(p) PROVE Kept'
  <2>1. Same /\ state' = state /\ proc[p].pc = "write_wait" /\ cpu \in {NoProc, p}
    BY <1>6 DEF WriteWait, Step, srcVars, dmaVars, dacVars
  <2>2. WordsOK'
    BY <1>s, <2>1
  <2>3. CASE \E e \in BOOLEAN : proc' = [proc EXCEPT ![p].pc = "write_redown", ![p].err = e]
    <3>1. PICK e \in BOOLEAN : proc' = [proc EXCEPT ![p].pc = "write_redown", ![p].err = e]
      BY <2>3
    <3>2. proc'[p] = [proc[p] EXCEPT !.pc = "write_redown", !.err = e]
      BY <3>1 DEF ProcsOK
    <3>3. \A r \in Procs \ {p} : proc'[r] = proc[r]
      BY <3>1 DEF ProcsOK
    <3>4. proc'[p] \in [pc : {Idle} \cup WriteSteps \cup FsyncSteps, n : Nat,
                        err : BOOLEAN, ret : Results]
      BY <3>2 DEF ProcsOK
    <3>5. proc'[p].pc = "write_redown"
      BY <3>2 DEF ProcsOK
    <3>6. Moves(p, "write_redown")
      BY <3>1, <3>3, <3>4, <3>5 DEF Moves, ProcsOK
    <3> QED BY <2>1, <2>2, <3>6, StillStep DEF Quiet
  <2>4. CASE ~(Space >= proc[p].n) /\ Sleep(p, "write_sleep")
    <3>1. Moves(p, "write_sleep") /\ proc'[p].n = proc[p].n
      BY <2>4, MovesTo
    <3> QED BY <2>1, <2>2, <2>4, <3>1, StillStep DEF Quiet
  <2> QED BY <1>6, <2>3, <2>4 DEF WriteWait, tx_error
<1>7. ASSUME NEW p \in Procs, WriteRedown(p) PROVE Kept'
  <2>1. Same /\ state' = state /\ proc[p].pc = "write_redown"
    BY <1>7 DEF WriteRedown, Step, srcVars, dmaVars, dacVars
  <2>2. WordsOK' /\ Moves(p, "write_check")
    BY <1>s, <1>7, <2>1, MovesTo DEF WriteRedown
  <2> QED BY <2>1, <2>2, StillStep DEF Quiet
<1>8. ASSUME NEW p \in Procs, WritePost(p) PROVE Kept'
  <2>1. /\ UNCHANGED <<head, mem, written, fifo, sent>> /\ proc[p].pc = "write_post"
        /\ cpu \in {NoProc, p} /\ Moves(p, Idle)
    BY <1>8, MovesReturn DEF WritePost, Step, srcVars, dacVars
  <2>2. CASE state' = TX_STREAMING /\ tx_exec(chan)
    BY <2>1, <2>2, ExecStep
  <2>3. CASE state # TX_STREAMING /\ UNCHANGED <<state, dmaVars>>
    <3>1. Same
      BY <2>1, <2>3 DEF dmaVars
    <3>2. WordsOK'
      BY <1>s, <3>1
    <3> QED BY <2>1, <2>3, <3>1, <3>2, StillStep DEF Quiet
  <2> QED BY <1>8, <2>2, <2>3 DEF WritePost
<1>9. ASSUME NEW p \in Procs, FsyncEnter(p) PROVE Kept'
  <2>1. Same /\ proc[p].pc = "fsync_down" /\ cpu \in {NoProc, p}
    BY <1>9 DEF FsyncEnter, Step, srcVars, dacVars
  <2>2. WordsOK'
    BY <1>s, <2>1
  <2>3. CASE Return(p, "ok") /\ state' = state
    <3>1. Moves(p, Idle)
      BY <2>3, MovesReturn
    <3> QED BY <2>1, <2>2, <2>3, <3>1, StillStep DEF Quiet
  <2>4. CASE state' = TX_STOPPING /\ Go(p, "fsync_drain")
    <3>1. Moves(p, "fsync_drain")
      BY <2>4, MovesTo
    <3> QED BY <1>0, <2>1, <2>2, <2>4, <3>1, StillStep
  <2> QED BY <1>9, <2>3, <2>4 DEF FsyncEnter
<1>10. ASSUME NEW p \in Procs, FsyncDrain(p) \/ FsyncRedown(p) PROVE Kept'
  <2>1. /\ Same /\ state' = state /\ proc[p].pc # "write_post"
        /\ proc[p].pc \in {"fsync_drain", "fsync_redown", "fsync_txen_redown"}
    BY <1>10 DEF FsyncDrain, FsyncRedown, Step, srcVars, dmaVars, dacVars
  <2>2. WordsOK' /\ state = TX_STOPPING
    BY <1>s, <2>1 DEF Kept, Stopping
  <2>3. CASE Return(p, "EIO")
    <3>1. Moves(p, Idle)
      BY <2>3, MovesReturn
    <3> QED BY <2>1, <2>2, <3>1, StillStep DEF Quiet
  <2>4. ASSUME NEW to \in {"fsync_stop", "fsync_exec", "fsync_drain"}, Go(p, to) PROVE Kept'
    <3>1. Moves(p, to)
      BY <2>4, MovesTo
    <3> QED BY <1>0, <2>1, <2>2, <2>4, <3>1, StillStep
  <2>5. CASE proc[p].pc = "fsync_txen_redown" /\ Go(p, "fsync_txen")
    <3>1. Moves(p, "fsync_txen") /\ Quiet
      BY <2>5, MovesTo DEF Quiet
    <3> QED BY <1>0, <2>1, <2>2, <3>1, StillStep
  <2> QED BY <1>10, <2>3, <2>4, <2>5 DEF FsyncDrain, FsyncRedown, FsyncError, Step
<1>11. ASSUME NEW p \in Procs, FsyncExec(p) PROVE Kept'
  <2>1. /\ UNCHANGED <<state, head, mem, written, fifo, sent>> /\ proc[p].pc = "fsync_exec"
        /\ tx_exec(chan) /\ Moves(p, "fsync_redown")
    BY <1>11, MovesTo DEF FsyncExec, Step, srcVars, dacVars
  <2> QED BY <2>1, ExecStep
<1>12. ASSUME NEW p \in Procs, FsyncStop(p) PROVE Kept'
  <2>1. /\ Same /\ state' = state /\ proc[p].pc = "fsync_stop"
    BY <1>0, <1>12, PlainAvailable DEF FsyncStop, Step, srcVars
  <2>2. WordsOK' /\ state = TX_STOPPING
    BY <1>s, <2>1 DEF Kept, Stopping
  <2>3. CASE Return(p, "EIO")
    <3>1. Moves(p, Idle)
      BY <2>3, MovesReturn
    <3> QED BY <2>1, <2>2, <3>1, StillStep DEF Quiet
  <2>4. CASE Go(p, "fsync_stop")
    <3>1. Moves(p, "fsync_stop")
      BY <2>4, MovesTo
    <3> QED BY <1>0, <2>1, <2>2, <2>4, <3>1, StillStep
  <2>5. CASE tx_stop /\ Go(p, "fsync_txen")
    <3>1. Moves(p, "fsync_txen") /\ chan.loaded = {} /\ chan.comp = {}
      BY <1>0, <2>5, MovesTo, PlainAvailable DEF tx_stop
    <3> QED BY <1>0, <2>1, <2>2, <3>1, StillStep
  <2> QED BY <1>12, <2>3, <2>4, <2>5 DEF FsyncStop, FsyncError
<1>13. ASSUME NEW p \in Procs, FsyncTxen(p) PROVE Kept'
  <2>1. Same /\ proc[p].pc = "fsync_txen" /\ cpu \in {NoProc, p}
    BY <1>13 DEF FsyncTxen, Step, srcVars, dmaVars, dacVars
  <2>2. WordsOK' /\ state = TX_STOPPING /\ Quiet
    BY <1>s, <2>1 DEF Kept, Stopping, Quiet
  <2>3. CASE (Return(p, "ok") /\ state' = IDLE) \/ (Return(p, "EIO") /\ state' = state)
    <3>1. Moves(p, Idle) /\ state' # TX_STREAMING
      BY <1>0, <2>2, <2>3, MovesReturn
    <3> QED BY <2>1, <2>2, <3>1, StillStep
  <2>4. CASE Go(p, "fsync_txen_redown") /\ state' = state
    <3>1. Moves(p, "fsync_txen_redown")
      BY <2>4, MovesTo
    <3> QED BY <1>0, <2>1, <2>2, <2>4, <3>1, StillStep
  <2> QED BY <1>13, <2>3, <2>4 DEF FsyncTxen, FsyncError
<1>14. CASE UNCHANGED vars
  <2>1. /\ Same /\ UNCHANGED <<state, sem, cpu, proc>>
    BY <1>14 DEF vars, procVars, srcVars, dmaVars, dacVars
  <2>2. WordsOK' /\ Q' = Q /\ Space' = Space
    BY <1>s, <2>1 DEF Q, Space
  <2> QED BY <2>1, <2>2 DEF Kept, CopyFits, Stopping, NoneLeft, Quiet, Waiting, SleepersSeeData,
                            QueuedDataHasATransfer, NoLostWakeup, PostPending
<1> QED
  BY <1>1, <1>2, <1>3, <1>4, <1>5, <1>6, <1>7, <1>8, <1>9, <1>10, <1>11, <1>12, <1>13, <1>14,
     CopyStep, IrqStep, HardwareStep DEF Next, Operation

----------------------------------------------------------------------------
(* The types of the other variables. *)

States == {IDLE, TX, TX_STREAMING, TX_STOPPING}

LEMMA TypeParts ==
  TypeOK <=>
    /\ state \in States /\ ProcsOK
    /\ head \in 0 .. BufSize - 4 /\ tail \in 0 .. BufSize - 4
    /\ mem \in [Slots -> Nat] /\ chan \in Channel
    /\ dma \in [Buffers -> [src : Slots, count : Nat, left : Nat]]
    /\ fifo \in Seq(Nat) /\ Len(fifo) <= FifoSize
    /\ txen \in BOOLEAN /\ txstop \in BOOLEAN
    /\ runs \in 0 .. MaxRuns /\ cur_runs \in 0 .. MaxRuns
    /\ written \in Nat /\ sent \in Seq(Nat)
  BY DEF TypeOK, ProcsOK, States

LEMMA TypesStep ==
  ASSUME TypeOK, WordsOK, [Next]_vars, ProcsOK', WordsOK' PROVE TypeOK'
<1>1. /\ state \in States /\ Len(fifo) <= FifoSize /\ Len(fifo) \in Nat /\ FifoSize \in Nat
      /\ txen \in BOOLEAN /\ txstop \in BOOLEAN
      /\ runs \in 0 .. MaxRuns /\ cur_runs \in 0 .. MaxRuns
  BY TypeParts, SizesAssumption DEF TypeOK
<1>2. state' \in States
  <2>1. CASE UNCHANGED vars
    BY <1>1, <2>1 DEF vars, procVars
  <2>2. CASE DmaWord \/ Irq \/ DacSample
    BY <1>1, <2>2 DEF DmaWord, Irq, DacSample, procVars
  <2>3. ASSUME NEW p \in Procs,
               CallWrite(p) \/ CallFsync(p) \/ Poll(p) \/ Signal(p) \/ WriteFault(p) \/ WriteCheck(p)
               \/ WriteWait(p) \/ WriteRedown(p) \/ WriteCopy(p) \/ FsyncDrain(p) \/ FsyncExec(p)
               \/ FsyncRedown(p) \/ FsyncStop(p)
        PROVE  state' \in States
    BY <1>1, <2>3 DEF CallWrite, CallFsync, Call, Poll, Signal, WriteFault, WriteCheck, WriteWait,
       WriteRedown, WriteCopy, FsyncDrain, FsyncExec, FsyncRedown, FsyncStop
  <2>4. ASSUME NEW p \in Procs, WriteEnter(p) \/ WritePost(p) \/ FsyncEnter(p) \/ FsyncTxen(p)
        PROVE  state' \in States
    BY <1>1, <2>4 DEF WriteEnter, WritePost, FsyncEnter, FsyncTxen, States
  <2> QED BY <2>1, <2>2, <2>3, <2>4 DEF Next, Operation
<1>3. Len(fifo') <= FifoSize
  <2>1. CASE UNCHANGED fifo
    BY <1>1, <2>1
  <2>2. CASE DmaWord
    <3>1. Len(fifo') = Len(fifo) + 1 /\ Len(fifo) < FifoSize
      BY <2>2, DmaKeepsWords DEF DmaWord
    <3> QED BY <1>1, <3>1
  <2>3. CASE DacSample
    <3>1. Len(fifo') <= Len(fifo)
      BY <2>3, DacKeepsWords
    <3>2. fifo' \in Seq(Nat)
      BY DEF WordsOK, DataTypes
    <3> QED BY <1>1, <3>1, <3>2
  <2>4. ~DmaWord /\ ~DacSample => UNCHANGED fifo
    BY DEF Next, Operation, CallWrite, CallFsync, Call, Poll, Signal, WriteFault, WriteCheck, WriteWait,
       WriteRedown, WriteCopy, FsyncDrain, FsyncExec, FsyncRedown, FsyncStop,
       WriteEnter, WritePost, FsyncEnter, FsyncTxen, Irq, vars, dacVars
  <2> QED BY <2>1, <2>2, <2>3, <2>4
<1>4. txen' \in BOOLEAN
  <2>1. CASE UNCHANGED txen
    BY <1>1, <2>1
  <2>2. ASSUME NEW c, tx_exec(c) PROVE txen' \in BOOLEAN
    BY <1>1, <2>2 DEF tx_exec, _exciter_produce
  <2>3. CASE DacSample
    BY <1>1, <2>3 DEF DacSample
  <2>4. CASE Irq
    BY <2>2, <2>4 DEF Irq
  <2>5. ASSUME NEW p \in Procs, FsyncEnter(p) \/ WritePost(p) \/ FsyncExec(p)
        PROVE  txen' \in BOOLEAN
    BY <1>1, <2>2, <2>5 DEF FsyncEnter, WritePost, FsyncExec, dmaVars
  <2>6. ASSUME NEW p \in Procs,
               CallWrite(p) \/ CallFsync(p) \/ Poll(p) \/ Signal(p) \/ WriteFault(p) \/ WriteCheck(p)
               \/ WriteWait(p) \/ WriteRedown(p) \/ WriteCopy(p) \/ FsyncDrain(p)
               \/ FsyncRedown(p) \/ FsyncStop(p) \/ WriteEnter(p) \/ FsyncTxen(p)
        PROVE  UNCHANGED txen
    BY <2>6 DEF CallWrite, CallFsync, Call, Poll, Signal, WriteFault, WriteCheck, WriteWait,
       WriteRedown, WriteCopy, FsyncDrain, FsyncRedown, FsyncStop, WriteEnter, FsyncTxen, dmaVars
  <2>7. DmaWord \/ UNCHANGED vars => UNCHANGED txen
    BY DEF DmaWord, vars, dmaVars
  <2> QED BY <2>1, <2>3, <2>4, <2>5, <2>6, <2>7 DEF Next, Operation
<1>5. txstop' \in BOOLEAN /\ runs' \in 0 .. MaxRuns
  <2>1. CASE UNCHANGED <<txstop, runs>>
    BY <1>1, <2>1
  <2>2. CASE DacSample
    <3>1. txstop' \in BOOLEAN
      BY <1>1, <2>2 DEF DacSample
    <3>2. runs' = runs \/ (runs' = runs + 1 /\ runs < MaxRuns)
      BY <2>2 DEF DacSample
    <3> QED BY <1>1, <3>1, <3>2, SizesAssumption
  <2>3. ASSUME NEW p \in Procs, FsyncStop(p) PROVE txstop' \in BOOLEAN /\ runs' = runs
    BY <1>1, <2>3 DEF FsyncStop
  <2>4. ASSUME NEW p \in Procs,
               CallWrite(p) \/ CallFsync(p) \/ Poll(p) \/ Signal(p) \/ WriteFault(p) \/ WriteCheck(p)
               \/ WriteWait(p) \/ WriteRedown(p) \/ WriteCopy(p) \/ FsyncDrain(p) \/ FsyncExec(p)
               \/ FsyncRedown(p) \/ WriteEnter(p) \/ FsyncTxen(p) \/ WritePost(p) \/ FsyncEnter(p)
        PROVE  UNCHANGED <<txstop, runs>>
    BY <2>4 DEF CallWrite, CallFsync, Call, Poll, Signal, WriteFault, WriteCheck, WriteWait,
       WriteRedown, WriteCopy, FsyncDrain, FsyncExec, FsyncRedown, WriteEnter, FsyncTxen,
       WritePost, FsyncEnter, dacVars
  <2>5. DmaWord \/ Irq \/ UNCHANGED vars => UNCHANGED <<txstop, runs>>
    BY DEF DmaWord, Irq, vars, dacVars
  <2> QED BY <1>1, <2>1, <2>2, <2>3, <2>4, <2>5 DEF Next, Operation
<1>6. cur_runs' \in 0 .. MaxRuns
  <2>1. ASSUME NEW p \in Procs,
               CallWrite(p) \/ CallFsync(p) \/ Poll(p) \/ Signal(p) \/ WriteFault(p) \/ WriteCheck(p)
               \/ WriteWait(p) \/ Operation(p)
        PROVE  cur_runs' \in {cur_runs, runs}
    BY <2>1 DEF Operation, CallWrite, CallFsync, Call, Poll, Signal, WriteFault, WriteCheck, WriteWait,
       WriteRedown, WriteCopy, FsyncDrain, FsyncExec, FsyncRedown, FsyncStop, WriteEnter, FsyncTxen,
       WritePost, FsyncEnter, FsyncError, tx_start
  <2>2. DmaWord \/ Irq \/ DacSample \/ UNCHANGED vars => cur_runs' = cur_runs
    BY DEF DmaWord, Irq, DacSample, vars
  <2> QED BY <1>1, <2>1, <2>2 DEF Next
<1>7. /\ head' \in 0 .. BufSize - 4 /\ tail' \in 0 .. BufSize - 4
      /\ mem' \in [Slots -> Nat] /\ chan' \in Channel
      /\ dma' \in [Buffers -> [src : Slots, count : Nat, left : Nat]]
      /\ fifo' \in Seq(Nat) /\ written' \in Nat /\ sent' \in Seq(Nat)
  BY PlainFacts DEF WordsOK, DataTypes
<1> QED BY <1>2, <1>3, <1>4, <1>5, <1>6, <1>7 DEF TypeOK, ProcsOK, States

----------------------------------------------------------------------------
LEMMA Initially == Init => IInv
<1> SUFFICES ASSUME Init PROVE IInv
  OBVIOUS
<1>1. /\ proc = [p \in Procs |-> [pc |-> Idle, n |-> 0, err |-> FALSE, ret |-> "none"]]
      /\ state = IDLE /\ sem = NoProc /\ cpu = NoProc /\ head = 0 /\ tail = 0
      /\ mem = [i \in Slots |-> 0] /\ dma = [b \in Buffers |-> [src |-> 0, count |-> 0, left |-> 0]]
      /\ fifo = <<>> /\ sent = <<>> /\ written = 0 /\ runs = 0 /\ cur_runs = 0
      /\ txen = FALSE /\ txstop = FALSE
      /\ chan = [in_use |-> TRUE, next |-> A, status |-> [b \in Buffers |-> STOPPED],
                 ping_pong |-> 0, loaded |-> {}, sel |-> A, comp |-> {}]
  BY DEF Init
<1>2. \A p \in Procs : proc[p].pc = Idle /\ p # NoProc
  BY <1>1, ProcsAssumption
<1>3. ProcsOK
  BY <1>1 DEF ProcsOK, Results
<1>4. Control
  BY <1>1, <1>2 DEF Control, SemHeld, CpuHeld, CountsOK, HoldSteps, CpuSteps, WriteSteps, Idle
<1>5. Plain(chan) /\ chan.loaded = {} /\ chan.comp = {}
  <2>1. /\ chan \in Channel /\ chan.in_use /\ chan.ping_pong = 0 /\ chan.next = A /\ chan.sel = A
        /\ chan.loaded = {} /\ chan.comp = {} /\ chan.status = [b \in Buffers |-> STOPPED]
    BY <1>1, BuffersAB DEF Channel
  <2> QED BY <2>1, ClearedFlat DEF Plain, ChanOK
<1>6. DataTypes
  <2>1. 0 \in 0 .. BufSize - 4 /\ 0 % 4 = 0 /\ 0 \in Slots
    BY BufSizeAssumption, NWords DEF N, Slots
  <2> QED BY <1>1, <1>5, <2>1 DEF DataTypes
<1>7. Q = 0
  <2>1. CIRC_CNT(0, 0, BufSize) = 0
    BY Ring, CntInside, BufSizeAssumption
  <2> QED BY <1>1, <2>1 DEF Q, whitebox_user_source_data_total, Words, WordBytes
<1>8. WordsOK
  <2>1. \A b \in Buffers : dma[b].src = 0 /\ dma[b].count = 0 /\ dma[b].left = 0
    BY <1>1
  <2>2. TransfersOK
    BY <1>5, <2>1, NWords, SizesAssumption DEF TransfersOK
  <2>3. EveryWordAccounted
    <3>1. Sent = 0
      BY <1>1 DEF Sent
    <3> QED BY <1>1, <1>6, <1>7, <2>1, <3>1, Accounted, BuffersAB
  <2>4. QueueIntact
    BY <1>7 DEF QueueIntact, Q
  <2>5. OneRun /\ TransferWords
    BY <1>5 DEF OneRun, TransferWords
  <2>6. NothingLostOrReordered
    <3>1. Len(sent \o fifo) = 0
      BY <1>1
    <3> QED BY <3>1 DEF NothingLostOrReordered
  <2> QED BY <1>6, <2>2, <2>3, <2>4, <2>5, <2>6 DEF WordsOK
<1>9. CopyFits /\ Stopping /\ NoneLeft /\ Waiting
  BY <1>1, <1>2, <1>5 DEF CopyFits, Stopping, NoneLeft, Waiting, SleepersSeeData, PostPending,
     QueuedDataHasATransfer, NoLostWakeup, Idle, FsyncSteps, IDLE, TX_STREAMING
<1>10. TypeOK
  <2>1. chan \in Channel
    BY <1>5, PlainFacts
  <2>2. Len(fifo) <= FifoSize /\ 0 \in 0 .. MaxRuns
    BY <1>1, SizesAssumption
  <2> QED BY <1>1, <1>3, <1>6, <2>1, <2>2 DEF TypeOK, ProcsOK, DataTypes
<1> QED BY <1>4, <1>8, <1>9, <1>10 DEF IInv, Kept

LEMMA Inductive == IInv /\ [Next]_vars => IInv'
<1> SUFFICES ASSUME IInv, [Next]_vars PROVE IInv'
  OBVIOUS
<1>1. ProcsOK /\ Control /\ Kept /\ TypeOK /\ WordsOK /\ txen \in BOOLEAN /\ written \in Nat
  BY DEF IInv, Kept, TypeOK, ProcsOK
<1>2. ProcsOK' /\ Control'
  BY <1>1, ControlStep
<1>3. Kept'
  BY <1>1, KeptStep
<1>4. TypeOK'
  BY <1>1, <1>2, <1>3, TypesStep DEF Kept
<1> QED BY <1>2, <1>3, <1>4 DEF IInv

(* The inductive invariant holds in every reachable state.                 *)
THEOREM Invariant == Spec => []IInv
  BY Initially, Inductive, PTL DEF Spec

(* The variables keep their types: in particular head and tail stay inside *)
(* the ring whatever the interrupt and the processes do, and the exciter's *)
(* FIFO never overflows.                                                   *)
THEOREM TypeCorrect == Spec => []TypeOK
<1>1. IInv => TypeOK
  BY DEF IInv
<1> QED BY <1>1, Invariant, PTL

(* Every word a write() has produced is in exactly one place: no step of   *)
(* the executor, the DMA or the DAC loses or duplicates one.               *)
THEOREM NoWordLost == Spec => []EveryWordAccounted
<1>1. IInv => EveryWordAccounted
  BY DEF IInv, Kept, WordsOK
<1> QED BY <1>1, Invariant, PTL

(* The words between tail and head are the last ones written, in order,    *)
(* although the interrupt moves tail while a process copies behind head    *)
(* and a copy may fault half-way.                                          *)
THEOREM QueueIsIntact == Spec => []QueueIntact
<1>1. IInv => QueueIntact
  BY DEF IInv, Kept, WordsOK
<1> QED BY <1>1, Invariant, PTL

(* The i-th word to reach the exciter is the i-th word written or the one  *)
(* written over it one lap later: nothing is dropped, repeated or sent out *)
(* of order.                                                               *)
THEOREM StreamInOrder == Spec => []NothingLostOrReordered
<1>1. IInv => NothingLostOrReordered
  BY DEF IInv, Kept, WordsOK
<1> QED BY <1>1, Invariant, PTL

(* While streaming, queued data has a transfer before it or a process on   *)
(* its way to tx_exec: the stream does not stall.                          *)
THEOREM StreamGoesOn == Spec => []QueuedDataHasATransfer
<1>1. IInv => QueuedDataHasATransfer
  BY DEF IInv, Kept, Waiting
<1> QED BY <1>1, Invariant, PTL

(* No wakeup is lost between a writer's test of the space and its sleep,   *)
(* for any number of writers.                                              *)
THEOREM WakeupsNotLost == Spec => []NoLostWakeup
<1>1. IInv => NoLostWakeup
  BY DEF IInv, Kept, Waiting
<1> QED BY <1>1, Invariant, PTL

----------------------------------------------------------------------------
(* fsync() *)

(* Until there is an underrun, and with one process: fsync() leads from a  *)
(* device that transmits, with the transmitter on, to an empty queue, and  *)
(* from there to a transmitter that has turned itself off on an empty      *)
(* FIFO; an idle device has sent all that was written.  No error and no    *)
(* signal takes fsync() out of its loops, so only its end leaves           *)
(* TX_STOPPING.                                                            *)
OffSteps   == {"fsync_txen", "fsync_txen_redown"}
EmptySteps == OffSteps \cup {"fsync_stop"}
DrainSteps == {"fsync_drain", "fsync_exec", "fsync_redown", "fsync_stop"}
BusySteps  == DrainSteps \cup OffSteps

Flushing(p) ==
  /\ cur_runs = 0
  /\ proc[p].pc \in FsyncSteps => proc[p].n <= written
  /\ proc[p].pc \in DrainSteps => txen
  /\ proc[p].pc \in EmptySteps => Q = 0
  /\ proc[p].pc \in OffSteps => txen \/ (fifo = <<>> /\ ~txstop)
  /\ txstop => proc[p].pc \in OffSteps
  /\ state = TX_STOPPING => proc[p].pc \in BusySteps
  /\ state = IDLE => proc[p].pc \in {Idle, "write_down", "fsync_down"} /\ written = Len(sent)

FlushInv == runs = 0 => \A p \in Procs : Flushing(p)

(* All that was written and is not sent is in the FIFO or in the queue     *)
(* once no transfer is under way.                                          *)
LEMMA NoTransfer ==
  ASSUME WordsOK, chan.loaded = {}
  PROVE  written = Len(sent) + Len(fifo) + Q /\ Q \in Nat /\ Len(sent) \in Nat /\ Len(fifo) \in Nat
<1>1. DataTypes /\ TransfersOK /\ EveryWordAccounted
  BY DEF WordsOK
<1>2. dma[A].left = 0 /\ dma[B].left = 0
  <2>1. dma[A].left \in Nat /\ dma[B].left \in Nat
    BY <1>1, BuffersAB DEF DataTypes
  <2> QED BY <1>1, <2>1, BuffersAB DEF TransfersOK
<1>3. Len(sent) \in Nat /\ Len(fifo) \in Nat
  BY <1>1 DEF DataTypes
<1>4. Q \in Nat
  <2>1. Q \in 0 .. N - 1 /\ N \in Nat
    BY <1>1, DataWords
  <2> QED BY <2>1
<1>5. written = Len(sent) + Len(fifo) + dma[A].left + dma[B].left + Q
  BY <1>1 DEF EveryWordAccounted, Q
<1> QED BY <1>2, <1>3, <1>4, <1>5

(* An idle device that has sent all has nothing in its FIFO.               *)
LEMMA IdleIsEmpty ==
  ASSUME IInv, state = IDLE, written = Len(sent) PROVE fifo = <<>> /\ Q = 0
<1>1. WordsOK /\ chan.loaded = {}
  BY DEF IInv, Kept, NoneLeft, Quiet
<1>2. Len(fifo) = 0 /\ Q = 0
  BY <1>1, NoTransfer
<1>3. fifo \in Seq(Nat)
  BY <1>1 DEF WordsOK, DataTypes
<1> QED BY <1>2, <1>3

(* The executor turns the transmitter on, never off, and finds nothing in  *)
(* an empty queue.                                                         *)
LEMMA ExecKeepsOn ==
  ASSUME DataTypes, txen \in BOOLEAN, NEW c, Plain(c), tx_exec(c), UNCHANGED head
  PROVE  (txen => txen') /\ (Q = 0 => Q' = 0)
<1>1. txen => txen'
  BY DEF tx_exec, _exciter_produce
<1>2. ASSUME Q = 0 PROVE Q' = 0
  <2>1. NothingToStart(c) \/ \E k \in 1 .. Q : Starts(c, k)
    BY TxExecCases
  <2>2. UNCHANGED tail
    BY <1>2, <2>1 DEF NothingToStart
  <2> QED BY <1>2, <2>2 DEF Q
<1> QED BY <1>1, <1>2

LEMMA FlushStep ==
  ASSUME NEW q, Procs = {q}, IInv, FlushInv, [Next]_vars PROVE FlushInv'
<1> SUFFICES ASSUME runs' = 0 PROVE Flushing(q)'
  BY DEF FlushInv
<1> USE DEF OffSteps, EmptySteps, DrainSteps, BusySteps, FsyncSteps, Idle, IDLE, TX, TX_STREAMING,
            TX_STOPPING
<1>1. /\ ProcsOK /\ Control /\ Kept /\ WordsOK /\ DataTypes /\ Plain(chan) /\ txen \in BOOLEAN
      /\ runs \in Nat /\ written \in Nat /\ q \in Procs
      /\ proc[q].n \in Nat
      /\ NoneLeft /\ Stopping
  BY SizesAssumption DEF IInv, Kept, WordsOK, DataTypes, TypeOK, ProcsOK
<1>2. runs = 0 /\ runs' # runs + 1
  <2>1. runs' = runs \/ DacSample
    BY DEF Next, Operation, CallWrite, CallFsync, Call, Poll, Signal, WriteFault, WriteEnter,
       WriteCheck, WriteWait, WriteRedown, WriteCopy, WritePost, FsyncEnter, FsyncDrain, FsyncExec,
       FsyncRedown, FsyncStop, FsyncTxen, DmaWord, Irq, vars, dacVars
  <2>2. runs' = runs \/ runs' = runs + 1
    BY <2>1 DEF DacSample
  <2> QED BY <1>1, <2>2
<1>3. Flushing(q) /\ ~tx_error
  BY <1>1, <1>2 DEF FlushInv, Flushing, tx_error
<1>4. UNCHANGED <<head, tail>> => Q' = Q
  BY DEF Q
<1>5. CASE CallWrite(q) \/ CallFsync(q)
  <2>1. /\ proc[q].pc = Idle /\ proc'[q].pc \in {"write_down", "fsync_down"}
        /\ proc'[q].pc = "fsync_down" => proc'[q].n = written
        /\ UNCHANGED <<state, written, txen, txstop, fifo, sent, cur_runs>>
    BY <1>1, <1>5 DEF CallWrite, CallFsync, Call, ProcsOK, srcVars, dmaVars, dacVars
  <2> QED BY <1>1, <1>3, <2>1 DEF Flushing
<1>6. CASE Signal(q) \/ WriteFault(q) \/ WriteRedown(q) \/ WriteCheck(q) \/ WriteWait(q)
  <2>1. sem # NoProc => proc[q].pc \in HoldSteps
    BY <1>1 DEF Control, SemHeld, ProcsOK
  <2> DEFINE In == {"write_check", "write_wait", "write_sleep", "write_redown", "write_copy"}
             To == {Idle, "write_check", "write_wait", "write_sleep", "write_redown", "write_copy"}
  <2>2. /\ proc[q].pc \in In /\ proc'[q].pc \in To
        /\ UNCHANGED <<state, written, txen, txstop, fifo, sent>> /\ cur_runs' \in {cur_runs, runs}
    <3>1. CASE Signal(q)
      <4>1. proc[q].pc \in In
        BY <1>1, <2>1, <3>1 DEF Signal, Step, DownSteps, HoldSteps
      <4> QED BY <1>1, <3>1, <4>1 DEF Signal, Return, ProcsOK, srcVars, dmaVars, dacVars
    <3>2. CASE WriteFault(q) \/ WriteRedown(q)
      BY <1>1, <3>2 DEF WriteFault, WriteRedown, Step, Return, Go, ProcsOK, srcVars, dmaVars, dacVars
    <3>3. CASE WriteCheck(q)
      <4>1. \/ Sleep(q, "write_copy") \/ Go(q, "write_wait")
            \/ Return(q, "EIO") \/ Return(q, "EAGAIN")
        BY <3>3 DEF WriteCheck
      <4>2. proc'[q].pc \in {Idle, "write_copy", "write_wait"}
        BY <1>1, <4>1 DEF Return, Go, Sleep, ProcsOK
      <4>3. /\ proc[q].pc = "write_check" /\ cur_runs' \in {cur_runs, runs}
            /\ UNCHANGED <<state, written, txen, txstop, fifo, sent>>
        BY <3>3 DEF WriteCheck, Step, srcVars, dmaVars, dacVars
      <4> QED BY <4>2, <4>3
    <3>4. CASE WriteWait(q)
      <4>1. proc[q].pc = "write_wait" /\ proc'[q].pc \in {"write_redown", "write_sleep"}
        BY <1>1, <3>4 DEF WriteWait, Step, Sleep, ProcsOK
      <4>2. /\ UNCHANGED <<state, written, txen, txstop, fifo, sent>> /\ cur_runs' \in {cur_runs, runs}
        BY <3>4 DEF WriteWait, srcVars, dmaVars, dacVars
      <4> QED BY <4>1, <4>2
    <3> QED BY <1>6, <3>1, <3>2, <3>3, <3>4
  <2> QED BY <1>1, <1>2, <1>3, <2>2 DEF Flushing
<1>7. CASE Poll(q)
  BY <1>3, <1>7 DEF Poll
<1>8. CASE WriteEnter(q)
  <2>1. /\ proc[q].pc = "write_down" /\ proc'[q].pc \in {Idle, "write_check"}
        /\ state' = (IF state = IDLE THEN TX ELSE state)
        /\ UNCHANGED <<written, txen, txstop, fifo, sent>> /\ cur_runs' \in {cur_runs, runs}
    BY <1>1, <1>8 DEF WriteEnter, Step, tx_start, Return, Go, ProcsOK, srcVars, dacVars
  <2> QED BY <1>1, <1>2, <1>3, <2>1 DEF Flushing
<1>9. CASE WriteCopy(q)
  <2>1. /\ proc[q].pc = "write_copy" /\ proc'[q].pc = "write_post"
        /\ UNCHANGED <<state, txen, txstop, fifo, sent, cur_runs>>
    BY <1>1, <1>9 DEF WriteCopy, Step, Go, ProcsOK, dmaVars, dacVars
  <2> QED BY <1>3, <2>1 DEF Flushing
<1>10. CASE WritePost(q)
  <2>1. /\ proc[q].pc = "write_post" /\ proc'[q].pc = Idle
        /\ state' \in {state, TX_STREAMING} /\ UNCHANGED <<written, txstop, fifo, sent, cur_runs>>
    BY <1>1, <1>10 DEF WritePost, Step, Return, ProcsOK, srcVars, dacVars
  <2> QED BY <1>3, <2>1 DEF Flushing
<1>11. CASE FsyncEnter(q)
  <2>1. /\ proc[q].pc = "fsync_down"
        /\ \/ state \notin {TX, TX_STREAMING} /\ proc'[q].pc = Idle /\ state' = state
           \/ state' = TX_STOPPING /\ proc'[q].pc = "fsync_drain" /\ txen'
        /\ UNCHANGED <<written, txstop, fifo, sent, cur_runs>> /\ proc'[q].n = proc[q].n
    BY <1>1, <1>11 DEF FsyncEnter, Step, Return, Go, ProcsOK, srcVars, dacVars
  <2> QED BY <1>3, <2>1 DEF Flushing
<1>12. CASE FsyncDrain(q) \/ FsyncRedown(q) \/ FsyncExec(q)
  <2>1. Q = 0 <=> whitebox_user_source_data_available(head, tail) = 0
    BY <1>1, RingPiece DEF DataTypes, Q
  <2>2. /\ proc[q].pc \in BusySteps
        /\ \/ proc'[q].pc \in {"fsync_drain", "fsync_exec", "fsync_redown"} /\ proc[q].pc \in DrainSteps
           \/ proc'[q].pc = "fsync_stop" /\ Q = 0 /\ UNCHANGED <<head, tail>> /\ proc[q].pc \in DrainSteps
           \/ proc'[q].pc = "fsync_txen" /\ proc[q].pc \in OffSteps /\ UNCHANGED <<head, tail, txen>>
        /\ UNCHANGED <<state, written, txstop, fifo, sent, cur_runs>> /\ proc'[q].n = proc[q].n
    BY <1>1, <1>3, <1>12, <2>1 DEF FsyncDrain, FsyncRedown, FsyncExec, Step, Go, ProcsOK, srcVars,
       dmaVars, dacVars
  <2>3. txen => txen'
    BY <1>1, <1>12 DEF FsyncDrain, FsyncRedown, FsyncExec, tx_exec, _exciter_produce, dmaVars
  <2> QED BY <1>3, <1>4, <2>2, <2>3 DEF Flushing
<1>13. CASE FsyncStop(q)
  <2>1. /\ proc[q].pc = "fsync_stop"
        /\ \/ proc'[q].pc = "fsync_txen"
           \/ proc'[q].pc = "fsync_stop" /\ UNCHANGED txstop
        /\ UNCHANGED <<state, written, txen, fifo, sent, cur_runs, head, tail>> /\ proc'[q].n = proc[q].n
    BY <1>1, <1>3, <1>13 DEF FsyncStop, Step, Go, ProcsOK, srcVars
  <2> QED BY <1>3, <1>4, <2>1 DEF Flushing
<1>14. CASE FsyncTxen(q)
  <2>1. /\ proc[q].pc = "fsync_txen"
        /\ \/ ~txen /\ state' = IDLE /\ proc'[q].pc = Idle
           \/ txen /\ state' = state /\ proc'[q].pc = "fsync_txen_redown"
        /\ UNCHANGED <<written, txen, txstop, fifo, sent, cur_runs, head, tail>> /\ proc'[q].n = proc[q].n
    BY <1>1, <1>3, <1>14 DEF FsyncTxen, Step, Go, Return, ProcsOK, srcVars, dmaVars, dacVars
  <2>2. ~txen => written = Len(sent)
    <3>1. chan.loaded = {}
      BY <1>1, <2>1 DEF NoneLeft, Quiet
    <3>2. ~txen => fifo = <<>> /\ Q = 0
      BY <1>3, <2>1 DEF Flushing
    <3>3. ~txen => Len(fifo) = 0
      BY <3>2
    <3> QED BY <1>1, <3>1, <3>2, <3>3, NoTransfer
  <2> QED BY <1>3, <1>4, <2>1, <2>2 DEF Flushing
<1>15. CASE DmaWord
  <2>1. chan.loaded # {}
    BY <1>15 DEF DmaWord, HwCanComplete
  <2>2. state # IDLE /\ proc[q].pc \notin OffSteps
    BY <1>1, <2>1 DEF NoneLeft, Quiet
  <2>3. UNCHANGED <<proc, state, written, txen, txstop, sent, cur_runs, head, tail>>
    BY <1>15 DEF DmaWord, procVars, srcVars
  <2> QED BY <1>3, <1>4, <2>2, <2>3 DEF Flushing
<1>16. CASE Irq
  <2>1. /\ proc'[q].pc = proc[q].pc \/ (proc[q].pc = "write_sleep" /\ proc'[q].pc = "write_wait")
        /\ proc'[q].n = proc[q].n
        /\ UNCHANGED <<state, written, txstop, fifo, sent, cur_runs, head>>
    BY <1>1, <1>16 DEF Irq, ProcsOK, srcVars, dacVars
  <2>2. chan.comp # {} /\ tx_exec(IrqAcknowledge(chan))
    BY <1>16 DEF Irq
  <2>3. Plain(IrqAcknowledge(chan))
    BY <1>1, PlainAcknowledge
  <2>4. (txen => txen') /\ (Q = 0 => Q' = 0)
    BY <1>1, <2>1, <2>2, <2>3, ExecKeepsOn
  <2> QED BY <1>3, <2>1, <2>4 DEF Flushing
<1>17. CASE DacSample
  <2>1. UNCHANGED <<proc, state, written, cur_runs, head, tail>> /\ txen
    BY <1>17 DEF DacSample, procVars, srcVars
  <2>2. \/ /\ fifo # <<>> /\ UNCHANGED <<txen, txstop>>
        \/ /\ fifo = <<>> /\ txstop /\ ~txstop' /\ UNCHANGED <<fifo, sent>>
    BY <1>2, <1>17 DEF DacSample
  <2>3. state = IDLE => fifo = <<>>
    BY <1>3, IdleIsEmpty DEF Flushing
  <2>4. CASE fifo # <<>>
    <3>1. UNCHANGED <<txen, txstop>> /\ state # IDLE
      BY <2>2, <2>3, <2>4
    <3> QED BY <1>3, <1>4, <2>1, <3>1 DEF Flushing
  <2>5. CASE fifo = <<>>
    <3>1. proc[q].pc \in OffSteps
      BY <1>3, <2>2, <2>5 DEF Flushing
    <3> QED BY <1>3, <1>4, <2>1, <2>2, <2>5, <3>1 DEF Flushing
  <2> QED BY <2>4, <2>5
<1>18. CASE UNCHANGED vars
  <2>1. UNCHANGED <<proc, state, written, txen, txstop, fifo, sent, cur_runs, head, tail>>
    BY <1>18 DEF vars, procVars, srcVars, dmaVars, dacVars
  <2> QED BY <1>3, <1>4, <2>1 DEF Flushing
<1> QED BY <1>5, <1>6, <1>7, <1>8, <1>9, <1>10, <1>11, <1>12, <1>13, <1>14, <1>15, <1>16, <1>17,
           <1>18 DEF Next, Operation

(* With the invariants, a step that ends fsync() with 0 finds all sent.    *)
LEMMA FlushEnds ==
  ASSUME NEW q, Procs = {q}, IInv, FlushInv, [Next]_vars, runs = 0 PROVE FlushedOnSuccess(q)
<1> SUFFICES ASSUME proc[q].pc \in FsyncSteps, proc'[q].pc = Idle, proc'[q].ret = "ok"
             PROVE  Len(sent) >= proc[q].n
  BY DEF FlushedOnSuccess
<1> USE DEF OffSteps, EmptySteps, DrainSteps, BusySteps, FsyncSteps, Idle, IDLE, TX, TX_STREAMING,
            TX_STOPPING
<1>1. /\ ProcsOK /\ Kept /\ WordsOK /\ proc[q].n \in Nat /\ q \in Procs /\ written \in Nat
      /\ state \in {IDLE, TX, TX_STREAMING, TX_STOPPING} /\ Len(sent) \in Nat
  BY DEF IInv, Kept, WordsOK, DataTypes, TypeOK, ProcsOK
<1>2. Flushing(q)
  BY <1>1 DEF FlushInv
<1>3. FsyncEnter(q) \/ FsyncTxen(q)
  <2>1. ~(CallWrite(q) \/ CallFsync(q) \/ Poll(q))
    BY DEF CallWrite, CallFsync, Call, Poll, Step
  <2>2. ~Signal(q)
    BY <1>1 DEF Signal, Return, ProcsOK
  <2>3. ~(WriteFault(q) \/ WriteEnter(q) \/ WriteCheck(q) \/ WriteWait(q) \/ WriteRedown(q)
          \/ WriteCopy(q) \/ WritePost(q))
    BY DEF WriteFault, WriteEnter, WriteCheck, WriteWait, WriteRedown, WriteCopy, WritePost, Step
  <2>4. ~(FsyncDrain(q) \/ FsyncStop(q))
    BY <1>1 DEF FsyncDrain, FsyncStop, FsyncError, Go, Return, ProcsOK
  <2>5. ~(FsyncExec(q) \/ FsyncRedown(q))
    BY <1>1 DEF FsyncExec, FsyncRedown, Go, ProcsOK
  <2>6. ~(DmaWord \/ DacSample \/ UNCHANGED vars)
    BY DEF DmaWord, DacSample, vars, procVars
  <2>7. ~Irq
    BY <1>1 DEF Irq, ProcsOK
  <2> QED BY <2>1, <2>2, <2>3, <2>4, <2>5, <2>6, <2>7 DEF Next, Operation
<1>4. CASE FsyncEnter(q)
  <2>1. proc[q].pc = "fsync_down" /\ state \notin {TX, TX_STREAMING}
    BY <1>1, <1>4 DEF FsyncEnter, Step, Go, ProcsOK
  <2> QED BY <1>1, <1>2, <2>1 DEF Flushing
<1>5. CASE FsyncTxen(q)
  <2>1. proc[q].pc = "fsync_txen" /\ ~txen
    BY <1>1, <1>5 DEF FsyncTxen, FsyncError, Step, Go, Return, ProcsOK
  <2>2. chan.loaded = {}
    BY <1>1, <2>1 DEF Kept, NoneLeft, Quiet
  <2>3. fifo = <<>> /\ Q = 0 /\ proc[q].n <= written
    BY <1>2, <2>1 DEF Flushing
  <2>4. Len(fifo) = 0
    BY <2>3
  <2> QED BY <1>1, <2>2, <2>3, <2>4, NoTransfer
<1> QED BY <1>3, <1>4, <1>5

(* One process with the file to itself: as long as there is no underrun,   *)
(* an fsync() that returns 0 has sent every word written before it was     *)
(* called.                                                                 *)
THEOREM FsyncSends == ASSUME NEW q, Procs = {q} PROVE Spec => FsyncFlushes
<1>1. Init => FlushInv
  BY DEF Init, FlushInv, Flushing, OffSteps, EmptySteps, DrainSteps, BusySteps, FsyncSteps, Idle,
     IDLE, TX_STOPPING
<1>2. IInv /\ FlushInv /\ [Next]_vars => FlushInv'
  BY FlushStep
<1>3. IInv /\ FlushInv /\ [Next]_vars => [runs = 0 => \A p \in Procs : FlushedOnSuccess(p)]_vars
  BY FlushEnds
<1> QED BY <1>1, <1>2, <1>3, Invariant, PTL DEF Spec, FsyncFlushes
=============================================================================
