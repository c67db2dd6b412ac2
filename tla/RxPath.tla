------------------------------- MODULE RxPath -------------------------------
(***************************************************************************)
(* The receive path of the driver: read(), fsync(), poll() and the         *)
(* mmap_read, clear and reset ioctls of driver/whitebox_driver.c, the      *)
(* executor driver/whitebox_rx.c, the RF Source and the receiver, over the *)
(* User Sink block and a PDMA channel.                                     *)
(*                                                                         *)
(* The ADC puts samples into the receiver's FIFO, the DMA moves them one   *)
(* at a time into the user sink's memory, the DMA interrupt runs rx_dma_cb *)
(* and wakes the readers.  A section the code runs with interrupts off is  *)
(* one step; the kernel does not preempt a process (see TxPath).           *)
(*                                                                         *)
(* The samples' values are left out: which words of the ring are published *)
(* and which the DMA writes is what matters.  Module parameters:           *)
(* check_plls = 0, loopen = 0 and pdma_ping_pong = 0.                      *)
(***************************************************************************)
EXTENDS UserSinkOps, PdmaChannel

CONSTANTS Procs,      \* the threads that use the open file
          Syncers,    \* those among them that call fsync()
          Clearers,   \* those that call the clear and reset ioctls
          NoProc,     \* no process
          NonBlock,   \* the values O_NONBLOCK has for the file
          FrameBytes, \* whitebox_frame_size << 2
          FifoSize,   \* the receiver's FIFO, in words
          Counts,     \* byte counts passed to read()
          RunsModulus \* the receiver's overrun counter wraps here (2^16)

ASSUME ProcsAssumption == NoProc \notin Procs /\ Syncers \cup Clearers \subseteq Procs
ASSUME SizesAssumption ==
  /\ NonBlock \subseteq BOOLEAN
  /\ FrameBytes \in Nat /\ FrameBytes % 4 = 0 /\ FrameBytes > 4
  /\ FifoSize \in Nat \ {0} /\ RunsModulus \in Nat \ {0, 1}
  /\ Counts \subseteq {n \in Nat : n % 4 = 0}

VARIABLES state,      \* whitebox_device->state
          sem,        \* the holder of whitebox_device->sem
          cpu,        \* the process running in the kernel
          proc,       \* each process: where it is in its file operation
          head, tail, \* the user sink
          chan,       \* the receive PDMA channel
          dma,        \* rf_source->dma: first slot, byte count, words left
          fifo,       \* words in the receiver's FIFO
          rxen,       \* the receiver's RXEN bit
          runs,       \* its overrun counter
          cur_runs,   \* whitebox_device->cur_overruns
          unread      \* history: bytes produced and not consumed

procVars == <<state, sem, cpu, proc>>
ringVars == <<head, tail, unread>>
dmaVars  == <<chan, dma>>
rcvVars  == <<fifo, rxen, runs>>
vars == <<procVars, ringVars, dmaVars, rcvVars, cur_runs>>

IDLE == "WDS_IDLE"
RX_STREAMING == "WDS_RX_STREAMING"
TX == "WDS_TX"

Idle == "idle"
ReadSteps == {"read_down", "read_crank", "read_spin", "read_exec", "read_redown",
              "read_check", "read_reexec", "read_wait", "read_sleep", "read_copy",
              "read_done"}
MmapSteps == {"mmap_down", "mmap_crank", "mmap_stream", "mmap_count"}
DownSteps == {"read_down", "read_redown", "mmap_down", "fsync_down"}
Results == {"none", "ok", "EIO", "EAGAIN", "EFAULT", "EBUSY", "EBADFD", "ERESTARTSYS", "BUG"}

----------------------------------------------------------------------------
(* Processes. *)

Step(p, from) == proc[p].pc = from /\ cpu \in {NoProc, p}

Go(p, to) == proc' = [proc EXCEPT ![p].pc = to] /\ cpu' = p
Sleep(p, to) == proc' = [proc EXCEPT ![p].pc = to] /\ cpu' = NoProc

Return(p, result) ==
  /\ proc' = [proc EXCEPT ![p].pc = Idle, ![p].ret = result]
  /\ cpu' = NoProc

Down(p) == sem = NoProc /\ sem' = p
Up      == sem' = NoProc

(* rx_error: it reports a changed overrun counter once.                    *)
rx_error == runs # cur_runs

Data == whitebox_user_sink_data_available(head, tail)

----------------------------------------------------------------------------
(* The executor. *)

(* A deliberate slip: the last word of the frame is kept back, as in a     *)
(* ring.                                                                   *)
FrameLessAWord(c) == IF AvailableResult(c) > 0 THEN FrameBytes - 4 ELSE 0

whitebox_rf_source_data_available(c) == IF AvailableResult(c) > 0 THEN FrameBytes ELSE 0

(* Start a transfer of count bytes to the head h; the bytes it will have   *)
(* brought when it is done.                                                *)
whitebox_rf_source_work(c, h, count) ==
  /\ chan' = pdma_start(c)
  /\ dma' = [dma EXCEPT ![StartResult(c)] =
               [dest |-> WordOf(h), count |-> count, left |-> Words(count)]]

whitebox_rf_source_work_done(b) == dma[b].count

(* rx_exec on the channel state c, with head at h: if a buffer is free and *)
(* more than one word fits, start a transfer of at most a frame to head.   *)
(* head stays: it moves when the transfer is done.                         *)
rx_exec(c, h) ==
  LET src_count  == whitebox_rf_source_data_available(c)
      dest_count == whitebox_user_sink_space_available(h, tail)
      count      == Least(src_count, dest_count)
      d          == pdma_buffers_available(c)
  IN  IF Words(src_count) = 0 \/ Words(dest_count) <= 1 \/ StartResult(d) \notin Buffers
      THEN chan' = d /\ UNCHANGED dma
      ELSE whitebox_rf_source_work(d, h, count)

(* WS_CLEAR empties the receiver: FIFO, counters and RXEN (external).      *)
Clear == fifo' = 0 /\ runs' = 0

(* rx_start: clear DMA and receiver, note the overruns, turn it on.        *)
rx_start ==
  /\ chan' = pdma_clear(chan, 0)
  /\ Clear
  /\ cur_runs' = 0
  /\ rxen' = TRUE

(* rx_stop: clear receiver and DMA; head and tail stay.                    *)
rx_stop ==
  /\ chan' = pdma_clear(chan, 0)
  /\ Clear
  /\ rxen' = FALSE

----------------------------------------------------------------------------
(* whitebox_open has requested the channel and emptied the buffer.         *)
Init ==
  /\ state = IDLE /\ sem = NoProc /\ cpu = NoProc
  /\ proc = [p \in Procs |-> [pc |-> Idle, n |-> 0, nb |-> FALSE, cranks |-> 0,
                              ret |-> "none"]]
  /\ head = 0 /\ tail = 0 /\ unread = 0
  /\ chan = [in_use |-> TRUE, next |-> A, status |-> [b \in Buffers |-> STOPPED],
             ping_pong |-> 0, loaded |-> {}, sel |-> A, comp |-> {}]
  /\ dma = [b \in Buffers |-> [dest |-> 0, count |-> 0, left |-> 0]]
  /\ fifo = 0 /\ rxen = FALSE /\ runs = 0 /\ cur_runs = 0

Call(p, pc, n, nb) ==
  /\ proc[p].pc = Idle /\ proc[p].ret # "BUG"
  /\ proc' = [proc EXCEPT ![p] = [pc |-> pc, n |-> n, nb |-> nb, cranks |-> 0,
                                  ret |-> "none"]]
  /\ UNCHANGED <<state, sem, cpu, ringVars, dmaVars, rcvVars, cur_runs>>

CallRead(p)  == \E n \in Counts, nb \in NonBlock : Call(p, "read_down", n, nb)
CallMmap(p)  == Call(p, "mmap_down", 0, TRUE)
CallFsync(p) == p \in Syncers /\ Call(p, "fsync_down", 0, FALSE)

----------------------------------------------------------------------------
(* whitebox_read *)

(* Under the semaphore, which is given up at once: refuse while the device *)
(* transmits, start receiving if it is idle.                               *)
ReadEnter(p) ==
  /\ Step(p, "read_down")
  /\ sem = NoProc
  /\ \/ state = TX /\ Return(p, "EBUSY") /\ UNCHANGED state
     \/ state # TX /\ proc[p].n = 0 /\ Return(p, "ok") /\ UNCHANGED state
     \/ state = IDLE /\ proc[p].n # 0 /\ Go(p, "read_crank") /\ state' = RX_STREAMING
     \/ state = RX_STREAMING /\ proc[p].n # 0 /\ Go(p, "read_exec") /\ UNCHANGED state
  /\ UNCHANGED <<sem, ringVars, dmaVars, rcvVars, cur_runs>>

(* rx_crank: start, and run the executor twice, each with interrupts off   *)
(* on its own; then, unless the file is nonblocking, spin until there is   *)
(* data.  The process keeps the processor all the while.                   *)
RxCrank(p) ==
  /\ \/ Step(p, "read_crank") \/ Step(p, "mmap_crank")
  /\ \/ /\ proc[p].cranks = 0
        /\ rx_start
        /\ UNCHANGED dma
     \/ /\ proc[p].cranks \in {1, 2}
        /\ rx_exec(chan, head)
        /\ UNCHANGED <<rcvVars, cur_runs>>
  /\ proc' = [proc EXCEPT ![p].cranks = (@ + 1) % 3,
                          ![p].pc = IF proc[p].cranks < 2 THEN @
                                    ELSE IF @ = "mmap_crank" THEN "mmap_count"
                                    ELSE IF proc[p].nb THEN "read_redown" ELSE "read_spin"]
  /\ cpu' = p
  /\ UNCHANGED <<state, sem, ringVars>>

ReadSpin(p) ==
  /\ Step(p, "read_spin")
  /\ whitebox_user_sink_data_total(head, tail) > 0
  /\ Go(p, "read_redown")
  /\ UNCHANGED <<state, sem, ringVars, dmaVars, rcvVars, cur_runs>>

(* rx_exec, on entry while streaming and again before every wait.          *)
ReadExec(p) ==
  /\ \/ Step(p, "read_exec") /\ Go(p, "read_redown")
     \/ Step(p, "read_reexec") /\ Go(p, "read_wait")
  /\ rx_exec(chan, head)
  /\ UNCHANGED <<state, sem, ringVars, rcvVars, cur_runs>>

ReadRedown(p) ==
  /\ Step(p, "read_redown")
  /\ Down(p)
  /\ Go(p, "read_check")
  /\ UNCHANGED <<state, ringVars, dmaVars, rcvVars, cur_runs>>

(* The loop's condition asks rx_error again: an error the wait saw is      *)
(* forgotten unless there is a new one.                                    *)
ReadCheck(p) ==
  /\ Step(p, "read_check")
  /\ \/ rx_error /\ Return(p, "EIO") /\ Up
     \/ ~rx_error /\ Data >= proc[p].n /\ Go(p, "read_copy") /\ UNCHANGED sem
     \/ ~rx_error /\ Data < proc[p].n /\ proc[p].nb /\ Return(p, "EAGAIN") /\ Up
     \/ ~rx_error /\ Data < proc[p].n /\ ~proc[p].nb /\ Go(p, "read_reexec") /\ Up
  /\ cur_runs' = runs
  /\ UNCHANGED <<state, ringVars, dmaVars, rcvVars>>

(* wait_event_interruptible's condition, without the semaphore; the down   *)
(* that follows sleeps if another process copies with it held.             *)
ReadWait(p) ==
  /\ Step(p, "read_wait")
  /\ \/ /\ Data >= proc[p].n \/ rx_error
        /\ proc' = [proc EXCEPT ![p].pc = "read_redown"]
        /\ cpu' = IF sem = NoProc THEN p ELSE NoProc
     \/ Data < proc[p].n /\ ~rx_error /\ Sleep(p, "read_sleep")
  /\ cur_runs' = IF Data >= proc[p].n THEN cur_runs ELSE runs
  /\ UNCHANGED <<state, sem, ringVars, dmaVars, rcvVars>>

(* copy_to_user: it may sleep in a page fault with the semaphore held, and *)
(* it may fail.                                                            *)
ReadCopy(p) ==
  /\ Step(p, "read_copy")
  /\ \/ Go(p, "read_done") \/ Sleep(p, "read_done")
  /\ UNCHANGED <<state, sem, ringVars, dmaVars, rcvVars, cur_runs>>

ReadFault(p) ==
  /\ Step(p, "read_copy")
  /\ Return(p, "EFAULT")
  /\ Up
  /\ UNCHANGED <<state, ringVars, dmaVars, rcvVars, cur_runs>>

(* A deliberate slip: all the contiguous data is consumed.                 *)
DoneConsumesAll(p) ==
  /\ Step(p, "read_done")
  /\ tail' = whitebox_user_sink_consume(tail, Data)
  /\ unread' = unread - proc[p].n
  /\ Up
  /\ Return(p, "ok")
  /\ UNCHANGED <<state, head, dmaVars, rcvVars, cur_runs>>

ReadDone(p) ==
  /\ Step(p, "read_done")
  /\ tail' = whitebox_user_sink_consume(tail, proc[p].n)
  /\ unread' = unread - proc[p].n
  /\ Up
  /\ Return(p, "ok")
  /\ UNCHANGED <<state, head, dmaVars, rcvVars, cur_runs>>

----------------------------------------------------------------------------
(* The ioctls, fsync and poll. *)

(* whitebox_ioctl_mmap_read: start receiving or go on; BUG() if the state  *)
(* says streaming and the receiver is off.                                 *)
MmapEnter(p) ==
  /\ Step(p, "mmap_down")
  /\ sem = NoProc
  /\ \/ state = IDLE /\ state' = RX_STREAMING /\ Go(p, "mmap_crank")
     \/ state = RX_STREAMING /\ Go(p, "mmap_stream") /\ UNCHANGED state
     \/ state = TX /\ Return(p, "EBADFD") /\ UNCHANGED state
  /\ UNCHANGED <<sem, ringVars, dmaVars, rcvVars, cur_runs>>

MmapStream(p) ==
  /\ Step(p, "mmap_stream")
  /\ \/ ~rxen /\ Return(p, "BUG") /\ UNCHANGED dmaVars
     \/ rxen /\ rx_exec(chan, head) /\ Go(p, "mmap_count")
  /\ UNCHANGED <<state, sem, ringVars, rcvVars, cur_runs>>

MmapCount(p) ==
  /\ Step(p, "mmap_count")
  /\ Return(p, IF rx_error THEN "EIO" ELSE "ok")
  /\ cur_runs' = runs
  /\ UNCHANGED <<state, sem, ringVars, dmaVars, rcvVars>>

(* whitebox_fsync on the receive side: everything under the semaphore.     *)
FsyncRx(p) ==
  /\ Step(p, "fsync_down")
  /\ sem = NoProc
  /\ \/ state = RX_STREAMING /\ rx_stop /\ state' = IDLE
     \/ state # RX_STREAMING /\ UNCHANGED <<state, chan, rcvVars>>
  /\ Return(p, "ok")
  /\ UNCHANGED <<sem, ringVars, dma, cur_runs>>

(* whitebox_poll while receiving: like the loops, it takes an error away.  *)
Poll(p) ==
  /\ proc[p].pc = Idle /\ cpu = NoProc /\ sem = NoProc
  /\ state = RX_STREAMING
  /\ rx_error
  /\ cur_runs' = runs
  /\ proc' = [proc EXCEPT ![p].ret = "EIO"]
  /\ UNCHANGED <<state, sem, cpu, ringVars, dmaVars, rcvVars>>

(* The WR_CLEAR ioctl, and W_RESET, which leaves the DMA alone.  Neither   *)
(* takes the semaphore or looks at the state.                              *)
ReceiverClear(p) ==
  /\ p \in Clearers /\ proc[p].pc = Idle /\ cpu = NoProc
  /\ Clear /\ rxen' = FALSE
  /\ \/ chan' = pdma_clear(chan, 0)
     \/ UNCHANGED chan
  /\ UNCHANGED <<procVars, ringVars, dma, cur_runs>>

(* write() and fsync() of the transmit path, as this path sees them.       *)
Transmit ==
  /\ cpu = NoProc /\ sem = NoProc
  /\ \/ state = IDLE /\ state' = TX
     \/ state = TX /\ state' = IDLE
  /\ UNCHANGED <<sem, cpu, proc, ringVars, dmaVars, rcvVars, cur_runs>>

(* A signal ends a wait.                                                   *)
Signal(p) ==
  /\ \/ Step(p, "read_sleep")
     \/ sem # NoProc /\ \E s \in DownSteps : Step(p, s)
  /\ Return(p, "ERESTARTSYS")
  /\ UNCHANGED <<state, sem, ringVars, dmaVars, rcvVars, cur_runs>>

----------------------------------------------------------------------------
(* The hardware and its interrupt. *)

(* A sample of the ADC: into the FIFO, or lost as an overrun.              *)
AdcSample ==
  /\ rxen
  /\ \/ fifo < FifoSize /\ fifo' = fifo + 1 /\ UNCHANGED runs
     \/ fifo = FifoSize /\ runs' = (runs + 1) % RunsModulus /\ UNCHANGED fifo
  /\ UNCHANGED <<procVars, ringVars, dmaVars, rxen, cur_runs>>

(* The DMA moves a word into the selected buffer's place in the ring.      *)
DmaWord ==
  LET b == chan.sel
      x == dma[b]
  IN  /\ HwCanComplete(chan)
      /\ fifo > 0 /\ fifo' = fifo - 1
      /\ dma' = [dma EXCEPT ![b].left = x.left - 1]
      /\ chan' = IF x.left = 1 THEN HwComplete(chan) ELSE chan
      /\ UNCHANGED <<procVars, ringVars, rxen, runs, cur_runs>>

(* A deliberate slip: the interrupt wakes nobody.                          *)
IrqWithoutWake ==
  LET buf   == IF B \in chan.comp THEN B ELSE A
      count == whitebox_rf_source_work_done(buf)
      h     == whitebox_user_sink_produce(head, count)
  IN  /\ chan.comp # {}
      /\ head' = h
      /\ unread' = unread + WordAligned(count)
      /\ rx_exec(IrqAcknowledge(chan), h)
      /\ UNCHANGED <<procVars, tail, rcvVars, cur_runs>>

(* pdma_irq_cb with rx_dma_cb: acknowledge every completion, produce the   *)
(* count of one buffer, run the executor once, wake the readers.           *)
Irq ==
  LET buf   == IF B \in chan.comp THEN B ELSE A
      count == whitebox_rf_source_work_done(buf)
      h     == whitebox_user_sink_produce(head, count)
  IN  /\ chan.comp # {}
      /\ head' = h
      /\ unread' = unread + WordAligned(count)
      /\ rx_exec(IrqAcknowledge(chan), h)
      /\ proc' = [p \in Procs |-> IF proc[p].pc = "read_sleep"
                                  THEN [proc[p] EXCEPT !.pc = "read_wait"] ELSE proc[p]]
      /\ UNCHANGED <<state, sem, cpu, tail, rcvVars, cur_runs>>

----------------------------------------------------------------------------
Operation(p) ==
  \/ ReadEnter(p) \/ RxCrank(p) \/ ReadSpin(p) \/ ReadExec(p) \/ ReadRedown(p)
  \/ ReadCheck(p) \/ ReadWait(p) \/ ReadCopy(p) \/ ReadDone(p)
  \/ MmapEnter(p) \/ MmapStream(p) \/ MmapCount(p) \/ FsyncRx(p)

Next ==
  \/ \E p \in Procs : \/ CallRead(p) \/ CallMmap(p) \/ CallFsync(p) \/ Poll(p)
                      \/ ReceiverClear(p) \/ Signal(p) \/ ReadFault(p)
                      \/ Operation(p)
  \/ Transmit
  \/ AdcSample \/ DmaWord \/ Irq

Spec == Init /\ [][Next]_vars

(* A process in the kernel goes on, the ADC's clock runs, the DMA moves    *)
(* words while it can and its interrupt is served.                         *)
Fairness ==
  /\ \A p \in Procs : WF_vars(Operation(p))
  /\ WF_vars(AdcSample) /\ WF_vars(DmaWord) /\ WF_vars(Irq)

FairSpec == Spec /\ Fairness

----------------------------------------------------------------------------
(* Properties. *)

TypeOK ==
  /\ state \in {IDLE, RX_STREAMING, TX}
  /\ sem \in Procs \cup {NoProc} /\ cpu \in Procs \cup {NoProc}
  /\ proc \in [Procs -> [pc : {Idle, "fsync_down"} \cup ReadSteps \cup MmapSteps,
                         n : Counts \cup {0}, nb : BOOLEAN, cranks : 0 .. 2, ret : Results]]
  /\ head \in 0 .. SinkSize - 4 /\ tail \in 0 .. SinkSize - 4
  /\ unread \in Nat
  /\ chan \in Channel
  /\ dma \in [Buffers -> [dest : SinkSlots, count : 0 .. FrameBytes, left : Nat]]
  /\ fifo \in 0 .. FifoSize /\ rxen \in BOOLEAN
  /\ runs \in 0 .. RunsModulus - 1 /\ cur_runs \in 0 .. RunsModulus - 1

(* The reader is never lapped: what is between tail and head is exactly    *)
(* what was produced and not consumed, although two transfers are started  *)
(* from one look at the ring and both are produced later.                  *)
RingAccounting == unread = whitebox_user_sink_data_total(head, tail)

(* head stays on a frame boundary.  rx_exec starts nothing when a single   *)
(* word is left before the end of the ring, so a head that came to stand   *)
(* there would stop reception for good.                                    *)
HeadOnFrame == head % FrameBytes = 0

(* The words the DMA has still to write for buffer b.                      *)
TransferWords(b) ==
  LET end == dma[b].dest + Words(dma[b].count)
  IN  (end - dma[b].left) .. (end - 1)

(* A process is still turning the receiver on.                             *)
Cranking == \E p \in Procs : proc[p].pc \in {"read_crank", "mmap_crank"}

(* An fsync() or an ioctl has turned the receiver off.                     *)
TurnedOff == ~rxen /\ ~Cranking

(* While the device receives, a reader that sleeps has a transfer under    *)
(* way whose interrupt will wake it, although flow control, coalesced      *)
(* completions and other readers decide when transfers are started.        *)
SleeperHasATransfer ==
  \A p \in Procs : proc[p].pc = "read_sleep" /\ ~TurnedOff /\ ~Cranking
                    => Started(chan) # {}

(* A read comes back, the spin in rx_crank included, unless the receiver   *)
(* is turned off under it.                                                 *)
ReadReturns ==
  \A p \in Procs : proc[p].pc \in ReadSteps \ {"read_down"}
                    ~> proc[p].pc = Idle \/ TurnedOff

(* What the sources say, and the code does not do. *)

(* What a reader copies is not being written: no word of a transfer under  *)
(* way lies in the data a process is copying to user space.                *)
CopyIsStable ==
  \A p \in Procs, b \in Buffers :
    proc[p].pc = "read_done" /\ b \in chan.loaded
      => whitebox_user_sink_work(tail, Words(proc[p].n)) \cap TransferWords(b) = {}

(* While the state says the device is receiving, the receiver is on: BUG() *)
(* is not reached.                                                         *)
NoBug == \A p \in Procs : proc[p].ret # "BUG"
=============================================================================
