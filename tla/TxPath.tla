------------------------------- MODULE TxPath -------------------------------
(***************************************************************************)
(* The transmit path of the driver: write(), fsync() and poll() of         *)
(* driver/whitebox_driver.c, the executor driver/whitebox_tx.c, the RF     *)
(* Sink and the exciter, over the User Source block and a PDMA channel.    *)
(*                                                                         *)
(* Processes run the file operations; the DMA moves one word at a time     *)
(* from the user source's memory into the exciter's FIFO; the DMA          *)
(* interrupt runs tx_dma_cb; the DAC takes a word at every sample.  A      *)
(* section the code runs with interrupts off is one step.                  *)
(*                                                                         *)
(* A word's value is its number in the stream of words ever written.       *)
(* Module parameters: check_plls = 0 and pdma_ping_pong = 0.               *)
(***************************************************************************)
EXTENDS UserSourceOps, PdmaChannel, Sequences

CONSTANTS Procs,      \* the threads that use the open file
          Syncers,    \* those among them that call fsync()
          NoProc,     \* no process
          NonBlock,   \* the values O_NONBLOCK has for the writes to the file
          FrameBytes, \* whitebox_frame_size << 2
          Threshold,  \* whitebox_user_source_buffer_threshold, in bytes
          FifoSize,   \* WE_FIFO_SIZE, in words
          AfVal,      \* the exciter's almost-full level, in words
          AutoTx,     \* module parameter auto_tx
          Counts,     \* byte counts passed to write()
          MaxWords,   \* bound: no write is called that would exceed it
          MaxRuns     \* bound: underruns in a behaviour

ASSUME ProcsAssumption == NoProc \notin Procs /\ Syncers \subseteq Procs
ASSUME FlagsAssumption == {AutoTx} \cup NonBlock \subseteq BOOLEAN
ASSUME SizesAssumption ==
  /\ FrameBytes \in Nat /\ FrameBytes % 4 = 0 /\ FrameBytes > 0
  /\ Threshold \in Nat /\ FifoSize \in Nat /\ FifoSize > 0 /\ AfVal \in 1 .. FifoSize
  /\ Counts \subseteq {n \in Nat : n % 4 = 0}
  /\ MaxWords \in Nat /\ MaxRuns \in Nat

(* Both DMA buffers together are no larger than the ring, as the default   *)
(* module parameters have it.                                              *)
ASSUME FramesAssumption == 2 * FrameBytes <= BufSize

VARIABLES state,      \* whitebox_device->state
          sem,        \* the holder of whitebox_device->sem
          cpu,        \* the process running in the kernel, which no other one preempts
          proc,       \* each process: where it is in its file operation
          head, tail, mem, \* the user source
          chan,       \* the transmit PDMA channel
          dma,        \* rf_sink->dma: for each buffer its first slot, its words, the words left
          fifo,       \* the exciter's FIFO
          txen, txstop, \* the exciter's state bits
          runs,       \* the exciter's underrun counter
          cur_runs,   \* whitebox_device->cur_underruns
          written,    \* history: words written
          sent        \* history: the words the DAC took

procVars == <<state, sem, cpu, proc>>
srcVars  == <<head, mem, written>>
dmaVars  == <<tail, chan, dma, txen>>
dacVars  == <<fifo, txstop, runs, sent>>
vars == <<procVars, srcVars, dmaVars, dacVars, cur_runs>>

IDLE == "WDS_IDLE"
TX == "WDS_TX"
TX_STREAMING == "WDS_TX_STREAMING"
TX_STOPPING == "WDS_TX_STOPPING"

(* Where a process may be.  In a "down" step it wants the semaphore.       *)
Idle      == "idle"
DownSteps == {"write_down", "write_redown", "fsync_down", "fsync_redown", "fsync_txen_redown"}
WriteSteps == {"write_down", "write_check", "write_wait", "write_sleep", "write_redown",
               "write_copy", "write_post"}
FsyncSteps == {"fsync_down", "fsync_drain", "fsync_exec", "fsync_redown", "fsync_stop",
               "fsync_txen", "fsync_txen_redown"}

Results == {"none", "ok", "EIO", "EAGAIN", "EFAULT", "ERESTARTSYS"}

----------------------------------------------------------------------------
(* Processes. *)

Step(p, from) == proc[p].pc = from /\ cpu \in {NoProc, p}

(* p goes on with step `to'; p may sleep before it; p leaves the kernel.   *)
Go(p, to) ==
  /\ proc' = [proc EXCEPT ![p].pc = to]
  /\ cpu' = p

Sleep(p, before) ==
  /\ proc' = [proc EXCEPT ![p].pc = before]
  /\ cpu' = NoProc

Return(p, result) ==
  /\ proc' = [proc EXCEPT ![p].pc = Idle, ![p].ret = result, ![p].err = FALSE]
  /\ cpu' = NoProc

(* down_interruptible, up.                                                 *)
Down(p) == sem = NoProc /\ sem' = p
Up      == sem' = NoProc

(* tx_error: it reports a changed underrun counter once.                   *)
tx_error == runs # cur_runs

----------------------------------------------------------------------------
(* The executor. *)

(* tx_start: note the underruns so far, clear the DMA channel.             *)
tx_start ==
  /\ cur_runs' = runs
  /\ chan' = pdma_clear(chan, 0)

(* _exciter_produce: turn the transmitter on when the FIFO is almost full. *)
_exciter_produce == txen' = (txen \/ (AutoTx /\ Len(fifo) >= AfVal))

whitebox_rf_sink_space_available(c) == IF AvailableResult(c) > 0 THEN FrameBytes ELSE 0

(* Start a transfer of k words from tail.                                  *)
whitebox_rf_sink_work(c, k) ==
  /\ chan' = pdma_start(c)
  /\ dma' = [dma EXCEPT ![StartResult(c)] = [src |-> WordOf(tail), count |-> k, left |-> k]]

(* A deliberate slip, for the mutants: what is freed is all the data there *)
(* is, not what the transfer takes.                                        *)
ExecFreesAll(c) ==
  LET src_count == whitebox_user_source_data_available(head, tail)
      d         == pdma_buffers_available(c)
      count     == Least(src_count, whitebox_rf_sink_space_available(c))
  IN  IF Words(count) = 0 \/ StartResult(d) \notin Buffers
      THEN chan' = d /\ UNCHANGED <<tail, dma, txen>>
      ELSE /\ whitebox_rf_sink_work(d, Words(count))
           /\ _exciter_produce
           /\ tail' = whitebox_user_source_consume(tail, src_count)

(* tx_exec on the channel state c: if there is data and a free buffer,     *)
(* start a transfer of one contiguous piece, at most a frame, and consume  *)
(* it from the user source.                                                *)
tx_exec(c) ==
  LET src_count == whitebox_user_source_data_available(head, tail)
      d         == pdma_buffers_available(c)
      count     == Least(src_count, whitebox_rf_sink_space_available(c))
  IN  IF Words(count) = 0 \/ StartResult(d) \notin Buffers
      THEN chan' = d /\ UNCHANGED <<tail, dma, txen>>
      ELSE /\ whitebox_rf_sink_work(d, Words(count))
           /\ _exciter_produce
           /\ tail' = whitebox_user_source_consume(tail, count)

----------------------------------------------------------------------------
(* whitebox_open has requested the channel, emptied the buffer and cleared *)
(* the exciter.                                                            *)
Init ==
  /\ state = IDLE /\ sem = NoProc /\ cpu = NoProc
  /\ proc = [p \in Procs |-> [pc |-> Idle, n |-> 0, err |-> FALSE, ret |-> "none"]]
  /\ head = 0 /\ tail = 0 /\ mem = [i \in Slots |-> 0]
  /\ chan = [in_use |-> TRUE, next |-> A, status |-> [b \in Buffers |-> STOPPED],
             ping_pong |-> 0, loaded |-> {}, sel |-> A, comp |-> {}]
  /\ dma = [b \in Buffers |-> [src |-> 0, count |-> 0, left |-> 0]]
  /\ fifo = <<>> /\ txen = FALSE /\ txstop = FALSE
  /\ runs = 0 /\ cur_runs = 0
  /\ written = 0 /\ sent = <<>>

(* A process calls write(n) or fsync().                                    *)
Call(p, pc, n) ==
  /\ proc[p].pc = Idle
  /\ proc' = [proc EXCEPT ![p] = [pc |-> pc, n |-> n, err |-> FALSE, ret |-> "none"]]
  /\ UNCHANGED <<state, sem, cpu, srcVars, dmaVars, dacVars, cur_runs>>

CallWrite(p) == \E n \in Counts : /\ written + Words(n) <= MaxWords
                                  /\ Call(p, "write_down", n)
CallFsync(p) == p \in Syncers /\ Call(p, "fsync_down", written)

----------------------------------------------------------------------------
(* whitebox_write *)

(* Under the semaphore: start transmitting if the device is idle, leave on *)
(* a zero count or an error.                                               *)
WriteEnter(p) ==
  LET starts == state = IDLE
      empty  == proc[p].n = 0
      fails  == ~starts /\ ~empty /\ tx_error
  IN  /\ Step(p, "write_down")
      /\ sem = NoProc
      /\ IF starts THEN state' = TX /\ tx_start
         ELSE UNCHANGED <<state, chan>> /\ cur_runs' = IF empty THEN cur_runs ELSE runs
      /\ \/ empty /\ Return(p, "ok") /\ UNCHANGED sem
         \/ fails /\ Return(p, "EIO") /\ UNCHANGED sem
         \/ ~empty /\ ~fails /\ Go(p, "write_check") /\ Down(p)
      /\ UNCHANGED <<srcVars, tail, dma, txen, dacVars>>

Space == whitebox_user_source_space_available(head, tail)

(* The loop's condition: enough contiguous space, an error, or wait.  An   *)
(* error found while waiting counts only if the loop does not call         *)
(* tx_error again, that is, if there is enough space now.  The copy may    *)
(* sleep for a page of the user's, with the semaphore held.                *)
WriteCheck(p) ==
  LET enough == Space >= proc[p].n
  IN  /\ Step(p, "write_check")
      /\ \/ /\ enough /\ ~proc[p].err
            /\ Sleep(p, "write_copy") /\ UNCHANGED <<sem, cur_runs>>
         \/ /\ enough /\ proc[p].err
            /\ Return(p, "EIO") /\ Up /\ UNCHANGED cur_runs
         \/ /\ ~enough /\ tx_error
            /\ Return(p, "EIO") /\ Up /\ cur_runs' = runs
         \/ /\ ~enough /\ ~tx_error
            /\ \/ TRUE \in NonBlock /\ Return(p, "EAGAIN")
               \/ FALSE \in NonBlock /\ Go(p, "write_wait")
            /\ Up /\ UNCHANGED cur_runs
      /\ UNCHANGED <<state, srcVars, dmaVars, dacVars>>

(* wait_event_interruptible's condition, without the semaphore; the down   *)
(* that follows sleeps if another process copies with it held.             *)
WriteWait(p) ==
  LET enough == Space >= proc[p].n
      failed == ~enough /\ tx_error
  IN  /\ Step(p, "write_wait")
      /\ cur_runs' = IF enough THEN cur_runs ELSE runs
      /\ \/ /\ enough \/ failed
            /\ proc' = [proc EXCEPT ![p].pc = "write_redown", ![p].err = failed]
            /\ cpu' = IF sem = NoProc THEN p ELSE NoProc
         \/ ~enough /\ ~failed /\ Sleep(p, "write_sleep")
      /\ UNCHANGED <<state, sem, srcVars, dmaVars, dacVars>>

WriteRedown(p) ==
  /\ Step(p, "write_redown")
  /\ Down(p)
  /\ Go(p, "write_check")
  /\ UNCHANGED <<state, srcVars, dmaVars, dacVars, cur_runs>>

(* Copy from user space, produce, release the semaphore.                   *)
WriteCopy(p) ==
  LET k == Words(proc[p].n)
  IN  /\ Step(p, "write_copy")
      /\ mem' = whitebox_user_source_work(mem, head, k, written + 1)
      /\ head' = whitebox_user_source_produce(head, proc[p].n)
      /\ written' = written + k
      /\ Up
      /\ Go(p, "write_post")
      /\ UNCHANGED <<state, dmaVars, dacVars, cur_runs>>

(* A deliberate slip: what the faulting copy did not reach is published.   *)
FaultProduces(p) ==
  /\ Step(p, "write_copy")
  /\ \E k \in 0 .. Words(proc[p].n) :
       mem' = whitebox_user_source_work(mem, head, k, written + 1)
  /\ head' = whitebox_user_source_produce(head, proc[p].n)
  /\ written' = written + Words(proc[p].n)
  /\ Up
  /\ Return(p, "EFAULT")
  /\ UNCHANGED <<state, dmaVars, dacVars, cur_runs>>

(* copy_from_user faults after some words.                                 *)
WriteFault(p) ==
  /\ Step(p, "write_copy")
  /\ \E k \in 0 .. Words(proc[p].n) :
       mem' = whitebox_user_source_work(mem, head, k, written + 1)
  /\ Up
  /\ Return(p, "EFAULT")
  /\ UNCHANGED <<state, head, written, dmaVars, dacVars, cur_runs>>

(* After the semaphore is released: run the executor if streaming, or      *)
(* start streaming once the threshold is reached.                          *)
WritePost(p) ==
  LET streams == \/ state = TX_STREAMING
                 \/ whitebox_user_source_data_total(head, tail) >= Threshold
  IN  /\ Step(p, "write_post")
      /\ IF streams THEN state' = TX_STREAMING /\ tx_exec(chan)
         ELSE UNCHANGED <<state, dmaVars>>
      /\ Return(p, "ok")
      /\ UNCHANGED <<sem, srcVars, dacVars, cur_runs>>

----------------------------------------------------------------------------
(* whitebox_fsync *)

(* A deliberate slip: the transmitter is not turned on.                    *)
FsyncEnterWithoutTxen(p) ==
  /\ Step(p, "fsync_down")
  /\ sem = NoProc
  /\ IF state \notin {TX, TX_STREAMING}
     THEN Return(p, "ok") /\ UNCHANGED <<state, sem>>
     ELSE state' = TX_STOPPING /\ Down(p) /\ Go(p, "fsync_drain")
  /\ UNCHANGED <<srcVars, dmaVars, dacVars, cur_runs>>

(* Not transmitting: nothing to do.  Otherwise turn the transmitter on.    *)
FsyncEnter(p) ==
  /\ Step(p, "fsync_down")
  /\ sem = NoProc
  /\ \/ /\ state \notin {TX, TX_STREAMING}
        /\ Return(p, "ok")
        /\ UNCHANGED <<state, sem, txen>>
     \/ /\ state \in {TX, TX_STREAMING}
        /\ state' = TX_STOPPING
        /\ txen' = TRUE
        /\ Down(p)
        /\ Go(p, "fsync_drain")
  /\ UNCHANGED <<srcVars, tail, chan, dma, dacVars, cur_runs>>

(* An error in one of fsync's loops: the state stays TX_STOPPING.          *)
FsyncError(p) == Return(p, "EIO") /\ Up /\ cur_runs' = runs

(* While there is data: run the executor without the semaphore.            *)
FsyncDrain(p) ==
  LET empty == whitebox_user_source_data_available(head, tail) = 0
  IN  /\ Step(p, "fsync_drain")
      /\ \/ empty /\ Go(p, "fsync_stop") /\ UNCHANGED <<sem, cur_runs>>
         \/ ~empty /\ tx_error /\ FsyncError(p)
         \/ ~empty /\ ~tx_error /\ Go(p, "fsync_exec") /\ Up /\ UNCHANGED cur_runs
      /\ UNCHANGED <<state, srcVars, dmaVars, dacVars>>

FsyncExec(p) ==
  /\ Step(p, "fsync_exec")
  /\ tx_exec(chan)
  /\ Go(p, "fsync_redown")
  /\ UNCHANGED <<state, sem, srcVars, dacVars, cur_runs>>

FsyncRedown(p) ==
  /\ \/ Step(p, "fsync_redown") /\ Go(p, "fsync_drain")
     \/ Step(p, "fsync_txen_redown") /\ Go(p, "fsync_txen")
  /\ Down(p)
  /\ UNCHANGED <<state, srcVars, dmaVars, dacVars, cur_runs>>

(* A deliberate slip: one stopped buffer is taken for an idle channel.     *)
StopEarly == AvailableResult(chan) >= 1

(* tx_stop succeeds, and sets TXSTOP, once both DMA buffers are stopped.   *)
tx_stop == AvailableResult(chan) = 2

FsyncStop(p) ==
  /\ Step(p, "fsync_stop")
  /\ \/ tx_stop /\ txstop' = TRUE /\ Go(p, "fsync_txen") /\ UNCHANGED <<sem, cur_runs>>
     \/ ~tx_stop /\ tx_error /\ FsyncError(p) /\ UNCHANGED txstop
     \/ ~tx_stop /\ ~tx_error /\ Go(p, "fsync_stop") /\ UNCHANGED <<sem, cur_runs, txstop>>
  /\ chan' = pdma_buffers_available(chan)
  /\ UNCHANGED <<state, srcVars, tail, dma, txen, fifo, runs, sent>>

(* Wait until the exciter has turned itself off.                           *)
FsyncTxen(p) ==
  /\ Step(p, "fsync_txen")
  /\ \/ ~txen /\ state' = IDLE /\ Return(p, "ok") /\ Up /\ UNCHANGED cur_runs
     \/ txen /\ tx_error /\ FsyncError(p) /\ UNCHANGED state
     \/ txen /\ ~tx_error /\ Go(p, "fsync_txen_redown") /\ Up /\ UNCHANGED <<state, cur_runs>>
  /\ UNCHANGED <<srcVars, dmaVars, dacVars>>

----------------------------------------------------------------------------
(* whitebox_poll: the whole of it runs under the semaphore.                *)
Poll(p) ==
  /\ Step(p, Idle)
  /\ sem = NoProc
  /\ state \in {TX, TX_STREAMING}
  /\ tx_error
  /\ cur_runs' = runs
  /\ proc' = [proc EXCEPT ![p].ret = "EIO"]
  /\ UNCHANGED <<state, sem, cpu, srcVars, dmaVars, dacVars>>

(* A signal ends a wait.                                                   *)
Signal(p) ==
  /\ \/ Step(p, "write_sleep")
     \/ sem # NoProc /\ \E s \in DownSteps : Step(p, s)
  /\ Return(p, "ERESTARTSYS")
  /\ UNCHANGED <<state, sem, srcVars, dmaVars, dacVars, cur_runs>>

----------------------------------------------------------------------------
(* The hardware and its interrupt. *)

(* The DMA moves a word of the selected buffer, as soon as the FIFO has    *)
(* room; after its last word the buffer is complete.                       *)
DmaWord ==
  LET b == chan.sel
      x == dma[b]
  IN  /\ HwCanComplete(chan)
      /\ Len(fifo) < FifoSize
      /\ fifo' = Append(fifo, mem[x.src + x.count - x.left])
      /\ dma' = [dma EXCEPT ![b].left = x.left - 1]
      /\ chan' = IF x.left = 1 THEN HwComplete(chan) ELSE chan
      /\ UNCHANGED <<procVars, srcVars, tail, txen, txstop, runs, sent, cur_runs>>

(* Deliberate slips: the next transfer is not started; nobody is woken.    *)
IrqWithoutExec ==
  /\ chan.comp # {}
  /\ chan' = IrqAcknowledge(chan)
  /\ proc' = [p \in Procs |-> IF proc[p].pc = "write_sleep"
                              THEN [proc[p] EXCEPT !.pc = "write_wait"] ELSE proc[p]]
  /\ UNCHANGED <<state, sem, cpu, srcVars, tail, dma, txen, dacVars, cur_runs>>

IrqWithoutWake ==
  /\ chan.comp # {}
  /\ tx_exec(IrqAcknowledge(chan))
  /\ UNCHANGED <<procVars, srcVars, dacVars, cur_runs>>

(* pdma_irq_cb with tx_dma_cb: acknowledge, run the executor, wake the     *)
(* writers.                                                                *)
Irq ==
  /\ chan.comp # {}
  /\ tx_exec(IrqAcknowledge(chan))
  /\ proc' = [p \in Procs |-> IF proc[p].pc = "write_sleep"
                              THEN [proc[p] EXCEPT !.pc = "write_wait"] ELSE proc[p]]
  /\ UNCHANGED <<state, sem, cpu, srcVars, dacVars, cur_runs>>

(* A sample instant of the DAC: take a word; on an empty FIFO turn off if  *)
(* told to stop, or count an underrun.                                     *)
DacSample ==
  /\ txen
  /\ \/ /\ fifo # <<>>
        /\ sent' = Append(sent, Head(fifo))
        /\ fifo' = Tail(fifo)
        /\ UNCHANGED <<txen, txstop, runs>>
     \/ /\ fifo = <<>> /\ txstop
        /\ txen' = FALSE /\ txstop' = FALSE
        /\ UNCHANGED <<fifo, sent, runs>>
     \/ /\ fifo = <<>> /\ ~txstop
        /\ runs < MaxRuns
        /\ runs' = runs + 1
        /\ UNCHANGED <<fifo, sent, txen, txstop>>
  /\ UNCHANGED <<procVars, srcVars, tail, chan, dma, cur_runs>>

----------------------------------------------------------------------------
(* The steps of a file operation that has been called.                     *)
Operation(p) ==
  \/ WriteEnter(p) \/ WriteCheck(p) \/ WriteWait(p) \/ WriteRedown(p) \/ WriteCopy(p)
  \/ WritePost(p)
  \/ FsyncEnter(p) \/ FsyncDrain(p) \/ FsyncExec(p) \/ FsyncRedown(p) \/ FsyncStop(p)
  \/ FsyncTxen(p)

Next ==
  \/ \E p \in Procs : \/ CallWrite(p) \/ CallFsync(p) \/ Poll(p) \/ Signal(p)
                      \/ WriteFault(p)
                      \/ Operation(p)
  \/ DmaWord
  \/ Irq
  \/ DacSample

Spec == Init /\ [][Next]_vars

(* A process in the kernel goes on, the DMA moves words while it can, its  *)
(* interrupt is served, and the DAC's clock runs.  Nobody has to call      *)
(* anything, and no signal has to come.                                    *)
Fairness ==
  /\ \A p \in Procs : WF_vars(Operation(p))
  /\ WF_vars(DmaWord) /\ WF_vars(Irq) /\ WF_vars(DacSample)

FairSpec == Spec /\ Fairness

----------------------------------------------------------------------------
(* Properties. *)

TypeOK ==
  /\ state \in {IDLE, TX, TX_STREAMING, TX_STOPPING}
  /\ sem \in Procs \cup {NoProc} /\ cpu \in Procs \cup {NoProc}
  /\ proc \in [Procs -> [pc : {Idle} \cup WriteSteps \cup FsyncSteps, n : Nat,
                         err : BOOLEAN, ret : Results]]
  /\ head \in 0 .. BufSize - 4 /\ tail \in 0 .. BufSize - 4
  /\ mem \in [Slots -> Nat]
  /\ chan \in Channel
  /\ dma \in [Buffers -> [src : Slots, count : Nat, left : Nat]]
  /\ fifo \in Seq(Nat) /\ Len(fifo) <= FifoSize
  /\ txen \in BOOLEAN /\ txstop \in BOOLEAN
  /\ runs \in 0 .. MaxRuns /\ cur_runs \in 0 .. MaxRuns
  /\ written \in Nat
  /\ sent \in Seq(Nat)

(* What is between tail and head is what was written last, whatever the    *)
(* interrupt, a faulting copy and other processes did: the queue loses,    *)
(* repeats and reorders nothing before the DMA takes it.                   *)
QueueIntact ==
  LET q == Words(whitebox_user_source_data_total(head, tail))
  IN  \A i \in 1 .. q :
        mem[(WordOf(tail) + i - 1) % (BufSize \div 4)] = written - q + i

(* The i-th word to reach the exciter comes from the i-th word written: no *)
(* word is dropped, sent twice or sent out of order across interrupts,     *)
(* buffer swaps and fsyncs.  tx_exec frees a word when its transfer        *)
(* starts, so the word may have been overwritten by the word one lap       *)
(* later, but by nothing else.                                             *)
NothingLostOrReordered ==
  LET stream == sent \o fifo
  IN  \A i \in 1 .. Len(stream) : stream[i] - i \in {0, BufSize \div 4}

(* Every word written is in exactly one place: sent, in the exciter's      *)
(* FIFO, in a DMA transfer under way, or queued in the user source.        *)
EveryWordAccounted ==
  written = Len(sent) + Len(fifo)
            + dma[A].left + dma[B].left
            + Words(whitebox_user_source_data_total(head, tail))

(* A process that has produced and is still on its way to tx_exec.         *)
PostPending == \E p \in Procs : proc[p].pc = "write_post"

(* While streaming, data that is queued always has a transfer before it    *)
(* whose interrupt will go on with it: unless a process is still on its    *)
(* way to tx_exec, data never waits for nothing.                           *)
QueuedDataHasATransfer ==
  (/\ state = TX_STREAMING
   /\ whitebox_user_source_data_total(head, tail) > 0
   /\ ~PostPending)
  => Started(chan) # {}

(* No lost wakeup: while the device is streaming, a writer that sleeps     *)
(* although it now has the space it waits for has an interrupt ahead of    *)
(* it.  Only the interrupt wakes, but other writers and fsync() change the *)
(* space too.                                                              *)
NoLostWakeup ==
  \A p \in Procs :
    proc[p].pc = "write_sleep" /\ Space >= proc[p].n /\ state = TX_STREAMING
      => Started(chan) # {} \/ PostPending

(* As long as there was no underrun, fsync() returning 0 means that every  *)
(* word written before the call has gone out through the DAC, although the *)
(* call looks at the buffer, the DMA and the exciter one after the other.  *)
FlushedOnSuccess(p) ==
  proc[p].pc \in FsyncSteps /\ proc'[p].pc = Idle /\ proc'[p].ret = "ok"
    => Len(sent) >= proc[p].n

FsyncFlushes == [][runs = 0 => \A p \in Procs : FlushedOnSuccess(p)]_vars

(* fsync() comes back: none of its three busy-waiting loops runs forever.  *)
FsyncReturns == \A p \in Procs : proc[p].pc \in FsyncSteps ~> proc[p].pc = Idle

(* A blocked write() is woken and gets on.                                 *)
WriterWakes == \A p \in Procs : proc[p].pc = "write_sleep" ~> proc[p].pc # "write_sleep"

(* What the sources say, and the code does not do. *)

(* The words leave the DAC as they were written.                           *)
StreamIntact == \A i \in 1 .. Len(sent) : sent[i] = i
=============================================================================
