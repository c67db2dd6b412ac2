------------------------------ MODULE Exciter ------------------------------
(***************************************************************************)
(* The exciter in the FPGA, register by register, and the way the driver   *)
(* uses it: the bus controller and synchronizer of hdl/rfe.py, the reset   *)
(* controller of hdl/whitebox.py, the FIFO of hdl/fifo.py, the consumer,   *)
(* sampler and sample chain of hdl/duc.py.                                 *)
(*                                                                         *)
(* Two clocks tick: pclk (the bus) and dac_clock, with at least one tick   *)
(* of pclk between two of dac_clock, which is slower.  A tick computes     *)
(* every register of its clock from the values before it.  A flag crosses  *)
(* from one clock to the other through two registers, <<first, second>>.   *)
(*                                                                         *)
(* A sample is the tag "word", the end of the burst the tag "last".  The   *)
(* chain is that of the filter (FILTEREN): the interpolator and one stage  *)
(* for all those after it.  What the driver does is one burst after        *)
(* another: CLEAR, fill by DMA, TXEN, TXSTOP, wait for TXEN to go off.     *)
(* TxPath has the driver in detail and the exciter as one action.          *)
(***************************************************************************)
EXTENDS Integers, Sequences, FiniteSets

CONSTANTS Depth,       \* words the FIFO holds
          Interp,      \* DAC samples for a word
          ClearTicks,  \* clear_count (16 in the code)
          WriteAdj,    \* ticks of pclk the DMA waits after a write (10 in the code)
          MaxWords     \* bound: words of a burst

(* The FIFO gives a word three ticks after it is asked: with a smaller     *)
(* interpolation `done` overtakes it.                                      *)
ASSUME InterpAssumption == Interp \in Nat /\ Interp >= 4
ASSUME DepthAssumption == Depth \in Nat \ {0} /\ MaxWords \in Nat

(* The reset lasts, and the DMA waits, long enough for a flag to cross.    *)
ASSUME TicksAssumption == ClearTicks \in Nat \ {0} /\ WriteAdj \in Nat /\ WriteAdj >= 2

VARIABLES
  \* pclk
  bus,          \* the access: its phase and what it is
  txen, txstop, \* the flags of the status register
  clear_enable,
  ackn,         \* <<sync_clearn, clear_ackn>>
  txlast,       \* <<sync_txlast, txlast>>
  dmaready,     \* tx_dmaready
  full,         \* the FIFO's full flag
  \* dac_clock
  clearn, reset,  \* the reset line, and its controller [state, count]
  clear_en,       \* <<sync_clear_en, clear_en>>
  fifo,           \* words in the FIFO's memory
  duc,            \* the registers that clearn resets
  lap,            \* pclk has ticked since dac_clock did
  \* the driver and the DMA
  cpu,          \* what the driver is doing
  val,          \* the status register as the driver last read it
  todo, adj,    \* words the DMA has to write; ticks it still waits
  given, sent   \* history: words of this burst the DMA wrote, and the DAC got

pclkVars == <<txen, txstop, clear_enable, ackn, txlast, dmaready, full>>
dacVars == <<clearn, reset, clear_en, duc>>
cpuVars == <<cpu, val, todo, given>>
vars == <<bus, pclkVars, dacVars, fifo, lap, cpuVars, adj, sent>>

Tags == {"none", "word", "last"}

(* The registers of duc.py and of the FIFO's read side after a reset.      *)
DucReset == [txen |-> <<FALSE, FALSE>>, txstop |-> <<FALSE, FALSE>>,
             interp_counter |-> 0, done |-> FALSE, fifo_re |-> FALSE,
             empty |-> TRUE, pipe |-> <<"none", "none", "none">>,
             sample |-> "none", cnt |-> 0, cic |-> "none", out |-> "none"]
dac_last == duc.out = "last"

Init ==
  /\ bus = [phase |-> "IDLE", op |-> "none"]
  /\ txen = FALSE /\ txstop = FALSE /\ clear_enable = FALSE
  /\ ackn = <<TRUE, TRUE>> /\ txlast = <<FALSE, FALSE>>
  /\ dmaready = FALSE /\ full = FALSE
  /\ clearn = FALSE /\ reset = [state |-> "CLEAR", count |-> 0]
  /\ clear_en = <<FALSE, FALSE>>
  /\ fifo = 0 /\ duc = DucReset /\ lap = TRUE
  /\ cpu = "clearing" /\ val = {} /\ todo = 0 /\ adj = 0 /\ given = 0 /\ sent = 0

----------------------------------------------------------------------------
(* pclk *)

Mask == CASE cpu = "clear_wr" -> {"CLEAR"}
          [] cpu = "txen_wr"  -> {"TXEN"}
          [] cpu = "stop_wr"  -> {"TXSTOP"}
          [] OTHER -> {}
Status == {b \in {"TXEN", "CLEAR"} : IF b = "TXEN" THEN txen ELSE ~clearn}

(* The flags of the status register: a clear that has been acknowledged    *)
(* resets them, the last sample turns the transmitter off, and a write     *)
(* (of the bits in `written`) wins over both.  CLEAR and then TXSTOP hide  *)
(* the other bits of the word written.                                     *)
controller(written) ==
  LET off == ~ackn[2] \/ txlast[2]
  IN  /\ clear_enable' = IF "CLEAR" \in written THEN TRUE ELSE clear_enable /\ ackn[2]
      /\ txstop' = IF "CLEAR" \notin written /\ "TXSTOP" \in written
                   THEN TRUE ELSE txstop /\ ~off
      /\ txen' = IF written \cap {"CLEAR", "TXSTOP"} = {} /\ written # {}
                 THEN "TXEN" \in written ELSE txen /\ ~off

(* The driver goes on when its access is over.                             *)
Returned ==
  IF bus.op \in {"none", "sample"} THEN cpu
  ELSE CASE cpu = "clear_rd" -> "clear_wr"
         [] cpu = "clear_wr" -> "clearing"
         [] cpu = "txen_rd"  -> "txen_wr"
         [] cpu = "txen_wr"  -> "sending"
         [] cpu = "stop_rd"  -> "stop_wr"
         [] cpu = "stop_wr"  -> "stopping"
         [] cpu = "stopping" -> IF "TXEN" \in val THEN "stopping" ELSE "off"

(* A tick of pclk: the access moves on by one phase.  A sample is offered  *)
(* to the FIFO in ACCESS, unless the FIFO is full, and written one tick    *)
(* later; `full` is computed before that write, `dmaready` a tick after    *)
(* `full`.                                                                 *)
PclkTick ==
  LET access == bus.phase = "ACCESS"
      done == bus.phase = "DONE"
  IN  /\ lap' = TRUE
      /\ ackn' = <<clearn, ackn[1]>>
      /\ txlast' = <<dac_last, txlast[1]>>
      /\ dmaready' = ~full
      /\ controller(IF access /\ bus.op = "write" THEN val \cup Mask ELSE {})
      /\ full' = (clearn /\ fifo >= Depth)
      /\ fifo' = IF done /\ bus.op = "sample" /\ bus.we /\ clearn /\ fifo < Depth
                 THEN fifo + 1 ELSE fifo
      /\ bus' = CASE bus.phase = "IDLE"   -> bus
                  [] bus.phase = "SETUP"  -> [bus EXCEPT !.phase = "ACCESS"]
                  [] bus.phase = "ACCESS" ->
                       [phase |-> "DONE", op |-> bus.op, we |-> bus.op = "sample" /\ ~full]
                  [] bus.phase = "DONE"   -> [phase |-> "IDLE", op |-> "none"]
      /\ val' = IF access /\ bus.op = "read" THEN Status ELSE val
      /\ cpu' = IF done THEN Returned ELSE cpu
      /\ adj' = IF done /\ bus.op = "sample" THEN WriteAdj ELSE IF adj > 0 THEN adj - 1 ELSE 0
      /\ UNCHANGED <<dacVars, todo, given, sent>>

----------------------------------------------------------------------------
(* dac_clock *)

(* A deliberate slip: the counter is loaded with one too many.             *)
ConsumerCountsInterp(d) ==
  IF ~d.txen[2] THEN d
  ELSE IF d.interp_counter # 0
  THEN [d EXCEPT !.interp_counter = @ - 1, !.fifo_re = FALSE]
  ELSE [d EXCEPT !.interp_counter = Interp,
                 !.done = d.empty /\ d.txstop[2], !.fifo_re = ~d.empty]

(* Every Interp ticks a word is asked of the FIFO.  When it is empty the   *)
(* burst is done if TXSTOP is set; if not, that is an underrun.            *)
consumer(d) ==
  IF ~d.txen[2] THEN d
  ELSE IF d.interp_counter # 0
  THEN [d EXCEPT !.interp_counter = @ - 1, !.fifo_re = FALSE]
  ELSE [d EXCEPT !.interp_counter = Interp - 1,
                 !.done = d.empty /\ d.txstop[2], !.fifo_re = ~d.empty]

(* A deliberate slip: the last sample is not valid, and no stage of the    *)
(* chain passes it on.                                                     *)
SamplerLastNotValid(d) == IF d.txen[2] /\ ~d.done THEN d.pipe[3] ELSE "none"

sampler(d) ==
  IF ~d.txen[2] THEN "none"
  ELSE IF d.done THEN "last"
  ELSE d.pipe[3]

(* The interpolator keeps its `last` until the next sample or the end of   *)
(* the samples it makes of this one.                                       *)
interpolate(d) ==
  IF d.sample # "none" THEN d.sample
  ELSE IF d.cnt > 0 /\ d.cic = "last" THEN "last" ELSE "none"

(* The synchronizer, consumer, FIFO read pipe, sampler and chain.          *)
DucStep ==
  [consumer(duc) EXCEPT
     !.txen   = <<txen, duc.txen[1]>>,
     !.txstop = <<txstop, duc.txstop[1]>>,
     !.empty  = (fifo = 0),
     !.pipe   = <<IF duc.fifo_re /\ fifo > 0 THEN "word" ELSE "none", duc.pipe[1], duc.pipe[2]>>,
     !.sample = sampler(duc),
     !.cnt    = IF duc.sample # "none" THEN Interp - 1 ELSE IF duc.cnt > 0 THEN duc.cnt - 1 ELSE 0,
     !.cic    = interpolate(duc),
     !.out    = duc.cic]

(* A deliberate slip: RUN does not raise clearn.                           *)
ResetStays ==
  /\ clear_en' = <<clear_enable, clear_en[1]>>
  /\ clearn' = (clearn /\ reset.state # "CLEAR")
  /\ reset' = CASE reset.state = "CLEAR" -> [state |-> "CLEARING", count |-> ClearTicks]
                [] reset.state = "CLEARING" ->
                     IF reset.count = 0 THEN [state |-> "RUN", count |-> 0]
                     ELSE [reset EXCEPT !.count = @ - 1]
                [] reset.state = "RUN" -> IF clear_en[2] THEN [reset EXCEPT !.state = "CLEAR"] ELSE reset

(* The reset controller holds clearn low while it counts.                  *)
whitebox_reset ==
  /\ clear_en' = <<clear_enable, clear_en[1]>>
  /\ clearn' = (IF reset.state = "RUN" THEN TRUE ELSE clearn /\ reset.state # "CLEAR")
  /\ reset' = CASE reset.state = "CLEAR" -> [state |-> "CLEARING", count |-> ClearTicks]
                [] reset.state = "CLEARING" ->
                     IF reset.count = 0 THEN [state |-> "RUN", count |-> 0]
                     ELSE [reset EXCEPT !.count = @ - 1]
                [] reset.state = "RUN" -> IF clear_en[2] THEN [reset EXCEPT !.state = "CLEAR"] ELSE reset

(* A tick of dac_clock.  clearn resets without waiting for a clock.        *)
DacTick ==
  /\ lap /\ lap' = FALSE
  /\ whitebox_reset
  /\ duc' = IF clearn /\ clearn' THEN DucStep ELSE DucReset
  /\ fifo' = IF ~(clearn /\ clearn') THEN 0
             ELSE IF duc.fifo_re /\ fifo > 0 THEN fifo - 1 ELSE fifo
  /\ sent' = IF clearn /\ clearn' /\ duc.cic = "word" THEN sent + 1
             ELSE IF cpu = "clearing" THEN 0 ELSE sent
  /\ UNCHANGED <<bus, pclkVars, cpuVars, adj>>

----------------------------------------------------------------------------
(* The driver and the DMA *)

hwVars == <<pclkVars, dacVars, fifo, lap>>

(* _exciter_set_state is a read and then a write of the register.          *)
CpuAccess ==
  /\ bus.phase = "IDLE"
  /\ cpu \notin {"clearing", "fill", "sending", "off"}
  /\ bus' = [phase |-> "SETUP",
             op |-> IF cpu \in {"clear_wr", "txen_wr", "stop_wr"} THEN "write" ELSE "read"]
  /\ UNCHANGED <<hwVars, cpuVars, adj, sent>>

(* A deliberate slip: the channel is requested with no write adjustment.   *)
DmaDoesNotWait ==
  /\ bus.phase = "IDLE" /\ todo > 0 /\ dmaready
  /\ bus' = [phase |-> "SETUP", op |-> "sample"]
  /\ todo' = todo - 1 /\ given' = given + 1
  /\ UNCHANGED <<hwVars, cpu, val, adj, sent>>

(* The DMA writes a word: when the exciter was ready, the write adjustment *)
(* after the word before.                                                  *)
DmaAccess ==
  /\ bus.phase = "IDLE" /\ todo > 0 /\ dmaready /\ adj = 0
  /\ bus' = [phase |-> "SETUP", op |-> "sample"]
  /\ todo' = todo - 1 /\ given' = given + 1
  /\ UNCHANGED <<hwVars, cpu, val, adj, sent>>

(* pdma_clear and WS_CLEAR, between two bursts or in the middle of one.    *)
Clear ==
  /\ cpu \in {"fill", "sending", "off"}
  /\ cpu' = "clear_rd" /\ todo' = 0
  /\ UNCHANGED <<bus, hwVars, val, given, adj, sent>>

(* The clear has had its time, and the DMA gets the words of a burst.      *)
Fill ==
  /\ cpu = "clearing"
  /\ reset.state = "RUN" /\ clearn /\ ackn = <<TRUE, TRUE>> /\ ~clear_enable
  /\ clear_en = <<FALSE, FALSE>> /\ sent = 0
  /\ cpu' = "fill" /\ todo' \in 0 .. MaxWords /\ given' = 0
  /\ UNCHANGED <<bus, hwVars, val, adj, sent>>

(* TXEN, before or after the FIFO is full.                                 *)
TxEnable ==
  /\ cpu = "fill" /\ cpu' = "txen_rd"
  /\ UNCHANGED <<bus, hwVars, val, todo, given, adj, sent>>

(* tx_stop, once the DMA has nothing left.                                 *)
TxStop ==
  /\ cpu = "sending" /\ todo = 0 /\ bus.phase = "IDLE"
  /\ cpu' = "stop_rd"
  /\ UNCHANGED <<bus, hwVars, val, todo, given, adj, sent>>

Next == PclkTick \/ DacTick \/ CpuAccess \/ DmaAccess \/ Clear \/ Fill \/ TxEnable \/ TxStop

Spec == Init /\ [][Next]_vars

(* The clocks run, and the driver and the DMA finish what they have begun. *)
FairSpec == Spec /\ WF_vars(PclkTick) /\ WF_vars(DacTick) /\ WF_vars(CpuAccess)
                 /\ WF_vars(DmaAccess) /\ WF_vars(Fill)

----------------------------------------------------------------------------
(* Properties. *)

TypeOK ==
  /\ bus.phase \in {"IDLE", "SETUP", "ACCESS", "DONE"}
  /\ bus.op \in {"none", "sample", "read", "write"}
  /\ {txen, txstop, clear_enable, dmaready, full, clearn, lap} \subseteq BOOLEAN
  /\ fifo \in 0 .. Depth /\ todo \in 0 .. MaxWords /\ adj \in 0 .. WriteAdj
  /\ duc.interp_counter \in 0 .. Interp - 1 /\ duc.cnt \in 0 .. Interp - 1
  /\ {duc.sample, duc.cic, duc.out} \subseteq Tags
  /\ val \subseteq {"TXEN", "CLEAR"}
  /\ reset.state \in {"CLEAR", "CLEARING", "RUN"} /\ reset.count \in 0 .. ClearTicks
  /\ sent <= given /\ given <= MaxWords

(* The exciter turns TXEN off by itself only when it was asked to stop,    *)
(* and when the DAC has got every word of the burst that the DMA wrote: no *)
(* word is refused by a full FIFO, overtaken by the end of the burst in    *)
(* the read pipe or lost between the clocks.                               *)
StopMeansSent ==
  [][txen /\ ~txen' /\ ackn[2] => txstop /\ sent = given]_vars

(* fsync's last loop ends: an exciter that was asked to stop turns TXEN    *)
(* off, however full the FIFO and whenever the request crosses the clocks. *)
StopCompletes == cpu = "stopping" ~> cpu # "stopping"

(* A clear ends, with the request taken back across both clocks: the reset *)
(* controller does not clear for ever.                                     *)
ClearCompletes == cpu = "clearing" ~> cpu = "fill"
=============================================================================
