-------------------------------- MODULE Pdma --------------------------------
(***************************************************************************)
(* The PDMA driver (driver/pdma.c): channels that clients request, start   *)
(* transfers on and release, hardware that completes the transfers, and    *)
(* the one interrupt that serves all the channels.                         *)
(*                                                                         *)
(* Every function holds pdma_lock with interrupts off, so each is one      *)
(* step; the hardware runs on between them and raises the interrupt when   *)
(* any COMP bit is set.  A channel's handler (tx_dma_cb, rx_dma_cb) asks   *)
(* for the free buffers and may start a transfer inside the interrupt.     *)
(***************************************************************************)
EXTENDS PdmaChannel

CONSTANTS Channels,   \* the channel numbers
          PingPong    \* the values of module parameter pdma_ping_pong, which
                      \* root may write at any time and pdma_clear reads

ASSUME PingPongAssumption == PingPong \subseteq {0, 1}

VARIABLE chan         \* the state of each channel

vars == <<chan>>

(* pdma_init.  The hardware is in its reset state.                         *)
Init ==
  chan = [ch \in Channels |->
            [in_use |-> FALSE, next |-> A, status |-> [b \in Buffers |-> STOPPED],
             ping_pong |-> 0, loaded |-> {}, sel |-> A, comp |-> {}]]

Request(ch) ==
  /\ ~chan[ch].in_use
  /\ \E pp \in PingPong : chan' = [chan EXCEPT ![ch] = pdma_request(chan[ch], pp)]

Release(ch) ==
  /\ chan[ch].in_use
  /\ \E pp \in PingPong : chan' = [chan EXCEPT ![ch] = pdma_release(chan[ch], pp)]

Clear(ch) ==
  /\ chan[ch].in_use
  /\ \E pp \in PingPong : chan' = [chan EXCEPT ![ch] = pdma_clear(chan[ch], pp)]

Start(ch) == chan' = [chan EXCEPT ![ch] = pdma_start(chan[ch])]

BuffersAvailable(ch) == chan' = [chan EXCEPT ![ch] = pdma_buffers_available(chan[ch])]

Complete(ch) ==
  /\ HwCanComplete(chan[ch])
  /\ chan' = [chan EXCEPT ![ch] = HwComplete(chan[ch])]

(* A handler that starts a transfer if told to and if a buffer is free.    *)
Handler(c, starts) ==
  LET d == pdma_buffers_available(c)
  IN  IF starts /\ AvailableResult(c) > 0 THEN pdma_start(d) ELSE d

(* pdma_irq_cb: all the channels with a COMP bit set, in one pass.         *)
Irq ==
  /\ \E ch \in Channels : chan[ch].comp # {}
  /\ \E starts \in SUBSET Channels :
       chan' = [ch \in Channels |->
                  LET c == IrqAcknowledge(chan[ch])
                  IN  IF chan[ch].comp # {} /\ c.in_use THEN Handler(c, ch \in starts) ELSE c]

Next ==
  \/ \E ch \in Channels : \/ Request(ch)
                          \/ Release(ch)
                          \/ Clear(ch)
                          \/ Start(ch)
                          \/ BuffersAvailable(ch)
                          \/ Complete(ch)
  \/ Irq

Spec == Init /\ [][Next]_vars

(* The hardware finishes what it is given and interrupts are served.       *)
(* Nobody has to call anything.                                            *)
Fairness ==
  /\ \A ch \in Channels : WF_vars(Complete(ch))
  /\ WF_vars(Irq)

FairSpec == Spec /\ Fairness

----------------------------------------------------------------------------
TypeOK == chan \in [Channels -> Channel]

(* pdma_start and pdma_buffers_available agree: on a requested channel     *)
(* with a stopped buffer pdma_start never answers -EBUSY, because the      *)
(* buffer it would use next is always one of the stopped ones.  tx_exec    *)
(* and rx_exec rely on it: they have read the free count before, and count *)
(* a refused start as a failure.                                           *)
FreeMeansStartable ==
  \A ch \in Channels :
    (chan[ch].in_use /\ AvailableResult(chan[ch]) > 0) => StartResult(chan[ch]) \in Buffers

(* A buffer the driver holds back in ping-pong mode.                       *)
HeldBack(c) == IF c.ping_pong = 1 THEN Started(c) \cap {A} ELSE {}

(* The driver's bookkeeping is the hardware's state: a started buffer is   *)
(* loaded, complete and not yet acknowledged, or held back, and exactly    *)
(* one of these.  So no buffer is reloaded while the hardware works on it, *)
(* and none stays marked started with nobody left to stop it.              *)
Agrees(c) ==
  /\ Started(c) = c.loaded \cup c.comp \cup HeldBack(c)
  /\ c.loaded \cap c.comp = {}
  /\ HeldBack(c) \cap (c.loaded \cup c.comp) = {}

BookkeepingAgrees == \A ch \in Channels : Agrees(chan[ch])

(* The hardware never waits for one buffer while the driver has loaded     *)
(* only the other: the driver's alternation never falls out of step with   *)
(* BUF_SEL.                                                                *)
InStepWithHardware ==
  \A ch \in Channels : chan[ch].loaded # {} => chan[ch].sel \in chan[ch].loaded

(* The inductive invariant of the proofs, for one channel.  The last       *)
(* conjuncts pin down the alternation: while one buffer is started or      *)
(* loaded the driver's next is the other one; the hardware selects a       *)
(* loaded buffer, the older one if both are; with nothing loaded it waits  *)
(* where the driver will load next, or where a transfer is held back.      *)
InStep(c) ==
  /\ \A b \in Buffers : Started(c) = {b} => c.next = Other(b)
  /\ \A b \in Buffers : c.loaded = {b} => c.sel = b /\ c.next = Other(b)
  /\ c.loaded = Buffers => c.sel = c.next
  /\ c.loaded = {} /\ HeldBack(c) = {} => c.sel = c.next
  /\ c.ping_pong = 1 => \/ Started(c) = {} /\ c.next = A
                        \/ Started(c) = {A} /\ c.loaded = {} /\ c.sel = A
  /\ ~c.in_use => Started(c) = {} /\ c.loaded = {} /\ c.comp = {}

IInv == TypeOK /\ BookkeepingAgrees /\ \A ch \in Channels : InStep(chan[ch])

(* Every transfer ends without any further call of the client: a started   *)
(* buffer that is not held back is completed by the hardware (or cleared), *)
(* and the interrupt takes its COMP bit, even if it starts the buffer      *)
(* again at once.                                                          *)
TransfersEnd ==
  \A ch \in Channels : \A b \in Buffers :
    /\ b \in Started(chan[ch]) \ HeldBack(chan[ch])
         ~> b \in chan[ch].comp \/ b \notin Started(chan[ch])
    /\ b \in chan[ch].comp ~> b \notin chan[ch].comp
=============================================================================
