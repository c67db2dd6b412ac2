---------------------------- MODULE PdmaChannel ----------------------------
(***************************************************************************)
(* One channel of the peripheral DMA: the driver's bookkeeping             *)
(* (struct pdma_channel_t of driver/pdma.c) and the registers the hardware *)
(* works from, as operators that the PDMA driver and the transmit and      *)
(* receive paths share.                                                    *)
(*                                                                         *)
(* The hardware (external) has a count register for each of the buffers A  *)
(* and B.  It works on the buffer its BUF_SEL bit selects as soon as that  *)
(* one's count is loaded, raises the buffer's COMP bit at the end and      *)
(* selects the other buffer.                                               *)
(***************************************************************************)
EXTENDS Integers

A == 0
B == 1
Buffers == {A, B}
Other(b) == 1 - b

EINVAL == -22
EBUSY  == -16

STOPPED == "stopped"
STARTED == "started"

(* in_use: the channel was requested (its handler is set exactly then);    *)
(* next: the buffer pdma_start uses next; status: STOPPED or STARTED, for  *)
(* each buffer; ping_pong: 1 while the first transfer after a clear is     *)
(* held back until the second one, 2 afterwards, 0 if the mode is off.     *)
(* loaded, sel, comp: the hardware's loaded counts, BUF_SEL and COMP bits. *)
Channel == [in_use : BOOLEAN, next : Buffers, status : [Buffers -> {STOPPED, STARTED}],
            ping_pong : 0 .. 2, loaded : SUBSET Buffers, sel : Buffers, comp : SUBSET Buffers]

Stopped(c) == {b \in Buffers : c.status[b] = STOPPED}
Started(c) == {b \in Buffers : c.status[b] = STARTED}

(* A deliberate slip, for the mutants: the software's next buffer survives. *)
ClearKeepsNext(c, pingPong) ==
  [c EXCEPT !.ping_pong = pingPong,
            !.status = [b \in Buffers |-> STOPPED],
            !.loaded = {}, !.sel = A, !.comp = {}]

(* pdma_clear: both buffers stopped, A is next; RESET, CLR_A and CLR_B     *)
(* return the hardware to buffer A with nothing loaded or complete.        *)
pdma_clear(c, pingPong) ==
  [c EXCEPT !.ping_pong = pingPong, !.next = A,
            !.status = [b \in Buffers |-> STOPPED],
            !.loaded = {}, !.sel = A, !.comp = {}]

(* pdma_request on a free channel, pdma_release.                           *)
pdma_request(c, pingPong) == pdma_clear([c EXCEPT !.in_use = TRUE], pingPong)

pdma_release(c, pingPong) == [pdma_clear(c, pingPong) EXCEPT !.in_use = FALSE]

(* What pdma_start returns: the buffer it used, or an error.               *)
StartResult(c) ==
  CASE ~c.in_use                                   -> EINVAL
    [] c.in_use /\ c.status[c.next] = STOPPED      -> c.next
    [] c.in_use /\ c.status[c.next] # STOPPED      -> EBUSY

(* Deliberate slips: the same buffer again; a buffer past B; the first     *)
(* transfer held back although ping-pong mode is off.                      *)
StartSameBuffer(c) ==
  IF StartResult(c) \notin Buffers THEN c
  ELSE [c EXCEPT !.status[c.next] = STARTED, !.loaded = c.loaded \cup {c.next}]

StartCountsUp(c) ==
  IF StartResult(c) \notin Buffers THEN c
  ELSE [c EXCEPT !.next = c.next + 1, !.status[c.next] = STARTED,
                 !.loaded = c.loaded \cup {c.next}]

StartHoldsBack(c) ==
  IF StartResult(c) \notin Buffers THEN c
  ELSE [c EXCEPT !.next = Other(c.next), !.status[c.next] = STARTED,
                 !.loaded = c.loaded \cup (IF c.ping_pong # 2 THEN {} ELSE {c.next})]

(* pdma_start.  In ping-pong mode the first transfer's count is not loaded *)
(* until a second transfer is started.                                     *)
pdma_start(c) ==
  IF StartResult(c) \notin Buffers THEN c
  ELSE [c EXCEPT
          !.next      = Other(c.next),
          !.status    = [c.status EXCEPT ![c.next] = STARTED],
          !.loaded    = CASE c.next = A /\ c.ping_pong = 1 -> c.loaded
                          [] c.next = A /\ c.ping_pong # 1 -> c.loaded \cup {A}
                          [] c.next = B /\ c.ping_pong = 1 -> c.loaded \cup {A, B}
                          [] c.next = B /\ c.ping_pong # 1 -> c.loaded \cup {B},
          !.ping_pong = IF c.next = B /\ c.ping_pong = 1 THEN 2 ELSE c.ping_pong]

(* pdma_buffers_available: how many buffers are stopped, or an error; it   *)
(* also loads a first transfer that ping-pong mode is holding back.        *)
AvailableResult(c) ==
  IF ~c.in_use THEN EINVAL
  ELSE (IF c.status[A] = STOPPED THEN 1 ELSE 0) + (IF c.status[B] = STOPPED THEN 1 ELSE 0)

pdma_buffers_available(c) ==
  IF c.in_use /\ c.ping_pong = 1 /\ c.status[A] = STARTED
  THEN [c EXCEPT !.loaded = c.loaded \cup {A}, !.ping_pong = 2]
  ELSE c

(* The hardware finishes the selected buffer (external).                   *)
HwCanComplete(c) == c.sel \in c.loaded

HwComplete(c) ==
  [c EXCEPT !.loaded = c.loaded \ {c.sel}, !.sel = Other(c.sel),
            !.comp = c.comp \cup {c.sel}]

(* A deliberate slip: only the last buffer seen is marked stopped.         *)
AcknowledgeLastOnly(c) ==
  [c EXCEPT !.comp = {}, !.status[IF B \in c.comp THEN B ELSE A] = STOPPED]

(* pdma_irq_cb for one channel: acknowledge every COMP bit and stop those  *)
(* buffers.  The handler is then called once, even if both are complete.   *)
IrqAcknowledge(c) ==
  [c EXCEPT !.comp = {},
            !.status = [b \in Buffers |-> IF b \in c.comp THEN STOPPED ELSE c.status[b]]]
============================================================================
