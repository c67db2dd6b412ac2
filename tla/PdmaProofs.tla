----------------------------- MODULE PdmaProofs -----------------------------
(***************************************************************************)
(* Proofs about the PDMA driver, for every set of channels and every       *)
(* change of the ping-pong parameter.  Each function of the driver and    *)
(* each step of the hardware keeps the invariant of the one channel it is  *)
(* applied to; the interrupt applies several of them to several channels.  *)
(***************************************************************************)
EXTENDS Pdma, DriverLemmas

LEMMA Members ==
  ASSUME NEW c \in Channel
  PROVE  /\ c.loaded = {} <=> A \notin c.loaded /\ B \notin c.loaded
         /\ c.comp = {} <=> A \notin c.comp /\ B \notin c.comp
         /\ c.loaded = Buffers <=> A \in c.loaded /\ B \in c.loaded
         /\ c.loaded = {A} <=> A \in c.loaded /\ B \notin c.loaded
         /\ c.loaded = {B} <=> A \notin c.loaded /\ B \in c.loaded
         /\ Started(c) = {} <=> ~Started1(c, A) /\ ~Started1(c, B)
         /\ Started(c) = {A} <=> Started1(c, A) /\ ~Started1(c, B)
         /\ Started(c) = {B} <=> ~Started1(c, A) /\ Started1(c, B)
         /\ HeldBack(c) = {} <=> ~Held(c)
         /\ A \in HeldBack(c) <=> Held(c)
         /\ B \notin HeldBack(c)
         /\ A \in Started(c) <=> Started1(c, A)
         /\ B \in Started(c) <=> Started1(c, B)
  BY DEF Channel, Buffers, A, B, Started, Started1, Held, HeldBack, STOPPED, STARTED

LEMMA AgreesMembers ==
  ASSUME NEW c \in Channel
  PROVE  Agrees(c) <=> /\ A \in Started(c) <=> A \in c.loaded \/ A \in c.comp \/ A \in HeldBack(c)
                       /\ B \in Started(c) <=> B \in c.loaded \/ B \in c.comp \/ B \in HeldBack(c)
                       /\ ~(A \in c.loaded /\ A \in c.comp) /\ ~(B \in c.loaded /\ B \in c.comp)
                       /\ A \in HeldBack(c) => A \notin c.loaded /\ A \notin c.comp
                       /\ B \in HeldBack(c) => B \notin c.loaded /\ B \notin c.comp
<1>1. /\ c.loaded \subseteq {A, B} /\ c.comp \subseteq {A, B}
      /\ Started(c) \subseteq {A, B} /\ HeldBack(c) \subseteq {A, B}
  BY DEF Channel, Buffers, Started, HeldBack
<1> HIDE DEF A, B, Started, HeldBack
<1> QED BY <1>1 DEF Agrees

LEMMA FlatInv ==
  ASSUME NEW c \in Channel
  PROVE  Agrees(c) /\ InStep(c) <=> Flat(c)
<1>1. \A b \in Buffers : b = A \/ b = B
  BY DEF Buffers
<1>2. A \in Buffers /\ B \in Buffers /\ Other(A) = B /\ Other(B) = A /\ A # B
  BY DEF Buffers, Other, A, B
<1>3. InStep(c) <=>
        /\ Started(c) = {A} => c.next = B
        /\ Started(c) = {B} => c.next = A
        /\ c.loaded = {A} => c.sel = A /\ c.next = B
        /\ c.loaded = {B} => c.sel = B /\ c.next = A
        /\ c.loaded = Buffers => c.sel = c.next
        /\ c.loaded = {} /\ HeldBack(c) = {} => c.sel = c.next
        /\ c.ping_pong = 1 => \/ Started(c) = {} /\ c.next = A
                              \/ Started(c) = {A} /\ c.loaded = {} /\ c.sel = A
        /\ ~c.in_use => Started(c) = {} /\ c.loaded = {} /\ c.comp = {}
  BY <1>1, <1>2 DEF InStep
<1> QED BY <1>3, Members, AgreesMembers, <1>2 DEF Flat, Held

(* The handler called from the interrupt is made of the functions above.   *)
LEMMA HandlerInv ==
  ASSUME NEW c, ChanOK(c), NEW starts \in BOOLEAN
  PROVE  ChanOK(Handler(c, starts))
  BY BuffersAvailableInv, StartInv DEF Handler

----------------------------------------------------------------------------
LEMMA InvIsChanOK ==
  IInv <=> /\ chan \in [Channels -> Channel]
           /\ \A ch \in Channels : ChanOK(chan[ch])
  BY FlatInv DEF IInv, TypeOK, BookkeepingAgrees, ChanOK

LEMMA InitInv == Init => IInv
<1> SUFFICES ASSUME Init PROVE IInv
  OBVIOUS
<1>1. chan \in [Channels -> Channel]
  BY PingPongAssumption DEF Init, Channel, Buffers, A, B
<1>2. ASSUME NEW ch \in Channels PROVE Flat(chan[ch])
  BY <1>2, PingPongAssumption DEF Init, Flat, Held, Started1, Buffers, STARTED, STOPPED, A, B
<1> QED BY <1>1, <1>2, FlatInv, InvIsChanOK DEF ChanOK

(* A step on one channel that keeps its invariant keeps all of it.         *)
LEMMA OneChannel ==
  ASSUME IInv, NEW ch \in Channels, NEW d, ChanOK(d),
         chan' = [chan EXCEPT ![ch] = d]
  PROVE  IInv'
<1>1. chan \in [Channels -> Channel] /\ \A k \in Channels : ChanOK(chan[k])
  BY InvIsChanOK
<1>2. chan' \in [Channels -> Channel] /\ \A k \in Channels : ChanOK(chan'[k])
  BY <1>1 DEF ChanOK
<1> QED BY <1>2, FlatInv DEF IInv, TypeOK, BookkeepingAgrees, ChanOK

LEMMA StepInv == IInv /\ [Next]_vars => IInv'
<1> SUFFICES ASSUME IInv, [Next]_vars PROVE IInv'
  OBVIOUS
<1>1. chan \in [Channels -> Channel] /\ \A ch \in Channels : ChanOK(chan[ch])
  BY InvIsChanOK
<1>2. ASSUME NEW ch \in Channels, Request(ch) PROVE IInv'
  BY <1>1, <1>2, RequestInv, OneChannel, PingPongAssumption DEF Request, ChanOK
<1>3. ASSUME NEW ch \in Channels, Release(ch) PROVE IInv'
  BY <1>1, <1>3, ReleaseInv, OneChannel, PingPongAssumption DEF Release, ChanOK
<1>4. ASSUME NEW ch \in Channels, Clear(ch) PROVE IInv'
  BY <1>1, <1>4, ClearInv, OneChannel, PingPongAssumption DEF Clear, ChanOK
<1>5. ASSUME NEW ch \in Channels, Start(ch) PROVE IInv'
  BY <1>1, <1>5, StartInv, OneChannel DEF Start
<1>6. ASSUME NEW ch \in Channels, BuffersAvailable(ch) PROVE IInv'
  BY <1>1, <1>6, BuffersAvailableInv, OneChannel DEF BuffersAvailable
<1>7. ASSUME NEW ch \in Channels, Complete(ch) PROVE IInv'
  BY <1>1, <1>7, CompleteInv, OneChannel DEF Complete
<1>8. ASSUME Irq PROVE IInv'
  <2>1. PICK starts \in SUBSET Channels :
          chan' = [ch \in Channels |->
                     IF chan[ch].comp # {} /\ IrqAcknowledge(chan[ch]).in_use
                     THEN Handler(IrqAcknowledge(chan[ch]), ch \in starts)
                     ELSE IrqAcknowledge(chan[ch])]
    BY <1>8 DEF Irq
  <2>2. ASSUME NEW ch \in Channels PROVE ChanOK(chan'[ch])
    <3>1. ChanOK(IrqAcknowledge(chan[ch]))
      BY <1>1, AcknowledgeInv
    <3>2. (ch \in starts) \in BOOLEAN
      OBVIOUS
    <3>3. ChanOK(Handler(IrqAcknowledge(chan[ch]), ch \in starts))
      BY <3>1, <3>2, HandlerInv
    <3> QED BY <2>1, <3>1, <3>3
  <2>3. chan' \in [Channels -> Channel]
    BY <2>1, <2>2 DEF ChanOK
  <2> QED BY <2>2, <2>3, FlatInv DEF IInv, TypeOK, BookkeepingAgrees, ChanOK
<1>9. CASE UNCHANGED vars
  BY <1>9 DEF vars, IInv, TypeOK, BookkeepingAgrees
<1> QED BY <1>2, <1>3, <1>4, <1>5, <1>6, <1>7, <1>8, <1>9 DEF Next

(* The invariant holds in every reachable state of the PDMA driver.        *)
THEOREM Invariance == Spec => []IInv
  BY InitInv, StepInv, PTL DEF Spec

(* Every channel record stays well formed.                                 *)
THEOREM TypeCorrect == Spec => []TypeOK
<1>1. IInv => TypeOK
  BY DEF IInv
<1> QED BY <1>1, Invariance, PTL

(* The driver's record of started buffers is the hardware's state, through *)
(* every order of starts, completions, interrupts and clears.              *)
THEOREM BookkeepingHolds == Spec => []BookkeepingAgrees
<1>1. IInv => BookkeepingAgrees
  BY DEF IInv
<1> QED BY <1>1, Invariance, PTL

(* A client that was told a buffer is free can always start a transfer:    *)
(* pdma_start's -EBUSY and tx_exec's failure path are never taken.         *)
THEOREM FreeBuffersStart == Spec => []FreeMeansStartable
<1>1. IInv => FreeMeansStartable
  BY InvIsChanOK, NextIsFree DEF FreeMeansStartable
<1> QED BY <1>1, Invariance, PTL

(* The driver's alternation stays in step with the hardware's BUF_SEL.     *)
THEOREM StaysInStep == Spec => []InStepWithHardware
<1>1. ASSUME NEW c, ChanOK(c), c.loaded # {} PROVE c.sel \in c.loaded
  BY <1>1, Members, FlatInv DEF ChanOK, Flat, Channel, Buffers, A, B
<1>2. IInv => InStepWithHardware
  BY <1>1, InvIsChanOK DEF InStepWithHardware
<1> QED BY <1>2, Invariance, PTL
=============================================================================
