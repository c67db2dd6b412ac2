---------------------------- MODULE ExciterProofs ----------------------------
(***************************************************************************)
(* Proofs about the exciter, for every depth of its FIFO, every            *)
(* interpolation it can have, every length of a reset and of a burst.      *)
(***************************************************************************)
EXTENDS Exciter, TLAPS


On(x) == x[1] /\ x[2]
Off(x) == ~x[1] /\ ~x[2]
Pair == BOOLEAN \X BOOLEAN

(* The driver's steps that read, and that write, the status register.      *)
Reading == {"clear_rd", "txen_rd", "stop_rd", "stopping"}
Writing == {"clear_wr", "txen_wr", "stop_wr"}
CpuSteps == Reading \cup Writing \cup {"clearing", "fill", "sending", "off"}

BusOps == {"none", "sample", "read", "write"}
BusType == [phase : {"IDLE", "SETUP", "ACCESS"}, op : BusOps]
             \cup [phase : {"DONE"}, op : BusOps, we : BOOLEAN]
Stage == {"none", "word"}
DucType == [txen : Pair, txstop : Pair, interp_counter : 0 .. Interp - 1, done : BOOLEAN,
            fifo_re : BOOLEAN, empty : BOOLEAN, pipe : Stage \X Stage \X Stage,
            sample : Tags, cnt : 0 .. Interp - 1, cic : Tags, out : Tags]

Types ==
  /\ bus \in BusType /\ cpu \in CpuSteps /\ val \subseteq {"TXEN"}
  /\ txen \in BOOLEAN /\ txstop \in BOOLEAN /\ clear_enable \in BOOLEAN
  /\ ackn \in Pair /\ txlast \in Pair /\ dmaready \in BOOLEAN /\ full \in BOOLEAN
  /\ clearn \in BOOLEAN /\ lap \in BOOLEAN /\ clear_en \in Pair
  /\ reset \in [state : {"CLEAR", "CLEARING", "RUN"}, count : 0 .. ClearTicks]
  /\ fifo \in 0 .. Depth /\ duc \in DucType
  /\ todo \in Nat /\ given \in Nat /\ todo + given <= MaxWords
  /\ adj \in 0 .. WriteAdj /\ sent \in Nat

(* Who is on the bus.                                                      *)
NoDma == todo = 0 /\ bus.op # "sample"
BusOwner ==
  /\ bus.phase = "IDLE" <=> bus.op = "none"
  /\ bus.op = "read" => cpu \in Reading
  /\ bus.op = "write" => cpu \in Writing
  /\ cpu \in {"stop_rd", "stop_wr", "stopping", "off", "clear_wr", "clearing"} => NoDma
  /\ cpu = "clear_rd" => todo = 0

Asked(c) == cpu = c /\ bus.phase = "DONE" /\ bus.op = "write"   \* c's bit is written
Clearing == cpu = "clearing" \/ Asked("clear_wr")

(* The word count.                                                         *)
One(b) == IF b THEN 1 ELSE 0
Piped(d) == One(d.pipe[1] = "word") + One(d.pipe[2] = "word") + One(d.pipe[3] = "word")
            + One(d.sample = "word") + One(d.cic = "word")
Total == sent + Piped(duc) + fifo + One(bus.op = "sample")
Counted == IF Clearing THEN Total <= given ELSE Total = given

(* Room for the word on the bus.                                           *)
Room ==
  /\ ~clearn => fifo = 0
  /\ adj < WriteAdj /\ ~full => fifo < Depth
  /\ adj < WriteAdj - 1 /\ dmaready => ~full /\ fifo < Depth
  /\ bus.op = "sample" => /\ adj = 0
                          /\ fifo < Depth
                          /\ bus.phase # "DONE" => ~full
                          /\ bus.phase = "DONE" => bus.we

(* The burst: not begun, under way, at its end.                            *)
NoTag(d, tag) == d.sample # tag /\ d.cic # tag /\ d.out # tag
NoWord(d) == /\ ~d.fifo_re /\ \A k \in 1 .. 3 : d.pipe[k] = "none"
Still(d) == /\ Off(d.txen) /\ Off(d.txstop) /\ ~d.done /\ NoWord(d)
            /\ NoTag(d, "word") /\ NoTag(d, "last")

Before == ~txen /\ ~txstop /\ Off(txlast) /\ Still(duc)

Timed(d) ==
  /\ d.fifo_re => d.interp_counter = Interp - 1
  /\ d.pipe[1] = "word" => d.interp_counter = Interp - 2
  /\ d.pipe[2] = "word" => d.interp_counter = Interp - 3

During ==
  /\ txen /\ Off(txlast) /\ ~duc.done /\ NoTag(duc, "last")
  /\ duc.txen[2] => duc.txen[1]
  /\ ~duc.txen[2] => NoWord(duc)
  /\ duc.txstop[2] => duc.txstop[1]
  /\ duc.txstop[1] => txstop
  /\ Timed(duc)
  /\ duc.txstop[1] /\ duc.empty => fifo = 0

LastOut == duc.cic = "last" \/ duc.out = "last" \/ ~Off(txlast)
After ==
  /\ txen <=> txstop
  /\ duc.txen[1] <=> duc.txstop[1]
  /\ duc.txen[2] <=> duc.txstop[2]
  /\ duc.done /\ duc.empty /\ NoWord(duc)
  /\ fifo = 0 /\ NoDma
  /\ LastOut => duc.sample # "word" /\ duc.cic # "word"

Burst == Before \/ During \/ After

(* Where the driver is: about to set TXEN, about to set TXSTOP.            *)
Filling == cpu \in {"fill", "txen_rd"} \/ (cpu = "txen_wr" /\ ~Asked("txen_wr"))
Sending == \/ Asked("txen_wr") \/ cpu \in {"sending", "stop_rd"}
           \/ cpu = "stop_wr" /\ ~Asked("stop_wr")

Stopping ==
  /\ txstop => cpu = "stopping" \/ Asked("stop_wr")
  /\ Filling => Before
  /\ Sending => During
  /\ cpu = "stopping" /\ bus.phase = "DONE" /\ bus.op = "read" /\ txen => "TXEN" \in val
  /\ cpu = "off" => ~txen

(* The clear.                                                              *)
Steady == clearn /\ On(ackn) /\ ~clear_enable /\ Off(clear_en) /\ reset.state = "RUN"
Requested == clear_enable /\ clearn /\ On(ackn) /\ reset.state \in {"RUN", "CLEAR"} /\ Burst
Resetting ==
  /\ clear_enable /\ ~clearn /\ fifo = 0 /\ Still(duc) /\ reset.state # "CLEAR" /\ ~txstop
  /\ txen => Off(txlast)
  /\ ackn[1] => ackn[2]
  /\ ~ackn[1] => ~txlast[1]
  /\ ~ackn[2] => ~txlast[2]
  /\ lap \/ reset.state = "RUN" \/ reset.count < ClearTicks => ~ackn[1]
  /\ reset.state = "RUN" \/ (lap /\ reset.count < ClearTicks) => ~ackn[2]
  /\ reset.state = "RUN" => ~lap
Done == ~clear_enable /\ Before /\ fifo = 0

Clears ==
  IF Clearing THEN Requested \/ Resetting \/ Done
  ELSE Steady /\ Burst

(* The inductive invariant.                                                *)
IInv == Types /\ BusOwner /\ Counted /\ Room /\ Stopping /\ Clears

----------------------------------------------------------------------------
(* The sample chain. *)

LEMMA ResetType == DucReset \in DucType /\ Still(DucReset) /\ Piped(DucReset) = 0
<1>1. Interp - 1 \in Nat /\ 0 \in 0 .. Interp - 1
  BY InterpAssumption
<1>2. "none" \in Tags /\ "none" \in Stage /\ <<FALSE, FALSE>> \in Pair
  BY DEF Tags, Stage, Pair
<1>3. DucReset \in DucType
  BY <1>1, <1>2 DEF DucType, DucReset
<1>4. Still(DucReset)
  BY DEF Still, DucReset, Off, NoWord, NoTag
<1>5. Piped(DucReset) = 0
  BY DEF Piped, One, DucReset
<1> QED BY <1>3, <1>4, <1>5

LEMMA InterpolateIs ==
  ASSUME NEW d \in DucType
  PROVE  /\ interpolate(d) \in Tags
         /\ interpolate(d) = "word" <=> d.sample = "word"
         /\ interpolate(d) = "last" => d.sample = "last" \/ d.cic = "last"
         /\ d.sample = "last" => interpolate(d) = "last"
BY DEF interpolate, DucType, Tags

LEMMA SamplerIs ==
  ASSUME NEW d \in DucType
  PROVE  /\ sampler(d) \in Tags
         /\ sampler(d) = "word" <=> d.txen[2] /\ ~d.done /\ d.pipe[3] = "word"
         /\ sampler(d) = "last" <=> d.txen[2] /\ d.done
BY DEF sampler, DucType, Tags, Stage

LEMMA ConsumerIs ==
  ASSUME NEW d \in DucType, NEW n, n = consumer(d)
  PROVE  /\ n \in DucType
         /\ ~d.txen[2] => /\ n.interp_counter = d.interp_counter
                          /\ n.done = d.done /\ n.fifo_re = d.fifo_re
         /\ d.txen[2] /\ d.interp_counter # 0 =>
              /\ n.interp_counter = d.interp_counter - 1
              /\ n.done = d.done /\ ~n.fifo_re
         /\ d.txen[2] /\ d.interp_counter = 0 =>
              /\ n.interp_counter = Interp - 1
              /\ n.done <=> d.empty /\ d.txstop[2]
              /\ n.fifo_re <=> ~d.empty
<1>0. d.interp_counter \in 0 .. Interp - 1 /\ Interp - 1 \in Nat /\ d.txstop[2] \in BOOLEAN
      /\ d.empty \in BOOLEAN
  BY InterpAssumption DEF DucType, Pair
<1>1. CASE ~d.txen[2]
  BY <1>1 DEF consumer
<1>2. CASE d.txen[2] /\ d.interp_counter # 0
  <2>1. n = [d EXCEPT !.interp_counter = @ - 1, !.fifo_re = FALSE]
    BY <1>2 DEF consumer
  <2>2. d.interp_counter - 1 \in 0 .. Interp - 1
    BY <1>0, <1>2
  <2> QED BY <1>2, <2>1, <2>2 DEF DucType
<1>3. CASE d.txen[2] /\ d.interp_counter = 0
  <2>1. n = [d EXCEPT !.interp_counter = Interp - 1,
                      !.done = d.empty /\ d.txstop[2], !.fifo_re = ~d.empty]
    BY <1>3 DEF consumer
  <2>2. PICK a \in BOOLEAN, b \in BOOLEAN : a = (d.empty /\ d.txstop[2]) /\ b = ~d.empty
    <3>1. (d.empty /\ d.txstop[2]) \in BOOLEAN /\ (~d.empty) \in BOOLEAN
      OBVIOUS
    <3> QED BY <3>1, Zenon
  <2>3. n = [d EXCEPT !.interp_counter = Interp - 1, !.done = a, !.fifo_re = b]
    BY <2>1, <2>2, Zenon
  <2>4. Interp - 1 \in 0 .. Interp - 1
    BY <1>0
  <2>5. /\ n \in DucType /\ n.interp_counter = Interp - 1 /\ n.done = a /\ n.fifo_re = b
    BY <2>3, <2>4 DEF DucType
  <2> QED BY <1>3, <2>2, <2>5
<1> QED BY <1>1, <1>2, <1>3

(* A tick of the whole chain.                                              *)
LEMMA DucStepIs ==
  ASSUME Types, NEW n, n = DucStep
  PROVE  /\ n \in DucType
         /\ n.txen[1] = txen /\ n.txen[2] = duc.txen[1]
         /\ n.txstop[1] = txstop /\ n.txstop[2] = duc.txstop[1]
         /\ n.empty <=> fifo = 0
         /\ n.pipe[1] = IF duc.fifo_re /\ fifo > 0 THEN "word" ELSE "none"
         /\ n.pipe[2] = duc.pipe[1] /\ n.pipe[3] = duc.pipe[2]
         /\ n.sample = sampler(duc) /\ n.cic = interpolate(duc) /\ n.out = duc.cic
         /\ ~duc.txen[2] => /\ n.interp_counter = duc.interp_counter
                            /\ n.done = duc.done /\ n.fifo_re = duc.fifo_re
         /\ duc.txen[2] /\ duc.interp_counter # 0 =>
              /\ n.interp_counter = duc.interp_counter - 1
              /\ n.done = duc.done /\ ~n.fifo_re
         /\ duc.txen[2] /\ duc.interp_counter = 0 =>
              /\ n.interp_counter = Interp - 1
              /\ n.done <=> duc.empty /\ duc.txstop[2]
              /\ n.fifo_re <=> ~duc.empty
<1>0. duc \in DucType /\ txen \in BOOLEAN /\ txstop \in BOOLEAN
  BY DEF Types
<1>1. PICK c : c = consumer(duc)
  OBVIOUS
<1>2. c \in DucType
  BY <1>0, <1>1, ConsumerIs
<1>3. PICK en, st, em, pi, sa, ct, ci :
        /\ en = <<txen, duc.txen[1]>> /\ st = <<txstop, duc.txstop[1]>> /\ em = (fifo = 0)
        /\ pi = <<IF duc.fifo_re /\ fifo > 0 THEN "word" ELSE "none", duc.pipe[1], duc.pipe[2]>>
        /\ sa = sampler(duc) /\ ci = interpolate(duc)
        /\ ct = IF duc.sample # "none" THEN Interp - 1 ELSE IF duc.cnt > 0 THEN duc.cnt - 1 ELSE 0
  BY Zenon
<1>4. n = [c EXCEPT !.txen = en, !.txstop = st, !.empty = em, !.pipe = pi, !.sample = sa,
                    !.cnt = ct, !.cic = ci, !.out = duc.cic]
  BY <1>1, <1>3, Zenon DEF DucStep
<1>5. en \in Pair /\ st \in Pair /\ em \in BOOLEAN
  <2>1. duc.txen[1] \in BOOLEAN /\ duc.txstop[1] \in BOOLEAN
    BY <1>0 DEF DucType, Pair
  <2>2. (fifo = 0) \in BOOLEAN
    OBVIOUS
  <2> QED BY <1>0, <1>3, <2>1, <2>2, Zenon DEF Pair
<1>6. pi \in Stage \X Stage \X Stage
  BY <1>0, <1>3 DEF DucType, Stage
<1>7. sa \in Tags /\ ci \in Tags /\ duc.cic \in Tags
  BY <1>0, <1>3, SamplerIs, InterpolateIs DEF DucType
<1>8. ct \in 0 .. Interp - 1
  <2>1. duc.cnt \in 0 .. Interp - 1 /\ Interp - 1 \in Nat
    BY <1>0, InterpAssumption DEF DucType
  <2> QED BY <1>3, <2>1
<1>9. n \in DucType
  BY <1>2, <1>4, <1>5, <1>6, <1>7, <1>8 DEF DucType
<1>10. /\ n.txen = en /\ n.txstop = st /\ n.empty = em /\ n.pipe = pi /\ n.sample = sa
       /\ n.cic = ci /\ n.out = duc.cic
       /\ n.interp_counter = c.interp_counter /\ n.done = c.done /\ n.fifo_re = c.fifo_re
  BY <1>2, <1>4 DEF DucType
<1>11. /\ en[1] = txen /\ en[2] = duc.txen[1] /\ st[1] = txstop /\ st[2] = duc.txstop[1]
       /\ pi[1] = (IF duc.fifo_re /\ fifo > 0 THEN "word" ELSE "none")
       /\ pi[2] = duc.pipe[1] /\ pi[3] = duc.pipe[2] /\ (em <=> fifo = 0)
  BY <1>3
<1>12. /\ ~duc.txen[2] => /\ n.interp_counter = duc.interp_counter
                          /\ n.done = duc.done /\ n.fifo_re = duc.fifo_re
       /\ duc.txen[2] /\ duc.interp_counter # 0 =>
            /\ n.interp_counter = duc.interp_counter - 1
            /\ n.done = duc.done /\ ~n.fifo_re
       /\ duc.txen[2] /\ duc.interp_counter = 0 =>
            /\ n.interp_counter = Interp - 1
            /\ n.done <=> duc.empty /\ duc.txstop[2]
            /\ n.fifo_re <=> ~duc.empty
  BY <1>0, <1>1, <1>10, ConsumerIs
<1> QED BY <1>3, <1>9, <1>10, <1>11, <1>12

----------------------------------------------------------------------------
(* A tick of dac_clock: the burst goes on. *)

Moves == duc' = DucStep /\ fifo' = IF duc.fifo_re /\ fifo > 0 THEN fifo - 1 ELSE fifo
Held == UNCHANGED <<txen, txstop, txlast, todo, bus, cpu>>

LEMMA BeforeMoves ==
  ASSUME Types, Moves, Held, Before
  PROVE  Before' /\ fifo' = fifo
<1> DEFINE n == duc'
<1>1. duc \in DucType /\ ~txen /\ ~txstop /\ Still(duc) /\ n = DucStep
  BY DEF Types, Before, Moves
<1>2. /\ Off(duc.txen) /\ Off(duc.txstop) /\ ~duc.done /\ ~duc.fifo_re
      /\ duc.pipe[1] = "none" /\ duc.pipe[2] = "none" /\ duc.pipe[3] = "none"
      /\ NoTag(duc, "word") /\ NoTag(duc, "last")
  BY <1>1 DEF Still, NoWord
<1> HIDE DEF n
<1>3. Off(n.txen) /\ Off(n.txstop) /\ ~n.done /\ ~n.fifo_re
  BY <1>1, <1>2, DucStepIs DEF Off
<1>4. n.pipe[1] = "none" /\ n.pipe[2] = "none" /\ n.pipe[3] = "none"
  BY <1>1, <1>2, DucStepIs
<1>5. NoTag(n, "word") /\ NoTag(n, "last")
  BY <1>1, <1>2, DucStepIs, SamplerIs, InterpolateIs DEF NoTag, Off
<1>6. Still(n)
  BY <1>3, <1>4, <1>5 DEF Still, NoWord
<1>7. fifo' = fifo
  BY <1>2 DEF Moves
<1> QED BY <1>6, <1>7 DEF Before, Held, n

LEMMA AfterMoves ==
  ASSUME Types, Moves, Held, After
  PROVE  After' /\ fifo' = fifo
<1> DEFINE n == duc'
<1>1. /\ duc \in DucType /\ n = DucStep /\ duc.done /\ duc.empty /\ fifo = 0 /\ NoDma
      /\ txen <=> txstop
      /\ duc.txen[1] <=> duc.txstop[1]
      /\ duc.txen[2] <=> duc.txstop[2]
  BY DEF Types, After, Moves
<1>2. ~duc.fifo_re /\ duc.pipe[1] = "none" /\ duc.pipe[2] = "none" /\ duc.pipe[3] = "none"
  BY DEF After, NoWord
<1>3. LastOut => duc.sample # "word" /\ duc.cic # "word"
  BY DEF After
<1> HIDE DEF n
<1>4. /\ n.txen[1] <=> n.txstop[1]
      /\ n.txen[2] <=> n.txstop[2]
      /\ n.done /\ n.empty /\ ~n.fifo_re
  BY <1>1, <1>2, DucStepIs
<1>5. n.pipe[1] = "none" /\ n.pipe[2] = "none" /\ n.pipe[3] = "none"
  BY <1>1, <1>2, DucStepIs
<1>6. n.cic = "last" \/ n.out = "last" \/ ~Off(txlast) => n.sample # "word" /\ n.cic # "word"
  <2>1. n.sample # "word"
    BY <1>1, DucStepIs, SamplerIs
  <2>2. n.cic = "word" => duc.sample = "word"
    BY <1>1, DucStepIs, InterpolateIs
  <2>3. n.cic = "last" => duc.sample = "last" \/ duc.cic = "last"
    BY <1>1, DucStepIs, InterpolateIs
  <2>4. n.out = duc.cic
    BY <1>1, DucStepIs
  <2> QED BY <1>3, <2>1, <2>2, <2>3, <2>4 DEF LastOut
<1>7. fifo' = fifo
  BY <1>2 DEF Moves
<1>8. NoWord(n)
  BY <1>4, <1>5 DEF NoWord
<1> QED BY <1>1, <1>4, <1>6, <1>7, <1>8 DEF After, Held, LastOut, NoDma, n

LEMMA DuringMoves ==
  ASSUME Types, Moves, Held, During, txstop => NoDma
  PROVE  During' \/ (txstop /\ After')
<1> DEFINE n == duc'
<1>1. /\ duc \in DucType /\ n = DucStep /\ txen /\ Off(txlast) /\ ~duc.done /\ NoTag(duc, "last")
      /\ duc.txen[2] => duc.txen[1]
      /\ duc.txstop[2] => duc.txstop[1]
      /\ duc.txstop[1] => txstop
      /\ duc.txstop[1] /\ duc.empty => fifo = 0
  BY DEF Types, During, Moves
<1>2. ~duc.txen[2] =>
        ~duc.fifo_re /\ duc.pipe[1] = "none" /\ duc.pipe[2] = "none" /\ duc.pipe[3] = "none"
  BY DEF During, NoWord
<1>3. /\ duc.fifo_re => duc.interp_counter = Interp - 1
      /\ duc.pipe[1] = "word" => duc.interp_counter = Interp - 2
      /\ duc.pipe[2] = "word" => duc.interp_counter = Interp - 3
  BY DEF During, Timed
<1>4. /\ duc.interp_counter \in 0 .. Interp - 1 /\ Interp \in Nat /\ Interp >= 4 /\ fifo \in Nat
      /\ duc.pipe[1] \in Stage /\ duc.pipe[2] \in Stage
  BY InterpAssumption, DepthAssumption DEF Types, DucType
<1> HIDE DEF n
<1>5. NoTag(n, "last")
  BY <1>1, DucStepIs, SamplerIs, InterpolateIs DEF NoTag
<1>6. /\ n.txen[1] /\ (n.txen[2] <=> duc.txen[1])
      /\ n.txstop[1] <=> txstop
      /\ n.txstop[2] <=> duc.txstop[1]
      /\ n.empty <=> fifo = 0
  BY <1>1, DucStepIs
<1>7. /\ n.pipe[1] = (IF duc.fifo_re /\ fifo > 0 THEN "word" ELSE "none")
      /\ n.pipe[2] = duc.pipe[1] /\ n.pipe[3] = duc.pipe[2]
  BY <1>1, DucStepIs
<1>8. fifo = 0 => fifo' = 0
  BY DEF Moves
<1>9. CASE n.done
  <2>1. duc.txen[2] /\ duc.interp_counter = 0 /\ duc.empty /\ duc.txstop[2]
    BY <1>1, <1>9, DucStepIs
  <2>2. ~n.fifo_re
    BY <1>1, <2>1, DucStepIs
  <2>3. n.pipe[1] = "none" /\ n.pipe[2] = "none" /\ n.pipe[3] = "none"
    BY <1>1, <1>3, <1>4, <1>7, <2>1 DEF Stage
  <2>4. NoWord(n)
    BY <2>2, <2>3 DEF NoWord
  <2>5. fifo = 0 /\ txstop /\ NoDma
    BY <1>1, <2>1
  <2>6. n.cic # "last" /\ n.out # "last"
    BY <1>5 DEF NoTag
  <2> QED BY <1>1, <1>6, <1>8, <1>9, <2>1, <2>4, <2>5, <2>6 DEF After, LastOut, Held, NoDma, n
<1>10. CASE ~n.done
  <2>1. ~n.txen[2] => NoWord(n)
    <3> SUFFICES ASSUME ~n.txen[2] PROVE NoWord(n)
      OBVIOUS
    <3>1. ~duc.txen[2]
      BY <1>1, <1>6
    <3>2. ~n.fifo_re
      BY <1>1, <1>2, <3>1, DucStepIs
    <3> QED BY <1>2, <1>7, <3>1, <3>2 DEF NoWord
  <2>2. Timed(n)
    <3>1. CASE ~duc.txen[2]
      <4>1. ~n.fifo_re
        BY <1>1, <1>2, <3>1, DucStepIs
      <4> QED BY <1>2, <1>7, <3>1, <4>1 DEF Timed
    <3>2. CASE duc.txen[2] /\ duc.interp_counter # 0
      <4>1. n.interp_counter = duc.interp_counter - 1 /\ ~n.fifo_re
        BY <1>1, <3>2, DucStepIs
      <4> QED BY <1>3, <1>4, <1>7, <4>1 DEF Timed
    <3>3. CASE duc.txen[2] /\ duc.interp_counter = 0
      <4>1. n.interp_counter = Interp - 1
        BY <1>1, <3>3, DucStepIs
      <4> QED BY <1>3, <1>4, <1>7, <3>3, <4>1 DEF Timed
    <3> QED BY <3>1, <3>2, <3>3
  <2>3. n.txstop[1] /\ n.empty => fifo' = 0
    BY <1>6, <1>8
  <2> QED BY <1>1, <1>5, <1>6, <1>10, <2>1, <2>2, <2>3 DEF During, Held, n
<1> QED BY <1>9, <1>10

(* No word is lost in the chain.                                           *)
LEMMA MovesCount ==
  ASSUME Types, Moves, Burst
  PROVE  /\ Piped(duc) \in Nat /\ Piped(duc') \in Nat /\ fifo' \in 0 .. Depth /\ fifo' <= fifo
         /\ Piped(duc) + fifo = One(duc.cic = "word") + Piped(duc') + fifo'
<1> DEFINE n == duc'
<1>1. duc \in DucType /\ n = DucStep /\ fifo \in 0 .. Depth /\ Depth \in Nat
  BY DepthAssumption DEF Types, Moves
<1>2. duc.pipe[3] = "word" => duc.txen[2] /\ ~duc.done
  BY DEF Burst, Before, During, After, Still, NoWord
<1>3. fifo' = IF duc.fifo_re /\ fifo > 0 THEN fifo - 1 ELSE fifo
  BY DEF Moves
<1> HIDE DEF n
<1>4. /\ n.pipe[1] = (IF duc.fifo_re /\ fifo > 0 THEN "word" ELSE "none")
      /\ n.pipe[2] = duc.pipe[1] /\ n.pipe[3] = duc.pipe[2]
  BY <1>1, DucStepIs
<1>5. n.sample = "word" <=> duc.pipe[3] = "word"
  BY <1>1, <1>2, DucStepIs, SamplerIs
<1>6. n.cic = "word" <=> duc.sample = "word"
  BY <1>1, DucStepIs, InterpolateIs
<1>7. One(n.pipe[1] = "word") + fifo' = fifo /\ fifo' \in 0 .. Depth /\ fifo' <= fifo
  BY <1>1, <1>3, <1>4 DEF One
<1>8. \A b : One(b) \in Nat
  BY DEF One
<1>9. /\ One(n.pipe[2] = "word") = One(duc.pipe[1] = "word")
      /\ One(n.pipe[3] = "word") = One(duc.pipe[2] = "word")
      /\ One(n.sample = "word") = One(duc.pipe[3] = "word")
      /\ One(n.cic = "word") = One(duc.sample = "word")
  BY <1>4, <1>5, <1>6 DEF One
<1>10. Piped(duc) \in Nat /\ Piped(n) \in Nat
  BY DEF Piped, One
<1>11. Piped(duc) + fifo = One(duc.cic = "word") + Piped(n) + fifo'
  <2>1. PICK a1, a2, a3, a4, a5, b1 \in Nat :
          /\ a1 = One(duc.pipe[1] = "word") /\ a2 = One(duc.pipe[2] = "word")
          /\ a3 = One(duc.pipe[3] = "word") /\ a4 = One(duc.sample = "word")
          /\ a5 = One(duc.cic = "word") /\ b1 = One(n.pipe[1] = "word")
    BY DEF One
  <2>2. Piped(duc) = a1 + a2 + a3 + a4 + a5
    BY <2>1 DEF Piped
  <2>3. Piped(n) = b1 + a1 + a2 + a3 + a4
    BY <1>9, <2>1 DEF Piped
  <2> QED BY <1>1, <1>7, <2>1, <2>2, <2>3
<1> QED BY <1>7, <1>10, <1>11 DEF n

(* The reset controller.                                                   *)
LEMMA ResetTypes ==
  ASSUME Types, DacTick
  PROVE  clearn' \in BOOLEAN /\ clear_en' \in Pair
         /\ reset' \in [state : {"CLEAR", "CLEARING", "RUN"}, count : 0 .. ClearTicks]
<1>1. /\ reset \in [state : {"CLEAR", "CLEARING", "RUN"}, count : 0 .. ClearTicks]
      /\ clear_enable \in BOOLEAN /\ clear_en \in Pair /\ clearn \in BOOLEAN
      /\ ClearTicks \in Nat
  BY TicksAssumption DEF Types
<1>2. whitebox_reset
  BY DEF DacTick
<1>3. clear_en' \in Pair
  BY <1>1, <1>2, Zenon DEF whitebox_reset, Pair
<1>4. clearn' \in BOOLEAN
  <2>1. (clearn /\ reset.state # "CLEAR") \in BOOLEAN /\ TRUE \in BOOLEAN
    OBVIOUS
  <2> QED BY <1>2, <2>1, Zenon DEF whitebox_reset
<1>5. CASE reset.state = "CLEAR"
  <2>1. reset' = [state |-> "CLEARING", count |-> ClearTicks]
    BY <1>2, <1>5 DEF whitebox_reset
  <2>2. ClearTicks \in 0 .. ClearTicks
    BY <1>1
  <2> QED BY <1>3, <1>4, <2>1, <2>2
<1>6. CASE reset.state = "CLEARING"
  <2>1. reset' = IF reset.count = 0 THEN [state |-> "RUN", count |-> 0]
                 ELSE [reset EXCEPT !.count = @ - 1]
    BY <1>2, <1>6 DEF whitebox_reset
  <2>2. 0 \in 0 .. ClearTicks /\ (reset.count # 0 => reset.count - 1 \in 0 .. ClearTicks)
    BY <1>1
  <2> QED BY <1>1, <1>3, <1>4, <2>1, <2>2
<1>7. CASE reset.state = "RUN"
  <2>1. reset' = IF clear_en[2] THEN [reset EXCEPT !.state = "CLEAR"] ELSE reset
    BY <1>2, <1>7 DEF whitebox_reset
  <2> QED BY <1>1, <1>3, <1>4, <2>1
<1> QED BY <1>1, <1>5, <1>6, <1>7

(* What a tick of dac_clock leaves alone, and what it does to the rest.    *)
LEMMA DacParts ==
  ASSUME IInv, DacTick
  PROVE  /\ UNCHANGED <<bus, txen, txstop, clear_enable, ackn, txlast, dmaready, full>>
         /\ UNCHANGED <<cpu, val, todo, given, adj>>
         /\ lap /\ ~lap' /\ lap' \in BOOLEAN
         /\ clearn /\ clearn' => Moves /\ (duc.cic = "word" => sent' = sent + 1)
         /\ ~(clearn /\ clearn') => duc' = DucReset /\ fifo' = 0
         /\ ~(clearn /\ clearn') \/ duc.cic # "word" =>
              sent' = IF cpu = "clearing" THEN 0 ELSE sent
BY DEF DacTick, pclkVars, cpuVars, Moves

LEMMA DacTypes ==
  ASSUME IInv, DacTick
  PROVE  Types'
<1>1. Types
  BY DEF IInv
<1>2. clearn /\ clearn' => Burst
  <2>1. ~Clearing => Burst
    BY DEF IInv, Clears
  <2>2. Requested \/ Done => Burst
    BY DEF Requested, Done, Burst
  <2>3. Resetting => ~clearn
    BY DEF Resetting
  <2> QED BY <2>1, <2>2, <2>3 DEF IInv, Clears
<1>3. duc' \in DucType /\ fifo' \in 0 .. Depth
  <2>1. CASE clearn /\ clearn'
    <3>1. Moves
      BY <2>1, DacParts
    <3>2. duc' \in DucType
      BY <1>1, <3>1, DucStepIs DEF Moves
    <3> QED BY <1>1, <1>2, <2>1, <3>1, <3>2, MovesCount
  <2>2. CASE ~(clearn /\ clearn')
    <3>1. 0 \in 0 .. Depth
      BY DepthAssumption
    <3> QED BY <2>2, <3>1, DacParts, ResetType
  <2> QED BY <2>1, <2>2
<1>4. sent' \in Nat
  <2>1. sent \in Nat
    BY <1>1 DEF Types
  <2>2. sent' \in {sent, sent + 1, 0}
    BY DacParts
  <2> QED BY <2>1, <2>2
<1> QED BY <1>1, <1>3, <1>4, DacParts, ResetTypes DEF Types

LEMMA DacBurst ==
  ASSUME IInv, DacTick, Burst, clearn, clearn'
  PROVE  Burst' /\ (Before => Before') /\ (During /\ ~txstop => During')
<1>1. Types /\ Moves /\ Held
  BY DacParts DEF IInv, Held
<1>2. txstop => NoDma
  BY DEF IInv, Stopping, BusOwner, Asked
<1> QED BY <1>1, <1>2, BeforeMoves, DuringMoves, AfterMoves DEF Burst

LEMMA DacStep == ASSUME IInv, DacTick PROVE IInv'
<1>1. /\ Types /\ BusOwner /\ Counted /\ Room /\ Stopping /\ Clears
      /\ whitebox_reset
  BY DEF IInv, DacTick
<1>2. /\ UNCHANGED <<bus, txen, txstop, clear_enable, ackn, txlast, dmaready, full>>
      /\ UNCHANGED <<cpu, val, todo, given, adj>>
      /\ lap /\ ~lap'
  BY DacParts
<1>3. Types'
  BY DacTypes
<1>4. BusOwner' /\ (Clearing' <=> Clearing) /\ (NoDma' <=> NoDma)
      /\ \A c : Asked(c)' <=> Asked(c)
  BY <1>1, <1>2 DEF BusOwner, Clearing, NoDma, Asked
<1>5. ~Clearing => Steady /\ Burst /\ clearn' /\ Steady'
  <2>1. ~Clearing => clearn /\ On(ackn) /\ ~clear_enable /\ Off(clear_en) /\ reset.state = "RUN" /\ Burst
    BY <1>1 DEF Clears, Steady
  <2>2. /\ clear_en'[1] = clear_enable /\ clear_en'[2] = clear_en[1]
        /\ reset.state = "RUN" => clearn'
        /\ reset.state = "RUN" /\ ~clear_en[2] => reset' = reset
    BY <1>1 DEF whitebox_reset
  <2> QED BY <1>2, <2>1, <2>2 DEF Steady, On, Off
<1>6. Clearing => Requested \/ Resetting \/ Done
  BY <1>1 DEF Clears
<1>7. clearn /\ clearn' => Burst
  BY <1>5, <1>6 DEF Requested, Done, Burst, Resetting
<1>8. fifo' <= fifo /\ (~clearn' => fifo' = 0) /\ fifo \in Nat /\ fifo' \in Nat
  <2>1. CASE clearn /\ clearn'
    BY <1>1, <1>3, <1>7, <2>1, DacParts, MovesCount DEF Types
  <2>2. CASE ~(clearn /\ clearn')
    BY <1>1, <2>2, DacParts DEF Types
  <2> QED BY <2>1, <2>2
<1>9. Room'
  <2>1. Depth \in Nat
    BY DepthAssumption
  <2> QED BY <1>1, <1>2, <1>8, <2>1 DEF Room
<1>10. Counted'
  <2>0. One(bus.op = "sample") \in Nat /\ sent \in Nat /\ given \in Nat /\ One(bus.op = "sample")' = One(bus.op = "sample")
    BY <1>1, <1>2 DEF Types, One
  <2>1. CASE clearn /\ clearn'
    <3>1. /\ Piped(duc) \in Nat /\ Piped(duc') \in Nat
          /\ Piped(duc) + fifo = One(duc.cic = "word") + Piped(duc') + fifo'
      BY <1>1, <1>7, <2>1, DacParts, MovesCount
    <3>2. /\ ~Clearing => sent' = sent + One(duc.cic = "word")
          /\ sent' \in Nat /\ sent' <= sent + One(duc.cic = "word")
          /\ One(duc.cic = "word") \in Nat
      BY <1>1, <2>0, <2>1, DacParts DEF One, Clearing, Asked
    <3>3. /\ Total = sent + Piped(duc) + fifo + One(bus.op = "sample")
          /\ Total' = sent' + Piped(duc') + fifo' + One(bus.op = "sample")
      BY <2>0 DEF Total
    <3>4. (~Clearing => Total' = Total) /\ Total' <= Total /\ Total \in Nat /\ Total' \in Nat
      BY <1>8, <2>0, <3>1, <3>2, <3>3
    <3> QED BY <1>1, <1>2, <1>4, <2>0, <3>4 DEF Counted
  <2>2. CASE ~(clearn /\ clearn')
    <3>1. Clearing
      BY <1>5, <2>2 DEF Steady
    <3>2. Piped(duc') = 0 /\ fifo' = 0 /\ sent' \in {0, sent}
      BY <2>2, DacParts, ResetType
    <3>3. Total' = sent' + One(bus.op = "sample")
      BY <2>0, <3>2 DEF Total
    <3>4. Total = sent + Piped(duc) + fifo + One(bus.op = "sample") /\ Piped(duc) \in Nat
      BY DEF Total, Piped, One
    <3>5. Total' <= Total /\ Total \in Nat /\ Total' \in Nat
      BY <1>8, <2>0, <3>2, <3>3, <3>4
    <3> QED BY <1>1, <1>2, <1>4, <2>0, <3>1, <3>5 DEF Counted
  <2> QED BY <2>1, <2>2
<1>11. clearn /\ clearn' => Burst' /\ (Before => Before') /\ (During /\ ~txstop => During')
  BY <1>7, DacBurst
<1>12. Stopping'
  <2>1. (Filling' <=> Filling) /\ (Sending' <=> Sending)
    BY <1>2, <1>4 DEF Filling, Sending
  <2>2. Filling \/ Sending => clearn /\ clearn'
    BY <1>5 DEF Clearing, Asked, Filling, Sending, Steady
  <2>3. Sending => ~txstop
    BY <1>1 DEF Stopping, Sending, Asked
  <2>4. (Filling' => Before') /\ (Sending' => During')
    BY <1>1, <1>11, <2>1, <2>2, <2>3 DEF Stopping
  <2> QED BY <1>1, <1>2, <1>4, <2>4 DEF Stopping
<1>13. Clears'
  <2>1. CASE ~Clearing
    BY <1>4, <1>5, <1>11, <2>1 DEF Clears, Steady
  <2>2. CASE Clearing /\ Requested
    <3>1. clear_enable /\ clearn /\ On(ackn) /\ reset.state \in {"RUN", "CLEAR"} /\ Burst
      BY <2>2 DEF Requested
    <3>2. CASE reset.state = "RUN"
      <4>1. clearn' /\ reset'.state \in {"RUN", "CLEAR"}
        BY <1>1, <3>2 DEF whitebox_reset, Types
      <4> QED BY <1>2, <1>4, <1>11, <2>2, <3>1, <4>1 DEF Clears, Requested
    <3>3. CASE reset.state = "CLEAR"
      <4>1. ~clearn' /\ reset' = [state |-> "CLEARING", count |-> ClearTicks]
        BY <1>1, <3>3 DEF whitebox_reset
      <4>2. Still(duc')
        BY <4>1, DacParts, ResetType
      <4>3. ~txstop
        BY <1>1, <2>2 DEF Stopping, Clearing, Asked
      <4>4. /\ reset'.state = "CLEARING" /\ reset'.count = ClearTicks /\ ClearTicks \in Nat
            /\ ackn[1] /\ ackn[2]
        BY <3>1, <4>1, TicksAssumption DEF On
      <4>5. txen => Off(txlast)
        BY <3>1, <4>3 DEF Burst, Before, During, After
      <4>6. Resetting'
        BY <1>2, <1>8, <3>1, <4>1, <4>2, <4>3, <4>4, <4>5 DEF Resetting
      <4> QED BY <1>4, <2>2, <4>6 DEF Clears
    <3> QED BY <3>1, <3>2, <3>3
  <2>3. CASE Clearing /\ Resetting
    <3>1. ~clearn /\ reset.state = "CLEARING" /\ clear_enable
      BY <1>1, <1>2, <2>3 DEF Resetting, Types
    <3>2. /\ ~clearn'
          /\ reset' = IF reset.count = 0 THEN [state |-> "RUN", count |-> 0]
                      ELSE [reset EXCEPT !.count = @ - 1]
      BY <1>1, <3>1 DEF whitebox_reset
    <3>3. Still(duc')
      BY <3>2, DacParts, ResetType
    <3>4. ~ackn[1] /\ (reset.count < ClearTicks => ~ackn[2])
      BY <1>2, <2>3 DEF Resetting
    <3>5. /\ reset.count \in 0 .. ClearTicks /\ ClearTicks \in Nat /\ ClearTicks # 0
          /\ reset \in [state : {"CLEAR", "CLEARING", "RUN"}, count : 0 .. ClearTicks]
      BY <1>1, TicksAssumption DEF Types
    <3>6. /\ reset'.state \in {"RUN", "CLEARING"}
          /\ reset'.state = "RUN" => ~ackn[2]
      BY <3>1, <3>2, <3>4, <3>5
    <3>7. Resetting'
      BY <1>2, <1>8, <2>3, <3>1, <3>2, <3>3, <3>4, <3>6 DEF Resetting
    <3> QED BY <1>4, <2>3, <3>7 DEF Clears
  <2>4. CASE Clearing /\ Done
    <3>1. ~clear_enable /\ Before /\ fifo = 0
      BY <2>4 DEF Done
    <3>2. Before'
      <4>1. CASE clearn /\ clearn'
        BY <1>11, <3>1, <4>1
      <4>2. CASE ~(clearn /\ clearn')
        <5>1. Still(duc')
          BY <4>2, DacParts, ResetType
        <5> QED BY <1>2, <3>1, <5>1 DEF Before
      <4> QED BY <4>1, <4>2
    <3>3. Done'
      BY <1>2, <1>8, <3>1, <3>2 DEF Done
    <3> QED BY <1>4, <2>4, <3>3 DEF Clears
  <2> QED BY <1>6, <2>1, <2>2, <2>3, <2>4
<1> QED BY <1>3, <1>4, <1>9, <1>10, <1>12, <1>13 DEF IInv

----------------------------------------------------------------------------
(* A tick of pclk. *)

(* The status register is written in this tick.                            *)
Writes == bus.phase = "ACCESS" /\ bus.op = "write"
Stored == bus.phase = "DONE" /\ bus.op = "sample"

LEMMA BusMoves ==
  ASSUME Types, BusOwner, PclkTick
  PROVE  /\ bus' \in BusType
         /\ bus.phase = "IDLE" => bus' = bus
         /\ bus.phase = "SETUP" => bus'.phase = "ACCESS" /\ bus'.op = bus.op
         /\ bus.phase = "ACCESS" => /\ bus'.phase = "DONE" /\ bus'.op = bus.op
                                    /\ bus'.we <=> bus.op = "sample" /\ ~full
         /\ bus.phase = "DONE" => bus'.phase = "IDLE" /\ bus'.op = "none"
<1>0. bus \in BusType /\ bus.op \in BusOps /\ bus.phase \in {"IDLE", "SETUP", "ACCESS", "DONE"}
  BY DEF Types, BusType
<1>1. CASE bus.phase = "IDLE"
  BY <1>0, <1>1 DEF PclkTick
<1>2. CASE bus.phase = "SETUP"
  <2>1. bus' = [bus EXCEPT !.phase = "ACCESS"]
    BY <1>2 DEF PclkTick
  <2>2. bus \in [phase : {"IDLE", "SETUP", "ACCESS"}, op : BusOps]
    BY <1>0, <1>2 DEF BusType
  <2> QED BY <1>2, <2>1, <2>2 DEF BusType
<1>3. CASE bus.phase = "ACCESS"
  <2>1. PICK w \in BOOLEAN : w = (bus.op = "sample" /\ ~full)
    <3>1. (bus.op = "sample" /\ ~full) \in BOOLEAN
      OBVIOUS
    <3> QED BY <3>1, Zenon
  <2>2. bus' = [phase |-> "DONE", op |-> bus.op, we |-> bus.op = "sample" /\ ~full]
    BY <1>3 DEF PclkTick
  <2>3. bus' = [phase |-> "DONE", op |-> bus.op, we |-> w]
    BY <2>1, <2>2, Zenon
  <2> QED BY <1>0, <1>3, <2>1, <2>3 DEF BusType
<1>4. CASE bus.phase = "DONE"
  <2>1. bus' = [phase |-> "IDLE", op |-> "none"]
    BY <1>4 DEF PclkTick
  <2> QED BY <1>4, <2>1 DEF BusType, BusOps
<1> QED BY <1>0, <1>1, <1>2, <1>3, <1>4

LEMMA PclkParts ==
  ASSUME IInv, PclkTick
  PROVE  /\ UNCHANGED <<clearn, reset, clear_en, duc, todo, given, sent>>
         /\ lap'
         /\ ackn'[1] = clearn /\ ackn'[2] = ackn[1]
         /\ txlast'[1] = (duc.out = "last") /\ txlast'[2] = txlast[1]
         /\ dmaready' <=> ~full
         /\ full' <=> clearn /\ fifo >= Depth
         /\ ~Stored => fifo' = fifo
         /\ Stored /\ bus.we /\ clearn /\ fifo < Depth => fifo' = fifo + 1
         /\ adj' = IF Stored THEN WriteAdj ELSE IF adj > 0 THEN adj - 1 ELSE 0
         /\ val' = IF bus.phase = "ACCESS" /\ bus.op = "read" THEN Status ELSE val
         /\ bus.phase # "DONE" => cpu' = cpu
         /\ bus.phase = "DONE" => cpu' = Returned
BY DEF PclkTick, dacVars, dac_last, Stored

LEMMA PclkTypes ==
  ASSUME IInv, PclkTick
  PROVE  /\ lap' \in BOOLEAN /\ ackn' \in Pair /\ txlast' \in Pair /\ dmaready' \in BOOLEAN
         /\ full' \in BOOLEAN /\ txen' \in BOOLEAN /\ txstop' \in BOOLEAN
         /\ clear_enable' \in BOOLEAN
<1>1. /\ clearn \in BOOLEAN /\ ackn[1] \in BOOLEAN /\ txlast[1] \in BOOLEAN /\ dac_last \in BOOLEAN
      /\ clear_enable \in BOOLEAN /\ txen \in BOOLEAN /\ txstop \in BOOLEAN
  BY DEF IInv, Types, Pair, dac_last
<1>2. lap' \in BOOLEAN /\ dmaready' \in BOOLEAN /\ full' \in BOOLEAN
  BY Zenon DEF PclkTick
<1>3. ackn' \in Pair /\ txlast' \in Pair
  BY <1>1, Zenon DEF PclkTick, Pair
<1>4. PICK w : controller(w)
  BY Zenon DEF PclkTick
<1>5. txen' \in BOOLEAN /\ txstop' \in BOOLEAN /\ clear_enable' \in BOOLEAN
  <2>1. PICK a, b, c, d \in BOOLEAN :
          /\ a = (clear_enable /\ ackn[2]) /\ b = (txstop /\ ~(~ackn[2] \/ txlast[2]))
          /\ c = (txen /\ ~(~ackn[2] \/ txlast[2])) /\ d = ("TXEN" \in w)
    <3>1. /\ (clear_enable /\ ackn[2]) \in BOOLEAN /\ (txstop /\ ~(~ackn[2] \/ txlast[2])) \in BOOLEAN
          /\ (txen /\ ~(~ackn[2] \/ txlast[2])) \in BOOLEAN /\ ("TXEN" \in w) \in BOOLEAN
      OBVIOUS
    <3> QED BY <3>1, Zenon
  <2>2. clear_enable' \in {TRUE, a} /\ txstop' \in {TRUE, b} /\ txen' \in {c, d}
    <3>1. clear_enable' = IF "CLEAR" \in w THEN TRUE ELSE a
      BY <1>4, <2>1, Zenon DEF controller
    <3>2. txstop' = IF "CLEAR" \notin w /\ "TXSTOP" \in w THEN TRUE ELSE b
      BY <1>4, <2>1, Zenon DEF controller
    <3>3. txen' = IF w \cap {"CLEAR", "TXSTOP"} = {} /\ w # {} THEN d ELSE c
      BY <1>4, <2>1, Zenon DEF controller
    <3> QED BY <3>1, <3>2, <3>3, Zenon
  <2> QED BY <2>1, <2>2
<1> QED BY <1>2, <1>3, <1>5

(* The flags of the status register.                                       *)
LEMMA FlagsMove ==
  ASSUME IInv, PclkTick
  PROVE  /\ Writes => cpu \in Writing
         /\ ~Writes \/ cpu = "txen_wr" \/ cpu = "stop_wr" =>
              (clear_enable' <=> clear_enable /\ ackn[2])
         /\ Writes /\ cpu = "clear_wr" => clear_enable'
         /\ ~(Writes /\ cpu = "txen_wr") => (txen' <=> txen /\ ackn[2] /\ ~txlast[2])
         /\ Writes /\ cpu = "txen_wr" => txen'
         /\ ~(Writes /\ cpu = "stop_wr") => (txstop' <=> txstop /\ ackn[2] /\ ~txlast[2])
         /\ Writes /\ cpu = "stop_wr" => txstop'
<1>1. Writes => cpu \in Writing
  BY DEF IInv, BusOwner, Writes
<1>2. PICK w : w = (IF Writes THEN val \cup Mask ELSE {}) /\ controller(w)
  BY Zenon DEF PclkTick, Writes
<1>3. val \subseteq {"TXEN"}
  BY DEF IInv, Types
<1>4. ~Writes => w = {}
  BY <1>2
<1>5. Writes /\ cpu = "clear_wr" => "CLEAR" \in w /\ "TXSTOP" \notin w
  BY <1>2, <1>3 DEF Mask
<1>6. Writes /\ cpu = "txen_wr" => "CLEAR" \notin w /\ "TXSTOP" \notin w /\ "TXEN" \in w
  BY <1>2, <1>3 DEF Mask
<1>7. Writes /\ cpu = "stop_wr" => "CLEAR" \notin w /\ "TXSTOP" \in w
  BY <1>2, <1>3 DEF Mask
<1>8. /\ clear_enable' <=> IF "CLEAR" \in w THEN TRUE ELSE clear_enable /\ ackn[2]
      /\ txstop' <=> IF "CLEAR" \notin w /\ "TXSTOP" \in w THEN TRUE
                     ELSE txstop /\ ~(~ackn[2] \/ txlast[2])
      /\ txen' <=> IF w \cap {"CLEAR", "TXSTOP"} = {} /\ w # {} THEN "TXEN" \in w
                   ELSE txen /\ ~(~ackn[2] \/ txlast[2])
  BY <1>2 DEF controller
<1>9. w \cap {"CLEAR", "TXSTOP"} = {} <=> "CLEAR" \notin w /\ "TXSTOP" \notin w
  OBVIOUS
<1>10. CASE ~Writes
  BY <1>1, <1>4, <1>8, <1>10
<1>11. CASE Writes /\ cpu = "clear_wr"
  BY <1>1, <1>5, <1>8, <1>9, <1>11
<1>12. CASE Writes /\ cpu = "txen_wr"
  BY <1>1, <1>6, <1>8, <1>9, <1>12
<1>13. CASE Writes /\ cpu = "stop_wr"
  BY <1>1, <1>7, <1>8, <1>9, <1>13
<1> QED BY <1>1, <1>10, <1>11, <1>12, <1>13 DEF Writing

(* The burst, when no reset is under way.                                  *)
LEMMA PclkBurst ==
  ASSUME IInv, PclkTick, On(ackn), Burst
  PROVE  /\ Burst'
         /\ Before => Before' \/ (Writes /\ cpu = "txen_wr" /\ During')
         /\ During => During'
<1>0. /\ Types /\ BusOwner /\ Stopping /\ ackn[2] /\ duc' = duc /\ todo' = todo
      /\ txlast'[1] = (duc.out = "last") /\ txlast'[2] = txlast[1]
  BY PclkParts DEF IInv, On
<1>1. /\ Writes /\ cpu = "stop_wr" => During
      /\ Writes /\ cpu = "txen_wr" => Before
  BY <1>0 DEF Stopping, Filling, Sending, Asked, Writes
<1>2. NoDma => NoDma' /\ fifo' = fifo
  BY <1>0, BusMoves, PclkParts DEF NoDma, Stored, Types, BusType
<1>3. txstop => NoDma
  BY <1>0 DEF Stopping, BusOwner, Asked
<1>4. ASSUME Before PROVE Before' \/ (Writes /\ cpu = "txen_wr" /\ During')
  <2>1. ~txen /\ ~txstop /\ ~txlast[1] /\ ~txlast[2] /\ Still(duc)
    BY <1>4 DEF Before, Off
  <2>2. /\ duc.out # "last" /\ ~duc.done /\ NoTag(duc, "last") /\ NoWord(duc)
        /\ ~duc.txen[2] /\ ~duc.txstop[1] /\ ~duc.txstop[2]
    BY <2>1 DEF Still, NoTag, Off
  <2>3. Off(txlast')
    BY <1>0, <2>1, <2>2 DEF Off
  <2>4. CASE Writes /\ cpu = "txen_wr"
    <3>1. txen'
      BY <2>4, FlagsMove
    <3>2. Timed(duc)
      BY <2>2 DEF NoWord, Timed
    <3> QED BY <1>0, <2>2, <2>3, <2>4, <3>1, <3>2 DEF During
  <2>5. CASE ~(Writes /\ cpu = "txen_wr")
    <3>1. ~(Writes /\ cpu = "stop_wr")
      BY <1>1, <2>1 DEF During
    <3>2. ~txen' /\ ~txstop'
      BY <2>1, <2>5, <3>1, FlagsMove
    <3> QED BY <1>0, <2>1, <2>3, <3>2 DEF Before
  <2> QED BY <2>4, <2>5
<1>5. ASSUME During PROVE During'
  <2>1. txen /\ ~txlast[1] /\ ~txlast[2] /\ duc.out # "last"
    BY <1>5 DEF During, Off, NoTag
  <2>2. Off(txlast')
    BY <1>0, <2>1 DEF Off
  <2>3. txen' /\ (txstop => txstop')
    BY <1>0, <2>1, FlagsMove
  <2>4. duc.txstop[1] /\ duc.empty => fifo' = 0
    BY <1>2, <1>3, <1>5 DEF During
  <2> QED BY <1>0, <1>5, <2>1, <2>2, <2>3, <2>4 DEF During
<1>6. ASSUME After, ~Before, ~During PROVE After'
  <2>1. ~(Writes /\ cpu = "stop_wr") /\ ~(Writes /\ cpu = "txen_wr")
    BY <1>1, <1>6
  <2>2. txen' <=> txstop'
    BY <1>6, <2>1, FlagsMove DEF After
  <2>3. NoDma' /\ fifo' = 0
    BY <1>2, <1>6 DEF After
  <2>4. LastOut' => LastOut
    BY <1>0 DEF LastOut, Off
  <2> QED BY <1>0, <1>6, <2>2, <2>3, <2>4 DEF After
<1> QED BY <1>4, <1>5, <1>6 DEF Burst

(* Where the driver goes.                                                  *)
LEMMA CpuMoves ==
  ASSUME IInv, PclkTick
  PROVE  /\ cpu' \in CpuSteps
         /\ Asked("clear_wr") => cpu' = "clearing"
         /\ Asked("txen_wr") => cpu' = "sending"
         /\ Asked("stop_wr") => cpu' = "stopping"
         /\ bus.phase = "DONE" /\ bus.op = "read" =>
              \/ cpu = "clear_rd" /\ cpu' = "clear_wr"
              \/ cpu = "txen_rd" /\ cpu' = "txen_wr"
              \/ cpu = "stop_rd" /\ cpu' = "stop_wr"
              \/ cpu = "stopping" /\ cpu' = IF "TXEN" \in val THEN "stopping" ELSE "off"
         /\ bus.phase # "DONE" \/ bus.op \in {"none", "sample"} => cpu' = cpu
<1>1. /\ cpu \in CpuSteps /\ bus.op \in BusOps
      /\ bus.op = "read" => cpu \in Reading
      /\ bus.op = "write" => cpu \in Writing
      /\ bus.phase = "IDLE" <=> bus.op = "none"
  BY DEF IInv, Types, BusType, BusOwner
<1>2. CASE bus.phase # "DONE"
  BY <1>1, <1>2, PclkParts DEF Asked
<1>3. CASE bus.phase = "DONE" /\ bus.op = "sample"
  <2>1. cpu' = cpu
    BY <1>3, PclkParts DEF Returned
  <2> QED BY <1>1, <1>3, <2>1 DEF Asked
<1>4. CASE bus.phase = "DONE" /\ bus.op = "read"
  <2>1. /\ cpu = "clear_rd" => cpu' = "clear_wr"
        /\ cpu = "txen_rd" => cpu' = "txen_wr"
        /\ cpu = "stop_rd" => cpu' = "stop_wr"
        /\ cpu = "stopping" => cpu' = IF "TXEN" \in val THEN "stopping" ELSE "off"
    BY <1>4, PclkParts DEF Returned
  <2> QED BY <1>1, <1>4, <2>1 DEF Asked, Reading, Writing, CpuSteps
<1>5. CASE bus.phase = "DONE" /\ bus.op = "write"
  <2>1. /\ cpu = "clear_wr" => cpu' = "clearing"
        /\ cpu = "txen_wr" => cpu' = "sending"
        /\ cpu = "stop_wr" => cpu' = "stopping"
    BY <1>5, PclkParts DEF Returned
  <2> QED BY <1>1, <1>5, <2>1 DEF Asked, Reading, Writing, CpuSteps
<1> QED BY <1>1, <1>2, <1>3, <1>4, <1>5 DEF BusOps

LEMMA PclkBus ==
  ASSUME IInv, PclkTick
  PROVE  BusOwner'
<1>0. Types /\ BusOwner /\ todo' = todo /\ bus.op \in BusOps
      /\ bus.phase \in {"IDLE", "SETUP", "ACCESS", "DONE"}
  BY PclkParts DEF IInv, Types, BusType
<1>1. /\ bus'.phase = "IDLE" <=> bus'.op = "none"
      /\ bus'.op = "none" \/ (bus'.op = bus.op /\ bus.phase # "DONE")
  BY <1>0, BusMoves DEF BusOwner
<1>2. CASE bus.phase # "DONE"
  <2>1. cpu' = cpu /\ (NoDma => NoDma')
    BY <1>0, <1>1, <1>2, CpuMoves DEF NoDma
  <2> QED BY <1>0, <1>1, <2>1 DEF BusOwner
<1>3. CASE bus.phase = "DONE"
  <2>1. bus'.op = "none"
    BY <1>1, <1>3
  <2>2. NoDma => NoDma'
    BY <1>0, <2>1 DEF NoDma
  <2>3. cpu' \in {"clear_wr", "clearing", "stop_wr", "stopping", "off"} /\ cpu' # cpu => todo = 0
    BY <1>0, <1>3, CpuMoves DEF BusOwner, NoDma, BusOps, Asked, Writing
  <2>4. cpu' \in {"stop_rd", "clear_rd"} => cpu' = cpu
    BY <1>0, <1>3, CpuMoves DEF BusOwner, BusOps, Asked, Writing
  <2> QED BY <1>0, <1>1, <2>1, <2>2, <2>3, <2>4 DEF BusOwner, NoDma
<1> QED BY <1>2, <1>3

LEMMA PclkRoom ==
  ASSUME IInv, PclkTick
  PROVE  Room' /\ adj' \in 0 .. WriteAdj /\ fifo' \in 0 .. Depth
         /\ (Stored => fifo' = fifo + 1 /\ bus'.op = "none")
<1>0. /\ Types /\ BusOwner /\ Room /\ fifo \in 0 .. Depth /\ adj \in 0 .. WriteAdj
      /\ Depth \in Nat /\ Depth # 0 /\ WriteAdj \in Nat /\ WriteAdj >= 2
  BY DepthAssumption, TicksAssumption DEF IInv, Types
<1>1. bus.op = "sample" => clearn
  <2>1. bus.op = "sample" => ~Clearing
    BY <1>0 DEF BusOwner, NoDma, Clearing, Asked
  <2> QED BY <2>1 DEF IInv, Clears, Steady
<1>2. /\ clearn' = clearn
      /\ dmaready' <=> ~full
      /\ full' <=> clearn /\ fifo >= Depth
      /\ adj' = IF Stored THEN WriteAdj ELSE IF adj > 0 THEN adj - 1 ELSE 0
      /\ ~Stored => fifo' = fifo
      /\ Stored /\ bus.we /\ clearn /\ fifo < Depth => fifo' = fifo + 1
  BY PclkParts
<1>3. CASE Stored
  <2>1. bus'.op = "none" /\ fifo' = fifo + 1 /\ clearn /\ fifo < Depth /\ adj' = WriteAdj
    BY <1>0, <1>1, <1>2, <1>3, BusMoves DEF Stored, Room
  <2> QED BY <1>0, <1>2, <2>1 DEF Room
<1>4. CASE ~Stored
  <2>1. /\ fifo' = fifo /\ adj' = (IF adj > 0 THEN adj - 1 ELSE 0) /\ adj' \in 0 .. WriteAdj
    BY <1>0, <1>2, <1>4
  <2>2. ~full' => fifo < Depth
    BY <1>0, <1>2 DEF Room
  <2>3. fifo < Depth => ~full'
    BY <1>0, <1>2
  <2>4. adj' < WriteAdj - 1 => adj < WriteAdj
    BY <1>0, <2>1
  <2>5. bus'.op = "sample" =>
          /\ bus.op = "sample" /\ bus'.phase # "IDLE"
          /\ bus'.phase = "DONE" => bus.phase = "ACCESS" /\ bus'.we
    BY <1>0, <1>4, BusMoves DEF Room, Stored, Types, BusType, BusOwner
  <2>6. bus'.op = "sample" => adj' = 0 /\ fifo < Depth
    BY <1>0, <2>1, <2>5 DEF Room
  <2> QED BY <1>0, <1>2, <1>4, <2>1, <2>2, <2>3, <2>4, <2>5, <2>6 DEF Room
<1> QED BY <1>3, <1>4

(* The parts of a tick of pclk that the reset line decides.                *)
LEMMA PclkClearing ==
  ASSUME IInv, PclkTick
  PROVE  /\ Clearing => Clearing' /\ ~Writes /\ ~Stored /\ cpu' = "clearing"
         /\ ~Clearing => (Clearing' <=> Writes /\ cpu = "clear_wr")
<1>0. /\ BusOwner /\ bus.op \in BusOps /\ bus.phase \in {"IDLE", "SETUP", "ACCESS", "DONE"}
      /\ Types
  BY DEF IInv, Types, BusType
<1>1. ASSUME Clearing PROVE Clearing' /\ ~Writes /\ ~Stored /\ cpu' = "clearing"
  <2>1. CASE cpu = "clearing"
    <3>1. bus.op = "none" /\ bus.phase = "IDLE"
      BY <1>0, <2>1 DEF BusOwner, NoDma, Reading, Writing, BusOps
    <3>2. cpu' = "clearing"
      BY <2>1, <3>1, CpuMoves
    <3> QED BY <3>1, <3>2 DEF Clearing, Writes, Stored
  <2>2. CASE Asked("clear_wr")
    BY <2>2, CpuMoves DEF Clearing, Asked, Writes, Stored
  <2> QED BY <1>1, <2>1, <2>2 DEF Clearing
<1>2. ASSUME ~Clearing PROVE Clearing' <=> Writes /\ cpu = "clear_wr"
  <2>1. cpu # "clearing" /\ ~Asked("clear_wr")
    BY <1>2 DEF Clearing
  <2>2. cpu' # "clearing"
    BY <1>0, <2>1, CpuMoves DEF BusOwner, BusOps, Asked, Writing
  <2>3. (cpu' = "clear_wr" /\ bus'.phase = "DONE" /\ bus'.op = "write") <=> (Writes /\ cpu = "clear_wr")
    BY <1>0, BusMoves, CpuMoves DEF Writes, BusOwner
  <2> QED BY <2>2, <2>3 DEF Clearing, Asked
<1> QED BY <1>1, <1>2

LEMMA PclkStep == ASSUME IInv, PclkTick PROVE IInv'
<1>0. /\ Types /\ BusOwner /\ Counted /\ Room /\ Stopping /\ Clears
      /\ UNCHANGED <<clearn, reset, clear_en, duc, todo, given, sent>>
  BY PclkParts DEF IInv
<1>1. bus.phase = "ACCESS" /\ bus.op = "read" => cpu \in Reading /\ ~Clearing /\ clearn
  BY <1>0 DEF BusOwner, Reading, Clearing, Asked, Clears, Steady
<1>2. val' \subseteq {"TXEN"}
  <2>1. val' = IF bus.phase = "ACCESS" /\ bus.op = "read" THEN Status ELSE val
    BY PclkParts
  <2>2. clearn => Status \subseteq {"TXEN"}
    BY DEF Status
  <2> QED BY <1>0, <1>1, <2>1, <2>2 DEF Types
<1>3. Types'
  <2>1. bus' \in BusType /\ cpu' \in CpuSteps
    BY <1>0, BusMoves, CpuMoves
  <2> QED BY <1>0, <1>2, <2>1, PclkTypes, PclkRoom DEF Types
<1>4. BusOwner' /\ Room'
  BY PclkBus, PclkRoom
<1>5. Counted'
  <2>1. Total' = Total /\ Total \in Int
    <3>1. Piped(duc) \in Nat /\ sent \in Nat /\ fifo \in Nat /\ fifo' \in Nat
      BY <1>0, <1>3, DepthAssumption DEF Types, Piped, One
    <3>2. CASE Stored
      <4>1. One(bus.op = "sample") = 1 /\ One(bus.op = "sample")' = 0
        BY <3>2, PclkRoom DEF One, Stored
      <4> QED BY <1>0, <3>1, <3>2, <4>1, PclkRoom DEF Total
    <3>3. CASE ~Stored
      <4>1. fifo' = fifo
        BY <3>3, PclkParts
      <4>2. bus'.op = "sample" <=> bus.op = "sample"
        BY <1>0, <3>3, BusMoves DEF Stored, Types, BusType, BusOwner
      <4>3. One(bus.op = "sample")' = One(bus.op = "sample") /\ One(bus.op = "sample") \in Nat
        BY <4>2 DEF One
      <4> QED BY <1>0, <3>1, <4>1, <4>3 DEF Total
    <3> QED BY <3>2, <3>3
  <2>2. Clearing => Clearing'
    BY PclkClearing
  <2>3. given' = given /\ given \in Int
    BY <1>0 DEF Types
  <2> QED BY <1>0, <2>1, <2>2, <2>3 DEF Counted
<1>6. ~Clearing => Steady /\ Burst /\ On(ackn)
  BY <1>0 DEF Clears, Steady
<1>7. Clearing => Requested \/ Resetting \/ Done
  BY <1>0 DEF Clears
<1>8. Stopping'
  <2>0. /\ bus.op \in BusOps /\ bus.phase \in {"IDLE", "SETUP", "ACCESS", "DONE"}
        /\ cpu \in CpuSteps
    BY <1>0 DEF Types, BusType
  <2>1. ~Clearing =>
          /\ Burst'
          /\ Before => Before' \/ (Writes /\ cpu = "txen_wr" /\ During')
          /\ During => During'
          /\ ~txen => ~txstop
    BY <1>6, PclkBurst DEF Burst, Before, During, After
  <2>2. \A c : Asked(c)' <=> Writes /\ cpu = c
    BY <1>0, <2>0, BusMoves, CpuMoves DEF Asked, Writes, BusOwner
  <2>3. cpu' = "off" => ~txen /\ ~Writes
    BY <1>0, <2>0, CpuMoves DEF Stopping, BusOwner, BusOps, Asked, Writing, Writes
  <2>4. txstop' => cpu' = "stopping" \/ Asked("stop_wr")'
    <3> SUFFICES ASSUME txstop', ~(Writes /\ cpu = "stop_wr") PROVE cpu' = "stopping"
      BY <2>2
    <3>1. txstop
      BY FlagsMove
    <3>2. cpu = "stopping" \/ Asked("stop_wr")
      BY <1>0, <3>1 DEF Stopping
    <3>3. CASE cpu = "stopping"
      <4>1. ~Clearing
        BY <3>3 DEF Clearing, Asked
      <4>2. cpu' \in {"stopping", "off"}
        BY <1>0, <2>0, <3>3, CpuMoves DEF BusOwner, BusOps, Asked, Writing
      <4> QED BY <2>1, <2>3, <3>1, <4>1, <4>2
    <3>4. CASE Asked("stop_wr")
      BY <3>4, CpuMoves
    <3> QED BY <3>2, <3>3, <3>4
  <2>5. Filling' => Filling /\ ~(Writes /\ cpu = "txen_wr") /\ ~Clearing
    <3> SUFFICES ASSUME Filling'
                 PROVE  Filling /\ ~(Writes /\ cpu = "txen_wr") /\ ~Clearing
      OBVIOUS
    <3>1. cpu' \in {"fill", "txen_rd", "txen_wr"} /\ (cpu' = "txen_wr" => ~(Writes /\ cpu = "txen_wr"))
      BY <2>2 DEF Filling
    <3>2. cpu' = cpu \/ (cpu = "txen_rd" /\ cpu' = "txen_wr")
      BY <1>0, <2>0, <3>1, CpuMoves DEF BusOwner, BusOps, Asked, Writing
    <3>3. ~Asked("txen_wr") /\ ~(Writes /\ cpu = "txen_wr")
      BY <3>1, <3>2, CpuMoves DEF Asked, Writes
    <3> QED BY <3>1, <3>2, <3>3 DEF Filling, Clearing, Asked
  <2>6. Sending' => (Sending \/ (Writes /\ cpu = "txen_wr")) /\ ~Clearing
    <3> SUFFICES ASSUME Sending' PROVE (Sending \/ (Writes /\ cpu = "txen_wr")) /\ ~Clearing
      OBVIOUS
    <3>1. CASE Writes /\ cpu = "txen_wr"
      BY <3>1 DEF Clearing, Asked
    <3>2. CASE ~(Writes /\ cpu = "txen_wr")
      <4>1. cpu' \in {"sending", "stop_rd", "stop_wr"}
            /\ (cpu' = "stop_wr" => ~(Writes /\ cpu = "stop_wr"))
        BY <2>2, <3>2 DEF Sending
      <4>2. cpu' = cpu \/ (cpu = "stop_rd" /\ cpu' = "stop_wr") \/ Asked("txen_wr")
        BY <1>0, <2>0, <4>1, CpuMoves DEF BusOwner, BusOps, Asked, Writing
      <4>3. ~Asked("stop_wr")
        BY <4>1, CpuMoves
      <4> QED BY <4>1, <4>2, <4>3 DEF Sending, Clearing, Asked
    <3> QED BY <3>1, <3>2
  <2>7. Filling' => Before'
    BY <1>0, <2>1, <2>5 DEF Stopping
  <2>8. Sending' => During'
    <3>1. CASE Writes /\ cpu = "txen_wr"
      <4>1. Filling /\ ~Clearing
        BY <3>1 DEF Filling, Clearing, Asked, Writes
      <4>2. Before /\ txen'
        BY <1>0, <3>1, <4>1, FlagsMove DEF Stopping
      <4> QED BY <2>1, <4>1, <4>2 DEF Before
    <3>2. CASE ~(Writes /\ cpu = "txen_wr")
      BY <1>0, <2>1, <2>6, <3>2 DEF Stopping
    <3> QED BY <3>1, <3>2
  <2>9. cpu' = "stopping" /\ bus'.phase = "DONE" /\ bus'.op = "read" /\ txen' => "TXEN" \in val'
    <3> SUFFICES ASSUME cpu' = "stopping", bus'.phase = "DONE", bus'.op = "read", txen'
                 PROVE  "TXEN" \in val'
      OBVIOUS
    <3>1. bus.phase = "ACCESS" /\ bus.op = "read"
      BY <1>0, <2>0, BusMoves DEF BusOwner
    <3>2. txen
      BY <3>1, FlagsMove DEF Writes
    <3>3. val' = Status
      BY <3>1, PclkParts
    <3> QED BY <3>2, <3>3 DEF Status
  <2>10. cpu' = "off" => ~txen'
    BY <2>3, FlagsMove
  <2> QED BY <2>4, <2>7, <2>8, <2>9, <2>10 DEF Stopping
<1>9. Clears'
  <2>0. ackn'[1] = clearn /\ ackn'[2] = ackn[1] /\ lap' /\ txlast'[1] = (duc.out = "last")
        /\ txlast'[2] = txlast[1]
    BY PclkParts
  <2>1. CASE ~Clearing
    <3>1. clearn /\ On(ackn) /\ ~clear_enable /\ Off(clear_en) /\ reset.state = "RUN" /\ Burst'
      BY <1>6, <2>1, PclkBurst DEF Steady
    <3>2. On(ackn')
      BY <2>0, <3>1 DEF On
    <3>3. CASE Writes /\ cpu = "clear_wr"
      <4>1. clear_enable' /\ Clearing'
        BY <2>1, <3>3, FlagsMove, PclkClearing
      <4> QED BY <1>0, <3>1, <3>2, <4>1 DEF Clears, Requested
    <3>4. CASE ~(Writes /\ cpu = "clear_wr")
      <4>1. ~clear_enable' /\ ~Clearing'
        BY <2>1, <3>1, <3>4, FlagsMove, PclkClearing DEF Writing
      <4> QED BY <1>0, <3>1, <3>2, <4>1 DEF Clears, Steady
    <3> QED BY <3>3, <3>4
  <2>2. CASE Clearing /\ Requested
    <3>1. clear_enable /\ clearn /\ On(ackn) /\ reset.state \in {"RUN", "CLEAR"} /\ Burst
      BY <2>2 DEF Requested
    <3>2. Burst' /\ clear_enable' /\ On(ackn') /\ Clearing'
      BY <2>0, <2>2, <3>1, PclkBurst, FlagsMove, PclkClearing DEF On
    <3> QED BY <1>0, <3>1, <3>2 DEF Clears, Requested
  <2>3. CASE Clearing /\ Resetting
    <3>1. /\ clear_enable /\ ~clearn /\ fifo = 0 /\ Still(duc) /\ ~txstop /\ reset.state # "CLEAR"
          /\ txen => ~txlast[1] /\ ~txlast[2]
          /\ ackn[1] => ackn[2]
          /\ ~ackn[1] => ~txlast[1]
          /\ ~ackn[2] => ~txlast[2]
          /\ lap \/ reset.state = "RUN" \/ reset.count < ClearTicks => ~ackn[1]
          /\ reset.state = "RUN" \/ (lap /\ reset.count < ClearTicks) => ~ackn[2]
      BY <2>3 DEF Resetting, Off
    <3>2. /\ ~Writes /\ Clearing' /\ fifo' = 0 /\ duc.out # "last"
          /\ clear_enable' <=> clear_enable /\ ackn[2]
          /\ txen' <=> txen /\ ackn[2] /\ ~txlast[2]
          /\ txstop' <=> txstop /\ ackn[2] /\ ~txlast[2]
      BY <2>3, <3>1, FlagsMove, PclkClearing, PclkParts DEF Still, NoTag
    <3>3. CASE ackn[2]
      <4>1. /\ clear_enable' /\ ~txstop' /\ ~ackn'[1] /\ ~txlast'[1]
            /\ ~ackn'[2] => ~txlast'[2]
            /\ txen' => ~txlast'[1] /\ ~txlast'[2]
            /\ reset.state # "RUN"
            /\ reset.count < ClearTicks => ~ackn'[2]
        BY <2>0, <3>1, <3>2, <3>3
      <4>2. Resetting'
        BY <1>0, <3>1, <3>2, <4>1 DEF Resetting, Off
      <4> QED BY <3>2, <4>2 DEF Clears
    <3>4. CASE ~ackn[2]
      <4>1. ~clear_enable' /\ ~txen' /\ ~txstop' /\ ~txlast'[1] /\ ~txlast'[2]
        BY <2>0, <3>1, <3>2, <3>4
      <4>2. Done'
        BY <1>0, <3>1, <3>2, <4>1 DEF Done, Before, Off
      <4> QED BY <3>2, <4>2 DEF Clears
    <3> QED BY <3>3, <3>4
  <2>4. CASE Clearing /\ Done
    <3>1. /\ ~clear_enable /\ fifo = 0 /\ ~txen /\ ~txstop /\ ~txlast[1] /\ ~txlast[2]
          /\ Still(duc)
      BY <2>4 DEF Done, Before, Off
    <3>2. /\ Clearing' /\ fifo' = 0 /\ duc.out # "last"
          /\ ~clear_enable' /\ ~txen' /\ ~txstop'
      BY <2>4, <3>1, FlagsMove, PclkClearing, PclkParts DEF Still, NoTag
    <3>3. Done'
      BY <1>0, <2>0, <3>1, <3>2 DEF Done, Before, Off
    <3> QED BY <3>2, <3>3 DEF Clears
  <2> QED BY <1>7, <2>1, <2>2, <2>3, <2>4
<1> QED BY <1>3, <1>4, <1>5, <1>8, <1>9 DEF IInv

----------------------------------------------------------------------------
(* The driver's steps: they leave the exciter alone. *)

LEMMA DriverStep ==
  ASSUME IInv, CpuAccess \/ DmaAccess \/ Clear \/ TxEnable \/ TxStop
  PROVE  IInv'
<1>0. /\ Types /\ BusOwner /\ Counted /\ Room /\ Stopping /\ Clears
      /\ bus.op \in BusOps
  BY DEF IInv, Types, BusType
<1>1. UNCHANGED hwVars /\ val' = val /\ adj' = adj /\ sent' = sent
  BY DEF CpuAccess, DmaAccess, Clear, TxEnable, TxStop, cpuVars
<1>2. /\ UNCHANGED <<txen, txstop, clear_enable, ackn, txlast, dmaready, full>>
      /\ UNCHANGED <<clearn, reset, clear_en, duc, fifo, lap>>
  BY <1>1 DEF hwVars, pclkVars, dacVars
<1>3. sent \in Nat /\ Piped(duc) \in Nat /\ fifo \in Nat /\ given \in Nat /\ todo \in Nat
  BY <1>0, DepthAssumption DEF Types, Piped, One
<1>4. ASSUME ~Clearing, ~Clearing',
             Types', BusOwner', Total = given => Total' = given', Room', Stopping', NoDma => NoDma'
      PROVE  IInv'
  <2>1. Counted'
    <3>1. Total = given
      BY <1>0, <1>4 DEF Counted
    <3> QED BY <1>4, <3>1 DEF Counted
  <2>2. Steady' /\ Burst'
    <3>1. Steady /\ Burst
      BY <1>0, <1>4 DEF Clears
    <3>2. (Before => Before') /\ (During => During') /\ (After => After')
      BY <1>2, <1>4 DEF Before, During, After, LastOut
    <3> QED BY <1>2, <3>1, <3>2 DEF Steady, Burst
  <2> QED BY <1>4, <2>1, <2>2 DEF IInv, Clears
<1>5. (Before => Before') /\ (During => During')
  BY <1>2 DEF Before, During
<1>6. CASE CpuAccess
  <2>1. PICK op \in {"read", "write"} :
          /\ bus.phase = "IDLE" /\ cpu \in Reading \cup Writing
          /\ bus' = [phase |-> "SETUP", op |-> op]
          /\ cpu \in Writing => op = "write"
          /\ cpu \in Reading => op = "read"
          /\ UNCHANGED <<cpu, todo, given>>
    BY <1>0, <1>6 DEF CpuAccess, Types, CpuSteps, Reading, Writing, cpuVars
  <2>2. /\ bus'.phase = "SETUP" /\ bus'.op = op /\ bus' \in BusType /\ bus.op = "none"
    BY <1>0, <2>1 DEF BusType, BusOps, BusOwner
  <2>3. ~Clearing /\ ~Clearing' /\ \A c : ~Asked(c) /\ ~Asked(c)'
    BY <2>1, <2>2 DEF Clearing, Asked, Reading, Writing
  <2>4. Types'
    BY <1>0, <1>1, <1>2, <2>1, <2>2 DEF Types
  <2>5. NoDma => NoDma'
    BY <2>1, <2>2 DEF NoDma
  <2>6. BusOwner'
    BY <1>0, <2>1, <2>2, <2>5 DEF BusOwner
  <2>7. Total' = Total
    BY <1>1, <1>2, <2>1, <2>2 DEF Total, One
  <2>8. Room'
    BY <1>0, <1>1, <1>2, <2>1, <2>2 DEF Room
  <2>9. Stopping'
    BY <1>0, <1>1, <1>2, <1>5, <2>1, <2>2, <2>3 DEF Stopping, Filling, Sending
  <2> QED BY <1>4, <2>1, <2>3, <2>4, <2>5, <2>6, <2>7, <2>8, <2>9
<1>7. CASE DmaAccess
  <2>1. /\ bus.phase = "IDLE" /\ todo > 0 /\ dmaready /\ adj = 0
        /\ bus' = [phase |-> "SETUP", op |-> "sample"]
        /\ todo' = todo - 1 /\ given' = given + 1 /\ cpu' = cpu
    BY <1>7 DEF DmaAccess
  <2>2. bus'.phase = "SETUP" /\ bus'.op = "sample" /\ bus' \in BusType /\ bus.op = "none"
    BY <1>0, <2>1 DEF BusType, BusOps, BusOwner
  <2>3. ~NoDma
    BY <1>3, <2>1 DEF NoDma
  <2>4. cpu \notin {"stop_rd", "stop_wr", "stopping", "off", "clear_wr", "clearing", "clear_rd"}
    BY <1>0, <1>3, <2>1, <2>3 DEF BusOwner
  <2>5. ~Clearing /\ ~Clearing' /\ \A c : ~Asked(c) /\ ~Asked(c)'
    BY <2>1, <2>2, <2>4 DEF Clearing, Asked
  <2>6. Types'
    <3>1. todo' \in Nat /\ given' \in Nat /\ todo' + given' <= MaxWords
      BY <1>0, <1>3, <2>1, DepthAssumption DEF Types
    <3> QED BY <1>0, <1>1, <1>2, <2>1, <2>2, <3>1 DEF Types
  <2>7. BusOwner'
    BY <1>0, <2>1, <2>2, <2>4 DEF BusOwner
  <2>8. Total' = Total + 1 /\ Total \in Int
    BY <1>1, <1>2, <1>3, <2>2 DEF Total, One
  <2>9. Room'
    <3>1. 0 < WriteAdj - 1
      BY TicksAssumption
    <3> QED BY <1>0, <1>1, <1>2, <2>1, <2>2, <3>1 DEF Room
  <2>10. Stopping'
    BY <1>0, <1>1, <1>2, <1>5, <2>1, <2>2, <2>4, <2>5 DEF Stopping, Filling, Sending
  <2>11. Total = given => Total' = given'
    BY <1>3, <2>1, <2>8
  <2> QED BY <1>4, <2>3, <2>5, <2>6, <2>7, <2>9, <2>10, <2>11
<1>8. CASE Clear \/ TxEnable \/ TxStop
  <2>1. /\ bus' = bus /\ given' = given /\ todo' \in {0, todo}
        /\ \/ cpu \in {"fill", "sending", "off"} /\ cpu' = "clear_rd" /\ todo' = 0
           \/ cpu = "fill" /\ cpu' = "txen_rd" /\ todo' = todo
           \/ cpu = "sending" /\ cpu' = "stop_rd" /\ todo' = todo /\ todo = 0 /\ bus.phase = "IDLE"
    BY <1>8 DEF Clear, TxEnable, TxStop
  <2>2. ~Clearing /\ ~Clearing' /\ \A c : cpu = c => ~Asked(c)
    BY <1>0, <2>1 DEF Clearing, Asked, BusOwner, Writing
  <2>3. Types'
    <3>1. cpu' \in CpuSteps
      BY <2>1 DEF CpuSteps, Reading
    <3>2. todo' \in Nat /\ todo' + given' <= MaxWords
      <4>1. todo + given <= MaxWords
        BY <1>0 DEF Types
      <4>2. MaxWords \in Nat
        BY DepthAssumption
      <4>3. given' = given /\ (todo' = 0 \/ todo' = todo)
        BY <2>1
      <4>4. 0 + given <= MaxWords
        BY <1>3, <4>1, <4>2
      <4> QED BY <1>3, <4>1, <4>2, <4>3, <4>4
    <3> QED BY <1>0, <1>1, <1>2, <2>1, <3>1, <3>2 DEF Types
  <2>4. NoDma => NoDma'
    BY <2>1 DEF NoDma
  <2>5. BusOwner'
    <3>1. bus.op \notin {"read", "write"}
      BY <1>0, <2>1 DEF BusOwner, Reading, Writing
    <3> QED BY <1>0, <2>1, <3>1 DEF BusOwner, NoDma
  <2>6. Total' = Total /\ Total \in Int
    BY <1>1, <1>2, <1>3, <2>1 DEF Total, One
  <2>7. Room'
    BY <1>0, <1>1, <1>2, <2>1 DEF Room
  <2>8. Stopping'
    <3>1. ~txstop
      BY <1>0, <2>1 DEF Stopping, Asked
    <3>2. (cpu = "fill" => Before) /\ (cpu = "sending" => During)
      BY <1>0 DEF Stopping, Filling, Sending
    <3>3. (Filling' => cpu = "fill") /\ (Sending' => cpu = "sending")
      BY <2>1 DEF Filling, Sending, Asked
    <3> QED BY <1>2, <1>5, <2>1, <3>1, <3>2, <3>3 DEF Stopping
  <2> QED BY <1>4, <2>1, <2>2, <2>3, <2>4, <2>5, <2>6, <2>7, <2>8
<1> QED BY <1>6, <1>7, <1>8

(* A burst begins when the clear is over.                                  *)
LEMMA FillStep == ASSUME IInv, Fill PROVE IInv'
<1>0. /\ Types /\ BusOwner /\ Room /\ Stopping /\ Clears
  BY DEF IInv
<1>1. /\ cpu = "clearing" /\ reset.state = "RUN" /\ clearn /\ ackn = <<TRUE, TRUE>> /\ ~clear_enable
      /\ clear_en = <<FALSE, FALSE>> /\ sent = 0
      /\ cpu' = "fill" /\ todo' \in 0 .. MaxWords /\ given' = 0
      /\ bus' = bus /\ UNCHANGED hwVars /\ val' = val /\ adj' = adj /\ sent' = sent
  BY DEF Fill
<1>2. /\ UNCHANGED <<txen, txstop, clear_enable, ackn, txlast, dmaready, full>>
      /\ UNCHANGED <<clearn, reset, clear_en, duc, fifo, lap>>
  BY <1>1 DEF hwVars, pclkVars, dacVars
<1>3. Clearing /\ ~Clearing'
  BY <1>1 DEF Clearing, Asked
<1>4. Before /\ fifo = 0
  BY <1>0, <1>1, <1>3 DEF Clears, Requested, Resetting, Done
<1>5. NoDma /\ bus.op # "read" /\ bus.op # "write"
  BY <1>0, <1>1 DEF BusOwner, Reading, Writing
<1>6. Types'
  <2>0. cpu' \in CpuSteps
    BY <1>1 DEF CpuSteps
  <2>1. todo' \in Nat /\ given' \in Nat /\ todo' + given' <= MaxWords /\ cpu' \in CpuSteps
    <3>1. todo' \in 0 .. MaxWords /\ given' = 0
      BY <1>1
    <3>2. MaxWords \in Nat
      BY DepthAssumption
    <3>3. PICK k \in 0 .. MaxWords : todo' = k
      BY <3>1
    <3>4. k \in Nat /\ k + 0 <= MaxWords
      BY <3>2
    <3> QED BY <2>0, <3>1, <3>3, <3>4
  <2> QED BY <1>0, <1>1, <1>2, <2>1 DEF Types
<1>7. BusOwner'
  BY <1>0, <1>1, <1>5 DEF BusOwner, NoDma
<1>8. Counted'
  <2>1. Piped(duc) = 0
    <3>1. /\ duc.pipe[1] = "none" /\ duc.pipe[2] = "none" /\ duc.pipe[3] = "none"
          /\ duc.sample # "word" /\ duc.cic # "word"
      BY <1>4 DEF Before, Still, NoWord, NoTag
    <3> QED BY <3>1 DEF Piped, One
  <2>2. Total' = 0
    BY <1>1, <1>2, <1>4, <1>5, <2>1 DEF Total, One, NoDma
  <2> QED BY <1>1, <1>3, <2>2 DEF Counted
<1>9. Room'
  BY <1>0, <1>1, <1>2 DEF Room
<1>10. Before'
  BY <1>2, <1>4 DEF Before
<1>11. Stopping'
  <2>1. ~Sending' /\ ~txstop'
    BY <1>1, <1>2, <1>4 DEF Sending, Asked, Before
  <2> QED BY <1>1, <1>2, <1>10, <2>1 DEF Stopping
<1>12. Clears'
  BY <1>1, <1>2, <1>3, <1>10 DEF Clears, Steady, Burst, On, Off
<1> QED BY <1>6, <1>7, <1>8, <1>9, <1>11, <1>12 DEF IInv

----------------------------------------------------------------------------
LEMMA Initially == Init => IInv
<1> SUFFICES ASSUME Init PROVE IInv
  OBVIOUS
<1>1. /\ bus = [phase |-> "IDLE", op |-> "none"] /\ ~txen /\ ~txstop /\ ~clear_enable
      /\ ackn = <<TRUE, TRUE>> /\ txlast = <<FALSE, FALSE>> /\ ~dmaready /\ ~full /\ ~clearn
      /\ reset = [state |-> "CLEAR", count |-> 0] /\ clear_en = <<FALSE, FALSE>>
      /\ fifo = 0 /\ duc = DucReset /\ lap /\ cpu = "clearing" /\ val = {}
      /\ todo = 0 /\ adj = 0 /\ given = 0 /\ sent = 0
  BY DEF Init
<1>2. /\ txen \in BOOLEAN /\ txstop \in BOOLEAN /\ clear_enable \in BOOLEAN
      /\ dmaready \in BOOLEAN /\ full \in BOOLEAN /\ clearn \in BOOLEAN /\ lap \in BOOLEAN
      /\ ackn \in Pair /\ txlast \in Pair /\ clear_en \in Pair
  BY Zenon DEF Init, Pair
<1>3. bus \in BusType /\ bus.op = "none" /\ bus.phase = "IDLE" /\ cpu \in CpuSteps
  BY <1>1 DEF BusType, BusOps, CpuSteps
<1>4. 0 \in 0 .. Depth /\ 0 \in 0 .. WriteAdj /\ 0 \in 0 .. ClearTicks /\ 0 <= MaxWords
  BY DepthAssumption, TicksAssumption
<1>5. Types
  BY <1>1, <1>2, <1>3, <1>4, ResetType DEF Types
<1>6. BusOwner
  BY <1>1, <1>3 DEF BusOwner, NoDma
<1>7. Clearing /\ Still(duc) /\ Piped(duc) = 0
  BY <1>1, ResetType DEF Clearing
<1>8. Total = 0
  BY <1>1, <1>3, <1>7 DEF Total, One
<1>9. Counted
  BY <1>1, <1>7, <1>8 DEF Counted
<1>10. Room
  BY <1>1, <1>3, DepthAssumption DEF Room
<1>11. Stopping
  BY <1>1 DEF Stopping, Filling, Sending, Asked
<1>12. Clears
  BY <1>1, <1>7 DEF Clears, Done, Before, Off
<1> QED BY <1>5, <1>6, <1>9, <1>10, <1>11, <1>12 DEF IInv

LEMMA Unchanged == IInv /\ UNCHANGED vars => IInv'
<1> SUFFICES ASSUME IInv, UNCHANGED vars PROVE IInv'
  OBVIOUS
<1>1. /\ bus' = bus /\ fifo' = fifo /\ lap' = lap /\ adj' = adj /\ sent' = sent
      /\ UNCHANGED <<txen, txstop, clear_enable, ackn, txlast, dmaready, full>>
      /\ UNCHANGED <<clearn, reset, clear_en, duc>> /\ UNCHANGED <<cpu, val, todo, given>>
  BY DEF vars, pclkVars, dacVars, cpuVars
<1>2. (Clearing' <=> Clearing) /\ \A c : Asked(c)' <=> Asked(c)
  BY <1>1 DEF Clearing, Asked
<1>3. Types' /\ BusOwner' /\ Room'
  BY <1>1 DEF IInv, Types, BusOwner, NoDma, Room
<1>4. Counted'
  BY <1>1, <1>2 DEF IInv, Counted, Total, One
<1>5. (Before' <=> Before) /\ (During' <=> During) /\ (After' <=> After)
  BY <1>1 DEF Before, During, After, LastOut, NoDma
<1>6. Stopping'
  BY <1>1, <1>2, <1>5 DEF IInv, Stopping, Filling, Sending
<1>7. Clears'
  BY <1>1, <1>2, <1>5 DEF IInv, Clears, Steady, Burst, Requested, Resetting, Done
<1> QED BY <1>3, <1>4, <1>6, <1>7 DEF IInv

LEMMA Inductive == IInv /\ [Next]_vars => IInv'
BY PclkStep, DacStep, DriverStep, FillStep, Unchanged DEF Next

(* The inductive invariant holds in every reachable state.                 *)
THEOREM Invariant == Spec => []IInv
BY Initially, Inductive, PTL DEF Spec

(* The registers stay in their widths and the FIFO within its depth, and   *)
(* the DAC never gets more words than the DMA gave in this burst: what a   *)
(* CLEAR cuts off does not leak into the next burst.                       *)
THEOREM TypeCorrect == Spec => []TypeOK
<1>1. IInv => TypeOK
  <2> SUFFICES ASSUME IInv PROVE TypeOK
    OBVIOUS
  <2>1. Types /\ Counted
    BY DEF IInv
  <2>2. bus.phase \in {"IDLE", "SETUP", "ACCESS", "DONE"} /\ bus.op \in BusOps
    BY <2>1 DEF Types, BusType
  <2>3. {txen, txstop, clear_enable, dmaready, full, clearn, lap} \subseteq BOOLEAN
    <3>1. /\ txen \in BOOLEAN /\ txstop \in BOOLEAN /\ clear_enable \in BOOLEAN
          /\ dmaready \in BOOLEAN /\ full \in BOOLEAN /\ clearn \in BOOLEAN /\ lap \in BOOLEAN
      BY <2>1 DEF Types
    <3> QED BY <3>1, Zenon
  <2>4. /\ duc.interp_counter \in 0 .. Interp - 1 /\ duc.cnt \in 0 .. Interp - 1
        /\ {duc.sample, duc.cic, duc.out} \subseteq Tags
    BY <2>1 DEF Types, DucType
  <2>5. val \subseteq {"TXEN", "CLEAR"}
    BY <2>1 DEF Types
  <2>6. reset.state \in {"CLEAR", "CLEARING", "RUN"} /\ reset.count \in 0 .. ClearTicks
    BY <2>1 DEF Types
  <2>7. todo \in 0 .. MaxWords /\ given <= MaxWords
    BY <2>1, DepthAssumption DEF Types
  <2>8. sent <= given
    <3>1. sent \in Nat /\ fifo \in Nat /\ Piped(duc) \in Nat /\ One(bus.op = "sample") \in Nat
          /\ given \in Nat
      BY <2>1, DepthAssumption DEF Types, Piped, One
    <3>2. Total <= given
      BY <2>1, <3>1 DEF Counted
    <3> QED BY <3>1, <3>2 DEF Total
  <2> QED BY <2>1, <2>2, <2>3, <2>4, <2>5, <2>6, <2>7, <2>8 DEF TypeOK, Types, BusOps
<1> QED BY <1>1, Invariant, PTL

(* When the exciter clears TXEN by itself, it was told to stop and the DAC *)
(* has got every word the DMA wrote: however deep the FIFO and however the *)
(* two clocks fall, no word is refused, overtaken or lost.  This is what   *)
(* whitebox_fsync's last loop relies on.                                   *)
THEOREM StopIsComplete == Spec => StopMeansSent
<1>1. IInv /\ [Next]_vars => [txen /\ ~txen' /\ ackn[2] => txstop /\ sent = given]_vars
  <2> SUFFICES ASSUME IInv, Next, txen, ~txen', ackn[2] PROVE txstop /\ sent = given
    OBVIOUS
  <2>1. PclkTick
    BY DEF Next, DacTick, CpuAccess, DmaAccess, Clear, Fill, TxEnable, TxStop, hwVars, pclkVars
  <2>2. txlast[2]
    BY <2>1, FlagsMove
  <2>3. ~During /\ ~Before
    BY <2>2 DEF During, Before, Off
  <2>4. After /\ ~Clearing
    <3>1. Clearing => ~txstop
      BY DEF IInv, Stopping, Clearing, Asked
    <3>2. ~(Clearing /\ Requested)
      BY <2>3, <3>1 DEF Requested, Burst, After
    <3>3. ~(Clearing /\ Resetting)
      <4> SUFFICES ASSUME Clearing, Resetting PROVE FALSE
        OBVIOUS
      <4> QED BY <2>2 DEF Resetting, Off
    <3>4. ~(Clearing /\ Done)
      BY <2>3 DEF Done
    <3> QED BY <2>3, <3>2, <3>3, <3>4 DEF IInv, Clears, Burst
  <2>5. txstop
    BY <2>4 DEF After
  <2>6. sent = given
    <3>1. LastOut /\ fifo = 0 /\ NoDma /\ duc.sample # "word" /\ duc.cic # "word" /\ NoWord(duc)
      BY <2>2, <2>4 DEF After, LastOut, Off
    <3>2. duc.pipe[1] = "none" /\ duc.pipe[2] = "none" /\ duc.pipe[3] = "none" /\ bus.op # "sample"
      BY <3>1 DEF NoWord, NoDma
    <3>3. Piped(duc) = 0 /\ One(bus.op = "sample") = 0
      BY <3>1, <3>2 DEF Piped, One
    <3>4. Total = sent /\ Total = given
      <4>1. sent \in Nat
        BY DEF IInv, Types
      <4> QED BY <2>4, <3>1, <3>3, <4>1 DEF IInv, Counted, Total
    <3> QED BY <3>4
  <2> QED BY <2>5, <2>6
<1> QED BY <1>1, Invariant, PTL DEF Spec, StopMeansSent
=============================================================================
