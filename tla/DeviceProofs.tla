---------------------------- MODULE DeviceProofs ----------------------------
(***************************************************************************)
(* Proofs about the life of the device, for every set of frequencies.      *)
(***************************************************************************)
EXTENDS Device, TLAPS

----------------------------------------------------------------------------
(* Where the library is in a call: the operation it does next and the last *)
(* one of the call tell. *)

LastOf(s) == s[Len(s)]

Ops == {"WA_GET", "WC_GET", "WA_SET", "WC_SET", "W_RESET", "WE_CLEAR", "WE_SET", "pll_enable",
        "pll_disable", "adf4351_init", "resume", "suspend", "tx_tune", "rx_tune", "any_cmx991",
        "done_tx", "done_rx", "done_tune", "close"}

Dones == {"done_tx", "done_rx", "done_tune"}

(* The operations that follow each other in the calls that end in l.       *)
Follow(l) ==
  CASE l = "done_tx" ->
         {<<"WA_GET", "pll_enable">>, <<"pll_enable", "WA_SET">>, <<"WA_SET", "WC_GET">>,
          <<"WC_GET", "tx_tune">>, <<"tx_tune", "WC_SET">>, <<"WC_SET", "WE_CLEAR">>,
          <<"WE_CLEAR", "WE_SET">>, <<"WE_SET", "done_tx">>}
    [] l = "done_rx" ->
         {<<"WC_GET", "rx_tune">>, <<"rx_tune", "WC_SET">>, <<"WC_SET", "adf4351_init">>,
          <<"adf4351_init", "pll_enable">>, <<"pll_enable", "WA_SET">>, <<"WA_SET", "done_rx">>}
    [] l = "done_tune" ->
         {<<"WC_GET", "resume">>, <<"resume", "WC_SET">>, <<"WC_SET", "pll_enable">>,
          <<"pll_enable", "WA_SET">>, <<"WA_SET", "done_tune">>}
    [] l = "WE_CLEAR" ->
         {<<"WC_GET", "suspend">>, <<"suspend", "WC_SET">>, <<"WC_SET", "WE_CLEAR">>}
    [] l = "WC_SET" ->
         {<<"WC_GET", "suspend">>, <<"suspend", "WC_SET">>, <<"WC_GET", "resume">>,
          <<"resume", "WC_SET">>}
    [] l = "resume" -> {<<"WC_GET", "resume">>}
    [] l = "close" ->
         {<<"any_cmx991", "suspend">>, <<"suspend", "WC_SET">>, <<"WC_SET", "pll_disable">>,
          <<"pll_disable", "WA_SET">>, <<"WA_SET", "close">>}
    [] OTHER -> {}

Lasts == Dones \cup {"WE_CLEAR", "WC_SET", "resume", "close", "W_RESET"}

Chained(s) ==
  s # <<>> => /\ LastOf(s) \in Lasts
              /\ \A k \in 1 .. Len(s) - 1 : <<s[k], s[k + 1]>> \in Follow(LastOf(s))

(* What a call that leaves the tuning in force does.                       *)
Keepers == {"WC_GET", "resume", "WC_SET", "pll_enable", "WA_SET", "done_tune"}
Keeps(s) == \A k \in 1 .. Len(s) : s[k] \in Keepers

----------------------------------------------------------------------------
(* The inductive invariant. *)

AdfStruct == [f : Freqs \cup {0, Untuned}, pd : {FALSE}, out : BOOLEAN]
Library == [fd : BOOLEAN, adf : AdfStruct, cmx : CmxType, f : Freqs \cup {0, BadFreq},
            todo : Seq(Ops)]
LibType == lib \in Library /\ Chained(lib.todo)

(* The open file, the library's descriptor and the driver belong together. *)
Owned ==
  /\ file <=> lib.fd
  /\ file => dac /\ drv # "unbound"
  /\ lib.todo # <<>> => lib.fd
  /\ ~lib.fd => asked = Nothing

(* What the ioctls compare with: the CMX991's shadow is what the chip      *)
(* holds; the ADF4351's is, or it is no word the library writes.           *)
Shadows ==
  /\ cmx_regs = cmx
  /\ \A i \in Regs : /\ adf_regs[i].addr \in {0, i}
                     /\ \/ adf_regs[i] = adf[i]
                        \/ adf_regs[i].addr # i
                        \/ i = 0 /\ adf_regs[i].v = 0
  /\ adf_regs[2].addr = 0 => adf_regs[0].v = 0
  /\ lib.fd /\ adf_regs[2].addr = 2 => ~adf_regs[2].bit5

BothOn(c) == c.tx /\ c.rx
TxPower == [bias |-> TRUE, tx |-> TRUE, rx |-> FALSE]
RxPower == [bias |-> TRUE, tx |-> FALSE, rx |-> TRUE]
LoAt(f) == LoOn /\ adf[0].v = f

(* What is so when the library is about to do h in a call that ends in l.  *)
At(h, l) ==
  /\ l \in Dones => lib.f \in Freqs
  /\ h \in {"resume", "WC_SET"} => ~BothOn(lib.cmx)
  /\ h = "WA_SET" /\ l \in Dones => lib.adf.out /\ lib.adf.f = lib.f
  /\ l = "done_tune" /\ h = "done_tune" => LoAt(lib.f)
  /\ l = "done_tx" /\ h \in {"WC_GET", "tx_tune", "WC_SET", "WE_CLEAR", "WE_SET", "done_tx"}
       => LoAt(lib.f)
  /\ l = "done_tx" /\ h = "WC_SET" => lib.cmx = TxPower
  /\ l = "done_tx" /\ h \in {"WE_CLEAR", "WE_SET", "done_tx"} => cmx = TxPower
  /\ l = "done_tx" /\ h = "done_tx" => filteren
  /\ l = "done_rx" /\ h = "WC_SET" => lib.cmx = RxPower
  /\ l = "done_rx" /\ h \in {"adf4351_init", "pll_enable", "WA_SET", "done_rx"} => cmx = RxPower
  /\ l = "done_rx" /\ h = "done_rx" => LoAt(lib.f)

Position ==
  /\ lib.todo # <<>> => At(Head(lib.todo), LastOf(lib.todo))
  /\ lib.adf.f = 0 => lib.todo # <<>> /\ Head(lib.todo) = "pll_enable"

(* The tuning in force.                                                    *)
InForce ==
  asked # Nothing =>
    /\ Keeps(lib.todo)
    /\ LoOn
    /\ adf[0].v = asked.f \/ (lib.todo # <<>> /\ Head(lib.todo) = "done_tune")
    /\ asked.mode \in {"tx", "rx"}
    /\ asked.mode = "tx" => filteren /\ cmx = TxPower
    /\ asked.mode = "rx" => cmx = RxPower
    /\ lib.todo # <<>> /\ Head(lib.todo) \in {"resume", "WC_SET"} => lib.cmx = cmx

IInv == /\ TypeOK /\ LibType /\ Owned /\ NothingLeftBehind /\ Shadows
        /\ NeverBothMixers /\ Position /\ InForce

----------------------------------------------------------------------------
(* The parts of the type invariant. *)

BindOK ==
  /\ drv \in {"unbound", "bound", "oops"} /\ res \subseteq AllStages
  /\ pins \in {"free", "ours", "lost"}

FileOK ==
  /\ use_count \in 0 .. 1 /\ file \in BOOLEAN /\ mapped \in 0 .. 1
  /\ chans \subseteq Chans /\ others \subseteq Chans
  /\ wds \in {"WDS_IDLE", "WDS_TX", "WDS_TX_STREAMING", "WDS_TX_STOPPING", "WDS_RX_STREAMING"}
  /\ dac \in BOOLEAN

ChipOK ==
  /\ adf_regs \in [Regs -> WordType] /\ adf \in [Regs -> WordType]
  /\ cmx_regs \in CmxType /\ cmx \in CmxType

AskedOK == asked \in [mode : {"none", "tx", "rx"}, f : Freqs \cup {0}]

LEMMA TypeParts ==
  TypeOK <=> /\ BindOK /\ FileOK /\ busy \in BOOLEAN /\ filteren \in BOOLEAN
             /\ ChipOK /\ AskedOK
<1>1. {busy, dac, filteren} \subseteq BOOLEAN
        <=> busy \in BOOLEAN /\ dac \in BOOLEAN /\ filteren \in BOOLEAN
  BY Zenon
<1> QED BY <1>1 DEF TypeOK, BindOK, FileOK, ChipOK, AskedOK

----------------------------------------------------------------------------
(* The library's calls. *)

(* What comes after an operation in a call.                                *)
LEMMA Successors ==
  ASSUME NEW l \in Lasts, NEW op, NEW h, <<op, h>> \in Follow(l)
  PROVE  /\ op = "WA_GET" => l = "done_tx" /\ h = "pll_enable"
         /\ op = "pll_enable" => l \in Dones /\ h = "WA_SET"
         /\ op = "WA_SET" => <<l, h>> \in {<<"done_tx", "WC_GET">>, <<"done_rx", "done_rx">>,
                                          <<"done_tune", "done_tune">>, <<"close", "close">>}
         /\ op = "WC_GET" => <<l, h>> \in {<<"done_tx", "tx_tune">>, <<"done_rx", "rx_tune">>,
                                          <<"done_tune", "resume">>, <<"WE_CLEAR", "suspend">>,
                                          <<"WC_SET", "suspend">>, <<"WC_SET", "resume">>,
                                          <<"resume", "resume">>}
         /\ op = "WC_SET" => <<l, h>> \in {<<"done_tx", "WE_CLEAR">>, <<"done_rx", "adf4351_init">>,
                                          <<"done_tune", "pll_enable">>, <<"WE_CLEAR", "WE_CLEAR">>,
                                          <<"close", "pll_disable">>}
         /\ op = "tx_tune" => l = "done_tx" /\ h = "WC_SET"
         /\ op = "rx_tune" => l = "done_rx" /\ h = "WC_SET"
         /\ op = "resume" => l \in {"done_tune", "WC_SET"} /\ h = "WC_SET"
         /\ op = "suspend" => l \in {"WE_CLEAR", "WC_SET", "close"} /\ h = "WC_SET"
         /\ op = "WE_CLEAR" => l = "done_tx" /\ h = "WE_SET"
         /\ op = "WE_SET" => l = "done_tx" /\ h = "done_tx"
         /\ op = "adf4351_init" => l = "done_rx" /\ h = "pll_enable"
         /\ op = "pll_disable" => l = "close" /\ h = "WA_SET"
         /\ op = "any_cmx991" => l = "close" /\ h = "suspend"
         /\ op \notin {"W_RESET", "close"} \cup Dones
<1>1. CASE l = "done_tx"
  BY <1>1 DEF Follow, Dones
<1>2. CASE l = "done_rx"
  BY <1>2 DEF Follow, Dones
<1>3. CASE l = "done_tune"
  BY <1>3 DEF Follow, Dones
<1>4. CASE l \in {"WE_CLEAR", "WC_SET"}
  BY <1>4 DEF Follow, Dones
<1>5. CASE l \in {"resume", "close", "W_RESET"}
  BY <1>5 DEF Follow, Dones
<1> QED BY <1>1, <1>2, <1>3, <1>4, <1>5 DEF Lasts, Dones

(* The rest of a call once its first operation is done.                    *)
LEMMA RestOfCall ==
  ASSUME NEW s \in Seq(Ops), Chained(s), s # <<>>
  PROVE  /\ Tail(s) \in Seq(Ops) /\ Chained(Tail(s))
         /\ Head(s) \in Ops /\ LastOf(s) \in Lasts
         /\ Tail(s) = <<>> => Head(s) = LastOf(s)
         /\ Tail(s) # <<>> => /\ LastOf(Tail(s)) = LastOf(s)
                              /\ <<Head(s), Head(Tail(s))>> \in Follow(LastOf(s))
         /\ Keeps(s) => Keeps(Tail(s)) /\ Head(s) \in Keepers /\ LastOf(s) \in Keepers
<1> DEFINE t == Tail(s)
<1>1. /\ t \in Seq(Ops) /\ Len(t) = Len(s) - 1 /\ Len(s) \in Nat /\ Len(s) > 0
      /\ \A k \in 1 .. Len(s) - 1 : t[k] = s[k + 1]
      /\ Head(s) = s[1] /\ Head(s) \in Ops
  OBVIOUS
<1>2. /\ LastOf(s) \in Lasts
      /\ \A k \in 1 .. Len(s) - 1 : <<s[k], s[k + 1]>> \in Follow(LastOf(s))
  BY DEF Chained
<1>3. t = <<>> => Len(s) = 1
  <2>1. Len(<<>>) = 0
    OBVIOUS
  <2> HIDE DEF t
  <2> QED BY <1>1, <2>1
<1>4. t # <<>> => Len(t) > 0 /\ Head(t) = t[1]
  BY <1>1
<1> HIDE DEF t
<1>5. t # <<>> => LastOf(t) = LastOf(s)
  BY <1>1, <1>4 DEF LastOf
<1>6. Chained(t)
  <2> SUFFICES ASSUME t # <<>>
               PROVE  /\ LastOf(t) \in Lasts
                      /\ \A k \in 1 .. Len(t) - 1 : <<t[k], t[k + 1]>> \in Follow(LastOf(t))
    BY DEF Chained
  <2>1. ASSUME NEW k \in 1 .. Len(t) - 1 PROVE <<t[k], t[k + 1]>> \in Follow(LastOf(s))
    <3>1. k + 1 \in 1 .. Len(s) - 1 /\ k \in 1 .. Len(s) - 1
      BY <1>1
    <3>2. t[k] = s[k + 1] /\ t[k + 1] = s[k + 1 + 1]
      BY <1>1, <3>1
    <3> QED BY <1>2, <3>1, <3>2
  <2> QED BY <1>2, <1>5, <2>1
<1>7. t = <<>> => Head(s) = LastOf(s)
  BY <1>1, <1>3 DEF LastOf
<1>8. t # <<>> => <<Head(s), Head(t)>> \in Follow(LastOf(s))
  <2> SUFFICES ASSUME t # <<>> PROVE <<s[1], t[1]>> \in Follow(LastOf(s))
    BY <1>1, <1>4
  <2>1. 1 \in 1 .. Len(s) - 1
    BY <1>1, <1>4
  <2>2. t[1] = s[1 + 1]
    BY <1>1, <2>1
  <2> QED BY <1>2, <2>1, <2>2
<1>9. Keeps(s) => Keeps(t) /\ Head(s) \in Keepers /\ LastOf(s) \in Keepers
  BY <1>1 DEF Keeps, LastOf
<1> QED BY <1>1, <1>2, <1>5, <1>6, <1>7, <1>8, <1>9 DEF t

(* The calls, as the library makes them.                                   *)
LEMMA CallsChained ==
  ASSUME NEW f, NEW c \in DOMAIN Calls(f)
  PROVE  LET s == Calls(f)[c]
         IN  /\ s \in Seq(Ops) /\ Chained(s) /\ s # <<>>
             /\ Head(s) \notin {"resume", "WC_SET", "WA_SET"} \cup Dones
             /\ LastOf(s) = "done_tx" => Head(s) = "WA_GET"
             /\ LastOf(s) = "done_rx" => Head(s) = "WC_GET"
             /\ c \in {"whitebox_tx_fine_tune", "whitebox_rx_fine_tune"} => Keeps(s)
<1> USE DEF Calls, Ops, Chained, LastOf, Lasts, Dones, Keeps, Keepers, Follow
<1>1. CASE c = "whitebox_tx"
  BY <1>1
<1>2. CASE c = "whitebox_tx_standby"
  BY <1>2
<1>3. CASE c = "whitebox_tx_fine_tune"
  BY <1>3
<1>4. CASE c = "whitebox_rx"
  BY <1>4
<1>5. CASE c = "whitebox_rx_fine_tune"
  BY <1>5
<1>6. CASE c = "whitebox_rx_standby"
  BY <1>6
<1>7. CASE c = "whitebox_reset"
  BY <1>7
<1>8. CASE c = "whitebox_close"
  BY <1>8
<1> QED BY <1>1, <1>2, <1>3, <1>4, <1>5, <1>6, <1>7, <1>8

LEMMA BadCallsChained ==
  ASSUME NEW c \in DOMAIN CallsBadFreq
  PROVE  LET s == CallsBadFreq[c]
         IN  /\ s \in Seq(Ops) /\ Chained(s) /\ Keeps(s)
             /\ s # <<>> => LastOf(s) \notin Dones /\ Head(s) = "WC_GET"
<1> USE DEF CallsBadFreq, Ops, Chained, LastOf, Lasts, Dones, Keeps, Keepers, Follow
<1>1. CASE c = "whitebox_tx" \/ c = "whitebox_rx_fine_tune"
  <2>1. CallsBadFreq[c] = <<>>
    BY <1>1
  <2>2. Len(<<>>) = 0 /\ <<>> \in Seq(Ops)
    OBVIOUS
  <2>3. Keeps(<<>>) /\ Chained(<<>>)
    BY <2>2
  <2> QED BY <2>1, <2>2, <2>3
<1>2. CASE c = "whitebox_tx_fine_tune"
  BY <1>2
<1>3. CASE c = "whitebox_rx"
  BY <1>3
<1> QED BY <1>1, <1>2, <1>3

----------------------------------------------------------------------------
(* A step of the library inside a call. *)

Advances(op) ==
  /\ Do(op)
  /\ lib' \in Library /\ lib'.todo = Rest /\ lib'.fd = lib.fd /\ lib'.f = lib.f
  /\ UNCHANGED bindVars
  /\ UNCHANGED <<use_count, file, chans, others, mapped, wds, dac>>
  /\ asked' = asked

(* What is so before the operation op of a call that ends in l.            *)
LEMMA Doing ==
  ASSUME IInv, NEW op, Do(op), NEW l, l = LastOf(lib.todo)
  PROVE  /\ lib \in Library /\ lib.fd /\ lib.todo # <<>>
         /\ op \in Ops /\ l \in Lasts /\ At(op, l)
         /\ Rest \in Seq(Ops) /\ Chained(Rest)
         /\ Rest = <<>> => op = l
         /\ Rest # <<>> => LastOf(Rest) = l /\ <<op, Head(Rest)>> \in Follow(l) /\ Head(Rest) \in Ops
         /\ op # "pll_enable" => lib.adf.f # 0
         /\ asked # Nothing => Keeps(Rest) /\ op \in Keepers /\ l \in Keepers
<1>1. lib.todo # <<>> /\ Head(lib.todo) = op
  BY DEF Do
<1>2. lib \in Library /\ lib.todo \in Seq(Ops) /\ Chained(lib.todo)
  BY DEF IInv, LibType, Library
<1>3. Rest # <<>> => Head(Rest) \in Ops
  BY <1>1, <1>2 DEF Rest
<1>4. lib.fd /\ At(op, l) /\ (op # "pll_enable" => lib.adf.f # 0)
  BY <1>1 DEF IInv, Owned, Position
<1>5. asked # Nothing => Keeps(lib.todo)
  BY DEF IInv, InForce
<1> QED BY <1>1, <1>2, <1>3, <1>4, <1>5, RestOfCall DEF Rest

(* What such a step leaves alone.                                          *)
LEMMA Advanced ==
  ASSUME IInv, NEW op, Advances(op)
  PROVE  Owned' /\ NothingLeftBehind' /\ LibType' /\ BindOK' /\ FileOK' /\ AskedOK'
<1>1. lib.fd /\ Chained(Rest)
  BY Doing DEF Advances
<1>2. LibType'
  BY <1>1 DEF LibType, Advances
<1>3. BindOK' /\ FileOK' /\ AskedOK' /\ NothingLeftBehind'
  BY TypeParts DEF IInv, Advances, BindOK, FileOK, AskedOK, NothingLeftBehind, bindVars
<1>4. Owned'
  BY <1>1 DEF IInv, Owned, Advances, bindVars
<1> QED BY <1>2, <1>3, <1>4

(* The chips and the tuning after such a step.                             *)
ChipsKept ==
  /\ ChipOK /\ busy \in BOOLEAN /\ filteren \in BOOLEAN
  /\ Shadows /\ NeverBothMixers /\ Position /\ InForce

LEMMA AdvancedAll ==
  ASSUME IInv, NEW op, Advances(op), ChipsKept' PROVE IInv'
<1>1. TypeOK'
  BY Advanced, TypeParts DEF ChipsKept, TypeOK, BindOK, FileOK, ChipOK, AskedOK
<1> QED BY <1>1, Advanced DEF IInv, ChipsKept

(* The next operation finds what it relies on.                             *)
LEMMA PositionAfter ==
  ASSUME IInv, NEW op, Advances(op), NEW l, l = LastOf(lib.todo),
         \A h \in Ops : <<op, h>> \in Follow(l) => At(h, l)',
         lib'.adf.f = 0 => op = "WA_GET"
  PROVE  Position'
<1>1. Do(op) /\ lib'.todo = Rest
  BY DEF Advances
<1>2. Rest = <<>> => op = l
  BY <1>1, Doing
<1>3. lib'.adf.f = 0 => Rest # <<>> /\ Head(Rest) = "pll_enable"
  <2>1. l \in Lasts /\ "WA_GET" \notin Lasts
    BY <1>1, Doing DEF Lasts, Dones
  <2>2. Rest # <<>> => <<op, Head(Rest)>> \in Follow(l)
    BY <1>1, Doing
  <2> QED BY <1>2, <2>1, <2>2, Successors
<1>4. CASE Rest = <<>>
  BY <1>1, <1>3, <1>4 DEF Position
<1>5. CASE Rest # <<>>
  <2>1. PICK h \in Ops : h = Head(Rest) /\ <<op, h>> \in Follow(l) /\ LastOf(Rest) = l
    BY <1>1, <1>5, Doing
  <2>2. At(h, l)'
    BY <2>1
  <2>3. Head(lib'.todo) = h /\ LastOf(lib'.todo) = l
    BY <1>1, <2>1
  <2>4. At(Head(lib.todo), LastOf(lib.todo))'
    BY <2>2, <2>3 DEF At
  <2> QED BY <1>1, <1>3, <1>5, <2>4 DEF Position
<1> QED BY <1>4, <1>5

(* A call that is not among those that keep the tuning has ended it.       *)
LEMMA NotInForce ==
  ASSUME IInv, NEW op, Advances(op), op \notin Keepers PROVE InForce'
<1>1. asked = Nothing
  BY Doing DEF Advances
<1> QED BY <1>1 DEF InForce, Advances

(* The chips are not touched by the library's own steps.                   *)
LEMMA ComputeStep ==
  ASSUME IInv, NEW op, Advances(op), UNCHANGED chipVars, UNCHANGED <<busy, filteren>>,
         NEW l, l = LastOf(lib.todo),
         \A h \in Ops : <<op, h>> \in Follow(l) => At(h, l)',
         lib'.adf.f = 0 => op = "WA_GET",
         op \in Keepers => InForce'
  PROVE  IInv'
<1>1. UNCHANGED <<adf_regs, cmx_regs, adf, cmx, busy, filteren>> /\ lib'.fd = lib.fd
  BY DEF chipVars, Advances
<1>2. ChipOK' /\ busy' \in BOOLEAN /\ filteren' \in BOOLEAN
  BY <1>1, TypeParts DEF IInv, ChipOK
<1>3. Shadows' /\ NeverBothMixers'
  BY <1>1 DEF IInv, Shadows, NeverBothMixers
<1>4. Position' /\ InForce'
  BY PositionAfter, NotInForce
<1> QED BY <1>2, <1>3, <1>4, AdvancedAll DEF ChipsKept

(* WC_GET: the library has the chip's registers.                           *)
LEMMA WC_GETStep ==
  ASSUME IInv, WC_GET PROVE IInv'
<1>1. PICK l : l = LastOf(lib.todo)
  OBVIOUS
<1>2. Do("WC_GET") /\ lib' = [lib EXCEPT !.todo = Rest, !.cmx = cmx]
  BY DEF WC_GET
<1>3. lib \in Library /\ Rest \in Seq(Ops) /\ l \in Lasts /\ At("WC_GET", l) /\ lib.adf.f # 0
      /\ (Rest # <<>> => <<"WC_GET", Head(Rest)>> \in Follow(l))
      /\ (asked # Nothing => Keeps(Rest))
  BY <1>1, <1>2, Doing
<1>4. cmx \in CmxType /\ ~BothOn(cmx)
  BY TypeParts DEF IInv, ChipOK, NeverBothMixers, BothOn
<1>5. Advances("WC_GET") /\ lib'.adf = lib.adf /\ lib'.cmx = cmx
  BY <1>2, <1>3, <1>4 DEF Advances, Library, WC_GET, fileVars
<1>6. UNCHANGED <<adf_regs, cmx_regs, adf, cmx, busy, filteren>> /\ lib'.f = lib.f
  BY <1>5 DEF WC_GET, chipVars, fileVars, Advances
<1>7. ASSUME NEW h \in Ops, <<"WC_GET", h>> \in Follow(l) PROVE At(h, l)'
  <2>1. <<l, h>> \in {<<"done_tx", "tx_tune">>, <<"done_rx", "rx_tune">>,
                     <<"done_tune", "resume">>, <<"WE_CLEAR", "suspend">>,
                     <<"WC_SET", "suspend">>, <<"WC_SET", "resume">>, <<"resume", "resume">>}
    BY <1>3, <1>7, Successors
  <2> QED BY <1>3, <1>4, <1>5, <1>6, <2>1 DEF At, LoAt, LoOn, BothOn, Dones
<1>8. InForce'
  <2>1. Rest # <<>> => Head(Rest) # "done_tune"
    BY <1>3, Successors
  <2> QED BY <1>2, <1>3, <1>5, <1>6, <2>1 DEF IInv, InForce, LoOn, Do, Advances
<1> QED BY <1>1, <1>3, <1>5, <1>6, <1>7, <1>8, ComputeStep DEF chipVars

(* WA_GET: of the words in the driver's shadow the library takes those     *)
(* that carry an address.                                                  *)
LEMMA GetType ==
  ASSUME ChipOK, Shadows, lib.fd, NEW r \in AdfStruct
  PROVE  adf4351_ioctl_get(r, adf_regs) \in AdfStruct
<1> DEFINE at(a) == {i \in Regs : adf_regs[i].addr = a}
           pick(a) == CHOOSE i \in at(a) : \A j \in at(a) : j <= i
<1>1. /\ adf_regs \in [Regs -> WordType]
      /\ \A i \in Regs : adf_regs[i].addr \in {0, i}
      /\ adf_regs[2].addr = 2 => ~adf_regs[2].bit5
  BY DEF ChipOK, Shadows
<1>2. ASSUME NEW a, at(a) # {} PROVE pick(a) \in at(a)
  <2>1. \A i \in at(a) : i = 0 \/ i = 2 \/ i = 4
    BY DEF Regs
  <2>2. \E i \in at(a) : \A j \in at(a) : j <= i
    <3>1. CASE 4 \in at(a)
      <4>1. \A j \in at(a) : j <= 4
        BY <2>1
      <4> QED BY <3>1, <4>1
    <3>2. CASE 4 \notin at(a) /\ 2 \in at(a)
      <4>1. \A j \in at(a) : j <= 2
        BY <2>1, <3>2
      <4> QED BY <3>2, <4>1
    <3>3. CASE 4 \notin at(a) /\ 2 \notin at(a)
      <4>1. \A j \in at(a) : j = 0
        BY <2>1, <3>3
      <4> HIDE DEF at
      <4> QED BY <1>2, <4>1
    <3> QED BY <3>1, <3>2, <3>3
  <2> HIDE DEF at
  <2> QED BY <2>2
<1>3. at(0) # {} => adf_regs[pick(0)].v \in Freqs \cup {0, Untuned}
  <2>1. at(0) # {} => pick(0) \in Regs
    BY <1>2
  <2> QED BY <1>1, <2>1 DEF WordType
<1>4. at(2) # {} => adf_regs[pick(2)].bit5 = FALSE
  <2>1. \A i \in at(2) : i = 2 /\ adf_regs[2].addr = 2
    BY <1>1 DEF Regs
  <2>2. at(2) # {} => pick(2) = 2 /\ adf_regs[2].addr = 2
    BY <1>2, <2>1
  <2>3. adf_regs[2].bit5 \in BOOLEAN
    BY <1>1 DEF WordType, Regs
  <2> QED BY <1>1, <2>2, <2>3
<1>5. at(4) # {} => adf_regs[pick(4)].bit5 \in BOOLEAN
  <2>1. at(4) # {} => pick(4) \in Regs
    BY <1>2
  <2> QED BY <1>1, <2>1 DEF WordType
<1>6. adf4351_ioctl_get(r, adf_regs)
        = [f   |-> IF at(0) = {} THEN r.f   ELSE adf_regs[pick(0)].v,
           pd  |-> IF at(2) = {} THEN r.pd  ELSE adf_regs[pick(2)].bit5,
           out |-> IF at(4) = {} THEN r.out ELSE adf_regs[pick(4)].bit5]
  BY DEF adf4351_ioctl_get
<1> HIDE DEF at, pick
<1>7. r.f \in Freqs \cup {0, Untuned} /\ r.pd = FALSE /\ r.out \in BOOLEAN
  BY DEF AdfStruct
<1>8. PICK x \in Freqs \cup {0, Untuned} :
        x = IF at(0) = {} THEN r.f ELSE adf_regs[pick(0)].v
  BY <1>3, <1>7
<1>9. PICK y \in {FALSE} : y = IF at(2) = {} THEN r.pd ELSE adf_regs[pick(2)].bit5
  BY <1>4, <1>7, Zenon
<1>10. PICK z \in BOOLEAN : z = IF at(4) = {} THEN r.out ELSE adf_regs[pick(4)].bit5
  BY <1>5, <1>7, Zenon
<1>11. adf4351_ioctl_get(r, adf_regs) = [f |-> x, pd |-> y, out |-> z]
  BY <1>6, <1>8, <1>9, <1>10, Zenon
<1> QED BY <1>11 DEF AdfStruct

LEMMA WA_GETStep ==
  ASSUME IInv, WA_GET PROVE IInv'
<1>1. PICK l : l = LastOf(lib.todo)
  OBVIOUS
<1>2. Do("WA_GET") /\ lib' = [lib EXCEPT !.todo = Rest, !.adf = adf4351_ioctl_get(lib.adf, adf_regs)]
  BY DEF WA_GET
<1>3. lib \in Library /\ lib.fd /\ Rest \in Seq(Ops) /\ l \in Lasts /\ At("WA_GET", l)
  BY <1>1, <1>2, Doing
<1>4. PICK r \in AdfStruct : r = adf4351_ioctl_get(lib.adf, adf_regs)
  BY <1>3, GetType, TypeParts DEF IInv, Library
<1>5. Advances("WA_GET")
  BY <1>2, <1>3, <1>4 DEF Advances, Library, WA_GET, fileVars
<1>6. UNCHANGED <<adf_regs, cmx_regs, adf, cmx, busy, filteren>> /\ lib'.f = lib.f
  BY <1>5 DEF WA_GET, chipVars, fileVars, Advances
<1>7. ASSUME NEW h \in Ops, <<"WA_GET", h>> \in Follow(l) PROVE At(h, l)'
  <2>1. l = "done_tx" /\ h = "pll_enable"
    BY <1>3, <1>7, Successors
  <2> QED BY <1>3, <1>6, <2>1 DEF At, Dones
<1> QED BY <1>1, <1>5, <1>6, <1>7, ComputeStep DEF chipVars, Keepers

(* WC_SET: although only differing registers are written, the chip has all *)
(* of the library's.                                                       *)
LEMMA WC_SETStep ==
  ASSUME IInv, WC_SET PROVE IInv'
<1>1. PICK l : l = LastOf(lib.todo)
  OBVIOUS
<1>2. Do("WC_SET") /\ lib' = [lib EXCEPT !.todo = Rest] /\ cmx_regs' = lib.cmx
      /\ UNCHANGED <<adf_regs, adf, busy, filteren>> /\ asked' = asked
  BY DEF WC_SET, fileVars
<1>3. lib \in Library /\ Rest \in Seq(Ops) /\ l \in Lasts /\ At("WC_SET", l) /\ lib.adf.f # 0
      /\ (Rest # <<>> => <<"WC_SET", Head(Rest)>> \in Follow(l))
      /\ (asked # Nothing => Keeps(Rest))
  BY <1>1, <1>2, Doing
<1>4. cmx' = lib.cmx
  <2>1. cmx_regs = cmx /\ cmx \in CmxType /\ lib.cmx \in CmxType
    BY <1>3, TypeParts DEF IInv, ChipOK, Shadows, Library
  <2>2. DOMAIN cmx = DOMAIN lib.cmx
    BY <2>1 DEF CmxType
  <2>3. cmx' = [r \in DOMAIN cmx |-> IF cmx_regs[r] # lib.cmx[r] THEN lib.cmx[r] ELSE cmx[r]]
    BY DEF WC_SET
  <2>4. cmx' = [r \in DOMAIN lib.cmx |-> lib.cmx[r]]
    BY <2>1, <2>2, <2>3
  <2> QED BY <2>1, <2>4 DEF CmxType
<1>5. Advances("WC_SET") /\ lib'.adf = lib.adf /\ lib'.cmx = lib.cmx /\ lib'.f = lib.f
      /\ lib'.todo = Rest /\ lib'.fd = lib.fd
  BY <1>2, <1>3 DEF Advances, Library, WC_SET, fileVars
<1>6. ~BothOn(lib.cmx) /\ lib.cmx \in CmxType
  BY <1>3 DEF At, Library
<1>7. ASSUME NEW h \in Ops, <<"WC_SET", h>> \in Follow(l) PROVE At(h, l)'
  <2>1. <<l, h>> \in {<<"done_tx", "WE_CLEAR">>, <<"done_rx", "adf4351_init">>,
                     <<"done_tune", "pll_enable">>, <<"WE_CLEAR", "WE_CLEAR">>,
                     <<"close", "pll_disable">>}
    BY <1>3, <1>7, Successors
  <2> QED BY <1>2, <1>3, <1>4, <1>5, <2>1 DEF At, LoAt, LoOn, BothOn, Dones
<1>8. InForce'
  <2> SUFFICES ASSUME asked # Nothing PROVE InForce'
    BY <1>2 DEF InForce
  <2>1. cmx' = cmx
    BY <1>2, <1>4 DEF IInv, InForce, Do
  <2>2. Rest # <<>> => Head(Rest) \notin {"done_tune", "resume", "WC_SET"}
    BY <1>3, Successors
  <2>3. adf[0].v = asked.f
    BY <1>2 DEF IInv, InForce, Do
  <2> QED BY <1>2, <1>3, <1>5, <2>1, <2>2, <2>3 DEF IInv, InForce, LoOn
<1>9. Position'
  BY <1>1, <1>3, <1>5, <1>7, PositionAfter
<1>10. ChipOK' /\ busy' \in BOOLEAN /\ filteren' \in BOOLEAN
  BY <1>2, <1>4, <1>6, TypeParts DEF IInv, ChipOK
<1>11. Shadows' /\ NeverBothMixers'
  BY <1>2, <1>4, <1>5, <1>6 DEF IInv, Shadows, NeverBothMixers, BothOn
<1> QED BY <1>5, <1>8, <1>9, <1>10, <1>11, AdvancedAll DEF ChipsKept

(* WA_SET: after it the LO has the library's registers, because a shadow   *)
(* that is not what the chip holds differs from any word the library sends.*)
LEMMA WA_SETStep ==
  ASSUME IInv, WA_SET PROVE IInv'
<1>1. PICK l : l = LastOf(lib.todo)
  OBVIOUS
<1> DEFINE w == adf4351_pack(lib.adf)
<1>2. Do("WA_SET") /\ lib' = [lib EXCEPT !.todo = Rest] /\ adf_regs' = w
      /\ UNCHANGED <<cmx_regs, cmx, busy, filteren>> /\ asked' = asked
  BY DEF WA_SET, fileVars
<1>3. lib \in Library /\ Rest \in Seq(Ops) /\ l \in Lasts /\ At("WA_SET", l) /\ lib.adf.f # 0
      /\ (Rest = <<>> => "WA_SET" = l)
      /\ (Rest # <<>> => <<"WA_SET", Head(Rest)>> \in Follow(l))
      /\ (asked # Nothing => Keeps(Rest) /\ l \in Keepers)
  BY <1>1, <1>2, Doing
<1>4. /\ lib.adf.f \in Freqs \cup {0, Untuned} /\ lib.adf.pd = FALSE /\ lib.adf.out \in BOOLEAN
  BY <1>3 DEF Library, AdfStruct
<1>5. /\ w \in [Regs -> WordType]
      /\ \A i \in Regs : w[i].addr = i
      /\ w[0].v = lib.adf.f /\ ~w[2].bit5 /\ w[4].bit5 = lib.adf.out
  <2>0. 1 \in Freqs \cup {0, Untuned}
    BY DEF Untuned
  <2>1. /\ w[0] = Word(0, FALSE, lib.adf.f) /\ w[2] = Word(2, lib.adf.pd, 1)
        /\ w[4] = Word(4, lib.adf.out, 1)
    BY DEF adf4351_pack, Regs
  <2>2. /\ Word(0, FALSE, lib.adf.f) \in WordType /\ Word(2, lib.adf.pd, 1) \in WordType
        /\ Word(4, lib.adf.out, 1) \in WordType
    BY <1>4, <2>0 DEF Word, WordType, Regs
  <2>3. w = [i \in Regs |-> CASE i = 0 -> Word(0, FALSE, lib.adf.f)
                              [] i = 2 -> Word(2, lib.adf.pd, 1)
                              [] i = 4 -> Word(4, lib.adf.out, 1)]
    BY DEF adf4351_pack
  <2>4. \A i \in Regs : i = 0 \/ i = 2 \/ i = 4
    BY DEF Regs
  <2> HIDE DEF w
  <2>5. w \in [Regs -> WordType]
    BY <2>2, <2>3, <2>4
  <2> QED BY <1>4, <2>1, <2>4, <2>5 DEF Word
<1>6. adf' = w
  <2>1. adf' = [i \in Regs |-> IF adf_regs[i] # w[i] THEN w[i] ELSE adf[i]]
    BY DEF WA_SET
  <2> HIDE DEF w
  <2>2. \A i \in Regs : adf_regs[i] = w[i] => adf[i] = w[i]
    BY <1>3, <1>5 DEF IInv, Shadows
  <2>3. adf' = [i \in Regs |-> w[i]]
    BY <2>1, <2>2
  <2> QED BY <1>5, <2>3
<1>7. Advances("WA_SET") /\ lib'.adf = lib.adf /\ lib'.cmx = lib.cmx /\ lib'.f = lib.f
      /\ lib'.todo = Rest /\ lib'.fd = lib.fd
  BY <1>2, <1>3 DEF Advances, Library, WA_SET, fileVars
<1> HIDE DEF w
<1>8. l \in Dones => LoAt(lib.f)'
  <2>1. l \in Dones => lib.adf.out /\ lib.adf.f = lib.f
    BY <1>3 DEF At
  <2> QED BY <1>5, <1>6, <1>7, <2>1 DEF LoAt, LoOn
<1>9. ASSUME NEW h \in Ops, <<"WA_SET", h>> \in Follow(l) PROVE At(h, l)'
  <2>1. <<l, h>> \in {<<"done_tx", "WC_GET">>, <<"done_rx", "done_rx">>,
                     <<"done_tune", "done_tune">>, <<"close", "close">>}
    BY <1>3, <1>9, Successors
  <2> QED BY <1>2, <1>3, <1>7, <1>8, <2>1 DEF At, Dones
<1>10. Position'
  BY <1>1, <1>3, <1>7, <1>9, PositionAfter
<1>11. InForce'
  <2> SUFFICES ASSUME asked # Nothing PROVE InForce'
    BY <1>2 DEF InForce
  <2>1. Rest # <<>> /\ l = "done_tune" /\ Head(Rest) = "done_tune"
    BY <1>3, Successors DEF Keepers, Lasts, Dones
  <2>2. LoOn'
    BY <1>8, <2>1 DEF LoAt, Dones
  <2> QED BY <1>2, <1>3, <1>7, <2>1, <2>2 DEF IInv, InForce
<1>12. ChipOK' /\ busy' \in BOOLEAN /\ filteren' \in BOOLEAN
  BY <1>2, <1>5, <1>6, TypeParts DEF IInv, ChipOK
<1>13. Shadows' /\ NeverBothMixers'
  <2>1. \A i \in Regs : i \in {0, i}
    OBVIOUS
  <2>2. w[2].addr # 0
    BY <1>5 DEF Regs
  <2> QED BY <1>2, <1>5, <1>6, <1>7, <2>1, <2>2 DEF IInv, Shadows, NeverBothMixers
<1> QED BY <1>7, <1>10, <1>11, <1>12, <1>13, AdvancedAll DEF ChipsKept

(* W_RESET: both shadows are forgotten.                                    *)
LEMMA ResetChips ==
  ASSUME ChipOK, whitebox_ioctl_reset
  PROVE  ChipOK' /\ NeverBothMixers' /\ Shadows'
<1>1. ZeroWord \in WordType /\ ZeroWord.addr = 0 /\ ZeroWord.v = 0
  BY DEF ZeroWord, Word, WordType, Regs
<1>2. adf_regs' = [i \in Regs |-> ZeroWord] /\ cmx_regs' = CmxOff /\ cmx' = CmxOff /\ adf' = adf
  BY DEF whitebox_ioctl_reset, whitebox_gpio_cmx991_reset, AllZero
<1>3. CmxOff \in CmxType /\ ~CmxOff.tx
  BY DEF CmxOff, CmxType
<1>4. ChipOK' /\ NeverBothMixers'
  BY <1>1, <1>2, <1>3 DEF ChipOK, NeverBothMixers
<1>5. 0 \in Regs /\ 2 \in Regs /\ \A i \in Regs : adf_regs'[i] = ZeroWord
  BY <1>2 DEF Regs
<1>6. Shadows'
  BY <1>1, <1>2, <1>5 DEF Shadows
<1> QED BY <1>4, <1>6

LEMMA W_RESETStep ==
  ASSUME IInv, W_RESET PROVE IInv'
<1>1. PICK l : l = LastOf(lib.todo)
  OBVIOUS
<1>2. Do("W_RESET") /\ lib' = [lib EXCEPT !.todo = Rest] /\ whitebox_ioctl_reset
      /\ UNCHANGED <<busy, filteren>>
  BY DEF W_RESET, fileVars
<1>3. lib \in Library /\ Rest \in Seq(Ops) /\ l \in Lasts /\ lib.adf.f # 0
  <2>1. PICK op : op = "W_RESET" /\ Do(op) /\ op # "pll_enable"
    BY <1>2
  <2> QED BY <1>1, <2>1, Doing
<1>4. Advances("W_RESET") /\ lib'.adf = lib.adf
  BY <1>2, <1>3 DEF Advances, Library, W_RESET, fileVars
<1>5. Position' /\ InForce'
  BY <1>1, <1>3, <1>4, Successors, PositionAfter, NotInForce DEF Keepers
<1> QED BY <1>2, <1>4, <1>5, ResetChips, AdvancedAll, TypeParts DEF ChipsKept, IInv

(* WE_CLEAR and WE_SET.                                                    *)
LEMMA ExciterStep ==
  ASSUME IInv, ExciterIoctl PROVE IInv'
<1>1. PICK l : l = LastOf(lib.todo)
  OBVIOUS
<1>2. PICK op \in {"WE_CLEAR", "WE_SET"} :
        /\ Do(op) /\ busy' \in {FALSE, busy} /\ filteren' \in {filteren, TRUE}
        /\ op = "WE_SET" => filteren' = TRUE
  BY DEF ExciterIoctl
<1>3. lib' = [lib EXCEPT !.todo = Rest] /\ UNCHANGED <<adf_regs, cmx_regs, adf, cmx>>
  BY DEF ExciterIoctl, chipVars
<1>4. lib \in Library /\ Rest \in Seq(Ops) /\ l \in Lasts /\ At(op, l) /\ lib.adf.f # 0
  BY <1>1, <1>2, Doing
<1>5. Advances(op) /\ lib'.adf = lib.adf /\ lib'.cmx = lib.cmx /\ lib'.f = lib.f
  BY <1>2, <1>3, <1>4 DEF Advances, Library, ExciterIoctl
<1>6. ASSUME NEW h \in Ops, <<op, h>> \in Follow(l) PROVE At(h, l)'
  <2>1. l = "done_tx" /\ h = (IF op = "WE_CLEAR" THEN "WE_SET" ELSE "done_tx")
    BY <1>2, <1>4, <1>6, Successors
  <2> QED BY <1>2, <1>3, <1>4, <1>5, <2>1 DEF At, LoAt, LoOn, Dones
<1>7. Position' /\ InForce'
  BY <1>1, <1>2, <1>4, <1>5, <1>6, PositionAfter, NotInForce DEF Keepers
<1>8. ChipOK' /\ busy' \in BOOLEAN /\ filteren' \in BOOLEAN
  BY <1>2, <1>3, TypeParts DEF IInv, ChipOK
<1>9. Shadows' /\ NeverBothMixers'
  BY <1>3, <1>5 DEF IInv, Shadows, NeverBothMixers, Advances
<1> QED BY <1>5, <1>7, <1>8, <1>9, AdvancedAll DEF ChipsKept

(* The library's own steps change one of its structs.                      *)
LEMMA SetAdf ==
  ASSUME IInv, NEW op, Do(op), NEW X \in AdfStruct,
         lib' = [lib EXCEPT !.todo = Rest, !.adf = X],
         UNCHANGED <<bindVars, fileVars, chipVars, asked>>
  PROVE  Advances(op) /\ lib'.adf = X /\ lib'.cmx = lib.cmx /\ lib'.f = lib.f /\ lib'.todo = Rest
<1>1. lib \in Library /\ Rest \in Seq(Ops)
  BY Doing
<1>2. lib' \in Library /\ lib'.adf = X /\ lib'.cmx = lib.cmx /\ lib'.f = lib.f /\ lib'.todo = Rest
      /\ lib'.fd = lib.fd
  BY <1>1 DEF Library
<1> QED BY <1>2 DEF Advances, fileVars

LEMMA SetCmx ==
  ASSUME IInv, NEW op, Do(op), NEW X \in CmxType,
         lib' = [lib EXCEPT !.todo = Rest, !.cmx = X],
         UNCHANGED <<bindVars, fileVars, chipVars, asked>>
  PROVE  Advances(op) /\ lib'.cmx = X /\ lib'.adf = lib.adf /\ lib'.f = lib.f /\ lib'.todo = Rest
<1>1. lib \in Library /\ Rest \in Seq(Ops)
  BY Doing
<1>2. lib' \in Library /\ lib'.cmx = X /\ lib'.adf = lib.adf /\ lib'.f = lib.f /\ lib'.todo = Rest
      /\ lib'.fd = lib.fd
  BY <1>1 DEF Library
<1> QED BY <1>2 DEF Advances, fileVars

(* What the functions on the structs return.                               *)
LEMMA AdfResults ==
  ASSUME NEW r \in AdfStruct
  PROVE  /\ adf4351_pll_disable(r) \in AdfStruct /\ adf4351_pll_disable(r).f = r.f
         /\ \A f \in Freqs : /\ adf4351_pll_enable(r, f) \in AdfStruct
                             /\ adf4351_pll_enable(r, f).f = f /\ adf4351_pll_enable(r, f).out
<1>1. adf4351_pll_disable(r) \in AdfStruct /\ adf4351_pll_disable(r).f = r.f
  BY DEF adf4351_pll_disable, AdfStruct
<1>2. ASSUME NEW f \in Freqs
      PROVE  /\ adf4351_pll_enable(r, f) \in AdfStruct
             /\ adf4351_pll_enable(r, f).f = f /\ adf4351_pll_enable(r, f).out
  BY DEF adf4351_pll_enable, AdfStruct
<1> QED BY <1>1, <1>2

LEMMA AdfInit == adf4351_init \in AdfStruct /\ adf4351_init.f # 0
<1>1. Untuned \in Freqs \cup {0, Untuned} /\ Untuned # 0
  BY DEF Untuned
<1> QED BY <1>1 DEF adf4351_init, AdfStruct

LEMMA CmxResults ==
  ASSUME NEW c \in CmxType
  PROVE  /\ cmx991_resume(c) \in CmxType /\ cmx991_resume(c).tx = c.tx /\ cmx991_resume(c).rx = c.rx
         /\ cmx991_suspend(c) \in CmxType /\ ~cmx991_suspend(c).tx
         /\ cmx991_tx_tune(cmx991_resume(c)) = TxPower
         /\ cmx991_rx_tune(cmx991_resume(c)) = RxPower
         /\ TxPower \in CmxType /\ RxPower \in CmxType
<1>1. cmx991_resume(c) \in CmxType /\ cmx991_resume(c).tx = c.tx /\ cmx991_resume(c).rx = c.rx
      /\ cmx991_resume(c).bias = TRUE
  BY DEF cmx991_resume, CmxType
<1>2. cmx991_suspend(c) \in CmxType /\ ~cmx991_suspend(c).tx
  BY DEF cmx991_suspend, CmxOff, CmxType
<1>3. TxPower \in CmxType /\ RxPower \in CmxType
  BY DEF TxPower, RxPower, CmxType
<1>4. ASSUME NEW d \in CmxType, d.bias = TRUE
      PROVE  cmx991_tx_tune(d) = TxPower /\ cmx991_rx_tune(d) = RxPower
  <2>1. \A x, y \in CmxType : x.bias = y.bias /\ x.tx = y.tx /\ x.rx = y.rx => x = y
    BY DEF CmxType
  <2>2. cmx991_tx_tune(d) \in CmxType /\ cmx991_rx_tune(d) \in CmxType
    BY DEF cmx991_tx_tune, cmx991_rx_tune, CmxType
  <2>3. /\ cmx991_tx_tune(d).bias = TRUE /\ cmx991_tx_tune(d).tx = TRUE /\ cmx991_tx_tune(d).rx = FALSE
        /\ cmx991_rx_tune(d).bias = TRUE /\ cmx991_rx_tune(d).tx = FALSE /\ cmx991_rx_tune(d).rx = TRUE
    BY <1>4 DEF cmx991_tx_tune, cmx991_rx_tune, CmxType
  <2>4. /\ TxPower.bias = TRUE /\ TxPower.tx = TRUE /\ TxPower.rx = FALSE
        /\ RxPower.bias = TRUE /\ RxPower.tx = FALSE /\ RxPower.rx = TRUE
    BY DEF TxPower, RxPower
  <2> QED BY <1>3, <2>1, <2>2, <2>3, <2>4
<1> QED BY <1>1, <1>2, <1>3, <1>4

LEMMA LibraryStep ==
  ASSUME IInv, Compute PROVE IInv'
<1>0. PICK l : l = LastOf(lib.todo)
  OBVIOUS
<1>1. UNCHANGED <<bindVars, fileVars, chipVars, asked>>
  BY DEF Compute
<1>2. UNCHANGED <<adf_regs, cmx_regs, adf, cmx, busy, filteren>> /\ asked' = asked
  BY <1>1 DEF chipVars, fileVars
<1>3. lib \in Library /\ lib.adf \in AdfStruct /\ lib.cmx \in CmxType
  BY DEF IInv, LibType, Library
<1>4. CASE Do("pll_enable") /\ lib' = [lib EXCEPT !.todo = Rest, !.adf = adf4351_pll_enable(lib.adf, lib.f)]
  <2>1. PICK op : op = "pll_enable" /\ Do(op)
    BY <1>4
  <2>2. l \in Lasts /\ At(op, l) /\ (Rest = <<>> => op = l)
        /\ (Rest # <<>> => <<op, Head(Rest)>> \in Follow(l)) /\ (asked # Nothing => Keeps(Rest))
    BY <1>0, <2>1, Doing
  <2>3. Rest # <<>> /\ l \in Dones /\ Head(Rest) = "WA_SET" /\ lib.f \in Freqs
    BY <2>1, <2>2, Successors DEF Lasts, Dones, At
  <2>4. PICK X \in AdfStruct : X = adf4351_pll_enable(lib.adf, lib.f) /\ X.f = lib.f /\ X.out
    BY <1>3, <2>3, AdfResults
  <2>5. Advances(op) /\ lib'.adf = X /\ lib'.cmx = lib.cmx /\ lib'.f = lib.f /\ lib'.todo = Rest
    BY <1>1, <1>4, <2>1, <2>4, SetAdf
  <2>6. ASSUME NEW h \in Ops, <<op, h>> \in Follow(l) PROVE At(h, l)'
    <3>1. h = "WA_SET"
      BY <2>1, <2>2, <2>6, Successors
    <3> QED BY <1>2, <2>1, <2>2, <2>3, <2>4, <2>5, <3>1 DEF At, Dones
  <2>7. InForce'
    BY <1>2, <2>1, <2>2, <2>3, <2>5 DEF IInv, InForce, LoOn, Do
  <2>8. lib'.adf.f # 0
    BY <2>3, <2>4, <2>5, FreqsAssumption
  <2> QED BY <1>0, <1>1, <1>2, <2>1, <2>5, <2>6, <2>7, <2>8, ComputeStep
<1>5. CASE Do("pll_disable") /\ lib' = [lib EXCEPT !.todo = Rest, !.adf = adf4351_pll_disable(lib.adf)]
  <2>1. PICK op : op = "pll_disable" /\ Do(op) /\ op # "pll_enable"
    BY <1>5
  <2>2. l \in Lasts /\ At(op, l) /\ lib.adf.f # 0
    BY <1>0, <2>1, Doing
  <2>3. PICK X \in AdfStruct : X = adf4351_pll_disable(lib.adf) /\ X.f = lib.adf.f
    BY <1>3, AdfResults
  <2>4. Advances(op) /\ lib'.adf = X /\ lib'.f = lib.f
    BY <1>1, <1>5, <2>1, <2>3, SetAdf
  <2>5. ASSUME NEW h \in Ops, <<op, h>> \in Follow(l) PROVE At(h, l)'
    <3>1. l = "close" /\ h = "WA_SET"
      BY <2>1, <2>2, <2>5, Successors
    <3> QED BY <3>1 DEF At, Dones
  <2> QED BY <1>0, <1>1, <1>2, <2>1, <2>2, <2>3, <2>4, <2>5, ComputeStep DEF Keepers
<1>6. CASE Do("adf4351_init") /\ lib' = [lib EXCEPT !.todo = Rest, !.adf = adf4351_init]
  <2>1. PICK op : op = "adf4351_init" /\ Do(op)
    BY <1>6
  <2>2. l \in Lasts /\ At(op, l)
    BY <1>0, <2>1, Doing
  <2>3. PICK X \in AdfStruct : X = adf4351_init /\ X.f # 0
    BY AdfInit
  <2>4. Advances(op) /\ lib'.adf = X /\ lib'.f = lib.f
    BY <1>1, <1>6, <2>1, <2>3, SetAdf
  <2>5. ASSUME NEW h \in Ops, <<op, h>> \in Follow(l) PROVE At(h, l)'
    <3>1. l = "done_rx" /\ h = "pll_enable"
      BY <2>1, <2>2, <2>5, Successors
    <3> QED BY <1>2, <2>1, <2>2, <2>4, <3>1 DEF At, Dones
  <2> QED BY <1>0, <1>1, <1>2, <2>1, <2>3, <2>4, <2>5, ComputeStep DEF Keepers
<1>7. CASE Do("resume") /\ lib' = [lib EXCEPT !.todo = Rest, !.cmx = cmx991_resume(lib.cmx)]
  <2>1. PICK op : op = "resume" /\ Do(op) /\ op # "pll_enable"
    BY <1>7
  <2>2. l \in Lasts /\ At(op, l) /\ lib.adf.f # 0 /\ (asked # Nothing => Keeps(Rest))
        /\ (Rest # <<>> => <<op, Head(Rest)>> \in Follow(l))
    BY <1>0, <2>1, Doing
  <2>3. PICK X \in CmxType : X = cmx991_resume(lib.cmx) /\ X.tx = lib.cmx.tx /\ X.rx = lib.cmx.rx
    BY <1>3, CmxResults
  <2>4. Advances(op) /\ lib'.cmx = X /\ lib'.adf = lib.adf /\ lib'.f = lib.f /\ lib'.todo = Rest
    BY <1>1, <1>7, <2>1, <2>3, SetCmx
  <2>5. ASSUME NEW h \in Ops, <<op, h>> \in Follow(l) PROVE At(h, l)'
    <3>1. l \in {"done_tune", "WC_SET"} /\ h = "WC_SET"
      BY <2>1, <2>2, <2>5, Successors
    <3> QED BY <2>1, <2>2, <2>3, <2>4, <3>1 DEF At, BothOn, Dones
  <2>6. InForce'
    <3> SUFFICES ASSUME asked # Nothing PROVE InForce'
      BY <1>2 DEF InForce
    <3>1. lib.cmx = cmx /\ cmx \in {TxPower, RxPower} /\ adf[0].v = asked.f
      BY <2>1 DEF IInv, InForce, Do
    <3>2. X = cmx
      BY <2>3, <3>1 DEF cmx991_resume, TxPower, RxPower
    <3> QED BY <1>2, <2>2, <2>4, <3>1, <3>2 DEF IInv, InForce, LoOn
  <2> QED BY <1>0, <1>1, <1>2, <2>1, <2>2, <2>4, <2>5, <2>6, ComputeStep
<1>8. CASE Do("suspend") /\ lib' = [lib EXCEPT !.todo = Rest, !.cmx = cmx991_suspend(lib.cmx)]
  <2>1. PICK op : op = "suspend" /\ Do(op) /\ op # "pll_enable"
    BY <1>8
  <2>2. l \in Lasts /\ At(op, l) /\ lib.adf.f # 0
    BY <1>0, <2>1, Doing
  <2>3. PICK X \in CmxType : X = cmx991_suspend(lib.cmx) /\ ~X.tx
    BY <1>3, CmxResults
  <2>4. Advances(op) /\ lib'.cmx = X /\ lib'.adf = lib.adf /\ lib'.f = lib.f
    BY <1>1, <1>8, <2>1, <2>3, SetCmx
  <2>5. ASSUME NEW h \in Ops, <<op, h>> \in Follow(l) PROVE At(h, l)'
    <3>1. l \in {"WE_CLEAR", "WC_SET", "close"} /\ h = "WC_SET"
      BY <2>1, <2>2, <2>5, Successors
    <3> QED BY <2>3, <2>4, <3>1 DEF At, BothOn, Dones
  <2> QED BY <1>0, <1>1, <1>2, <2>1, <2>2, <2>4, <2>5, ComputeStep DEF Keepers
<1>9. CASE Do("tx_tune") /\ lib' = [lib EXCEPT !.todo = Rest, !.cmx = cmx991_tx_tune(cmx991_resume(lib.cmx))]
  <2>1. PICK op : op = "tx_tune" /\ Do(op) /\ op # "pll_enable"
    BY <1>9
  <2>2. l \in Lasts /\ At(op, l) /\ lib.adf.f # 0
    BY <1>0, <2>1, Doing
  <2>3. PICK X \in CmxType : X = cmx991_tx_tune(cmx991_resume(lib.cmx)) /\ X = TxPower
    BY <1>3, CmxResults
  <2>4. Advances(op) /\ lib'.cmx = X /\ lib'.adf = lib.adf /\ lib'.f = lib.f
    BY <1>1, <1>9, <2>1, <2>3, SetCmx
  <2>5. ASSUME NEW h \in Ops, <<op, h>> \in Follow(l) PROVE At(h, l)'
    <3>1. l = "done_tx" /\ h = "WC_SET"
      BY <2>1, <2>2, <2>5, Successors
    <3> QED BY <1>2, <2>1, <2>2, <2>3, <2>4, <3>1 DEF At, BothOn, Dones, TxPower, LoAt, LoOn
  <2> QED BY <1>0, <1>1, <1>2, <2>1, <2>2, <2>4, <2>5, ComputeStep DEF Keepers
<1>10. CASE Do("rx_tune") /\ lib' = [lib EXCEPT !.todo = Rest, !.cmx = cmx991_rx_tune(cmx991_resume(lib.cmx))]
  <2>1. PICK op : op = "rx_tune" /\ Do(op) /\ op # "pll_enable"
    BY <1>10
  <2>2. l \in Lasts /\ At(op, l) /\ lib.adf.f # 0
    BY <1>0, <2>1, Doing
  <2>3. PICK X \in CmxType : X = cmx991_rx_tune(cmx991_resume(lib.cmx)) /\ X = RxPower
    BY <1>3, CmxResults
  <2>4. Advances(op) /\ lib'.cmx = X /\ lib'.adf = lib.adf /\ lib'.f = lib.f
    BY <1>1, <1>10, <2>1, <2>3, SetCmx
  <2>5. ASSUME NEW h \in Ops, <<op, h>> \in Follow(l) PROVE At(h, l)'
    <3>1. l = "done_rx" /\ h = "WC_SET"
      BY <2>1, <2>2, <2>5, Successors
    <3> QED BY <1>2, <2>1, <2>2, <2>3, <2>4, <3>1 DEF At, BothOn, Dones, RxPower
  <2> QED BY <1>0, <1>1, <1>2, <2>1, <2>2, <2>4, <2>5, ComputeStep DEF Keepers
<1>11. CASE Do("any_cmx991") /\ \E c \in [DOMAIN cmx -> BOOLEAN] : lib' = [lib EXCEPT !.todo = Rest, !.cmx = c]
  <2>1. PICK op : op = "any_cmx991" /\ Do(op) /\ op # "pll_enable"
    BY <1>11
  <2>2. l \in Lasts /\ At(op, l) /\ lib.adf.f # 0
    BY <1>0, <2>1, Doing
  <2>3. PICK X \in CmxType : lib' = [lib EXCEPT !.todo = Rest, !.cmx = X]
    <3>1. PICK c \in [DOMAIN cmx -> BOOLEAN] : lib' = [lib EXCEPT !.todo = Rest, !.cmx = c]
      BY <1>11
    <3>2. DOMAIN cmx = {"bias", "tx", "rx"}
      BY TypeParts DEF IInv, ChipOK, CmxType
    <3>3. c \in CmxType
      BY <3>2 DEF CmxType
    <3> QED BY <3>1, <3>3
  <2>4. Advances(op) /\ lib'.adf = lib.adf /\ lib'.f = lib.f
    BY <1>1, <2>1, <2>3, SetCmx
  <2>5. ASSUME NEW h \in Ops, <<op, h>> \in Follow(l) PROVE At(h, l)'
    <3>1. l = "close" /\ h = "suspend"
      BY <2>1, <2>2, <2>5, Successors
    <3> QED BY <3>1 DEF At, Dones
  <2> QED BY <1>0, <1>1, <1>2, <2>1, <2>2, <2>4, <2>5, ComputeStep DEF Keepers
<1> QED BY <1>4, <1>5, <1>6, <1>7, <1>8, <1>9, <1>10, <1>11 DEF Compute

(* A tuning call returns: what it has set up is now in force.              *)
LEMMA DoneStep ==
  ASSUME IInv, Done PROVE IInv'
<1>0. PICK l : l = LastOf(lib.todo)
  OBVIOUS
<1>1. PICK op \in Dones : Do(op)
  BY DEF Done, Do, Dones
<1>2. lib' = [lib EXCEPT !.todo = Rest] /\ UNCHANGED <<bindVars, fileVars, chipVars>>
  BY DEF Done
<1>3. /\ lib \in Library /\ lib.fd /\ l \in Lasts /\ At(op, l) /\ lib.adf.f # 0
      /\ Rest \in Seq(Ops) /\ Chained(Rest) /\ Rest = <<>> /\ l = op
  <2>1. op # "pll_enable" /\ op \in Dones
    BY DEF Dones
  <2>2. /\ lib \in Library /\ lib.fd /\ l \in Lasts /\ At(op, l) /\ lib.adf.f # 0
        /\ Rest \in Seq(Ops) /\ Chained(Rest)
        /\ (Rest = <<>> => op = l) /\ (Rest # <<>> => <<op, Head(Rest)>> \in Follow(l))
    BY <1>0, <1>1, <2>1, Doing
  <2>3. Rest = <<>>
    BY <2>1, <2>2, Successors
  <2> QED BY <2>2, <2>3
<1>4. /\ UNCHANGED <<drv, res, pins, use_count, file, chans, others, mapped, wds, busy, dac, filteren>>
      /\ UNCHANGED <<adf_regs, cmx_regs, adf, cmx>>
  BY <1>2 DEF bindVars, fileVars, chipVars
<1>5. /\ lib' \in Library /\ lib'.todo = <<>> /\ lib'.fd = lib.fd /\ lib'.f = lib.f
      /\ lib'.adf = lib.adf /\ lib'.cmx = lib.cmx
  BY <1>2, <1>3 DEF Library
<1>6. lib.f \in Freqs
  BY <1>3 DEF At
<1>7. AskedOK /\ (asked # Nothing => asked.mode \in {"tx", "rx"})
  BY TypeParts DEF IInv, InForce
<1>8. \/ op = "done_tx" /\ asked' = [mode |-> "tx", f |-> lib.f]
      \/ op = "done_rx" /\ asked' = [mode |-> "rx", f |-> lib.f]
      \/ op = "done_tune" /\ asked = Nothing /\ asked' = Nothing
      \/ op = "done_tune" /\ asked # Nothing /\ asked' = [asked EXCEPT !.f = lib.f]
  <2>1. Head(lib.todo) = op /\ lib.todo # <<>>
    BY <1>1 DEF Do
  <2>2. asked' = CASE Do("done_tx") -> [mode |-> "tx", f |-> lib.f]
                  [] Do("done_rx") -> [mode |-> "rx", f |-> lib.f]
                  [] Do("done_tune") -> IF asked = Nothing THEN Nothing ELSE [asked EXCEPT !.f = lib.f]
    BY DEF Done
  <2>3. CASE op = "done_tx"
    BY <2>1, <2>2, <2>3 DEF Do
  <2>4. CASE op = "done_rx"
    BY <2>1, <2>2, <2>4 DEF Do
  <2>5. CASE op = "done_tune"
    BY <2>1, <2>2, <2>5 DEF Do
  <2> QED BY <1>1, <2>3, <2>4, <2>5 DEF Dones
<1>9. AskedOK'
  BY <1>6, <1>7, <1>8 DEF AskedOK
<1>10. InForce'
  <2>1. Len(<<>>) = 0
    OBVIOUS
  <2>2. Keeps(lib.todo)'
    BY <1>5, <2>1 DEF Keeps
  <2>3. CASE op = "done_tx" /\ asked' = [mode |-> "tx", f |-> lib.f]
    <3>1. LoAt(lib.f) /\ cmx = TxPower /\ filteren
      BY <1>3, <2>3 DEF At
    <3>2. asked'.mode = "tx" /\ asked'.f = lib.f
      BY <2>3
    <3> QED BY <1>4, <1>5, <2>2, <3>1, <3>2 DEF InForce, LoAt, LoOn
  <2>4. CASE op = "done_rx" /\ asked' = [mode |-> "rx", f |-> lib.f]
    <3>1. LoAt(lib.f) /\ cmx = RxPower
      BY <1>3, <2>4 DEF At
    <3>2. asked'.mode = "rx" /\ asked'.f = lib.f
      BY <2>4
    <3> QED BY <1>4, <1>5, <2>2, <3>1, <3>2 DEF InForce, LoAt, LoOn
  <2>5. CASE asked' = Nothing
    BY <2>5 DEF InForce
  <2>6. CASE op = "done_tune" /\ asked # Nothing /\ asked' = [asked EXCEPT !.f = lib.f]
    <3>1. LoAt(lib.f)
      BY <1>3, <2>6 DEF At
    <3>2. asked'.mode = asked.mode /\ asked'.f = lib.f
      BY <1>7, <2>6 DEF AskedOK
    <3> QED BY <1>4, <1>5, <2>2, <2>6, <3>1, <3>2 DEF IInv, InForce, LoAt, LoOn
  <2> QED BY <1>8, <2>3, <2>4, <2>5, <2>6
<1>11. TypeOK'
  BY <1>4, <1>9, TypeParts DEF IInv, TypeOK, BindOK, FileOK, ChipOK, AskedOK
<1>12. LibType' /\ Owned' /\ NothingLeftBehind'
  BY <1>3, <1>4, <1>5 DEF IInv, LibType, Owned, NothingLeftBehind
<1>13. Shadows' /\ NeverBothMixers' /\ Position'
  BY <1>3, <1>4, <1>5 DEF IInv, Shadows, NeverBothMixers, Position
<1> QED BY <1>10, <1>11, <1>12, <1>13 DEF IInv

(* The file is closed, by the library or by the kernel for a process that  *)
(* was killed anywhere in a call.                                          *)
LEMMA ReleaseStep ==
  ASSUME IInv, whitebox_release, lib' \in Library, lib'.todo = <<>>, lib'.fd = FALSE,
         lib'.adf.f # 0
  PROVE  IInv'
<1> DEFINE reg2 == [adf_regs[2] EXCEPT !.bit5 = TRUE]
<1>1. /\ adf_regs' = [adf_regs EXCEPT ![2] = reg2] /\ adf' = [adf EXCEPT ![reg2.addr] = reg2]
      /\ dac' = FALSE /\ busy' = FALSE /\ chans' = {} /\ use_count' = 0 /\ file' = FALSE /\ mapped' = 0
      /\ asked' = Nothing
      /\ UNCHANGED <<drv, res, pins, others, wds, filteren, cmx_regs, cmx>>
  BY DEF whitebox_release, whitebox_gpio_adf4351_write, bindVars
<1>2. ChipOK /\ Shadows
  BY TypeParts DEF IInv
<1>3. 0 \in Regs /\ 2 \in Regs
  BY DEF Regs
<1>4. adf_regs[2] \in WordType
  BY <1>2, <1>3 DEF ChipOK
<1>5. reg2 \in WordType /\ reg2.addr = adf_regs[2].addr /\ reg2.addr \in {0, 2}
  BY <1>2, <1>3, <1>4 DEF WordType, Shadows
<1> HIDE DEF reg2
<1>6. ChipOK'
  BY <1>1, <1>2, <1>3, <1>5 DEF ChipOK
<1>7. /\ adf_regs'[2] = reg2 /\ \A i \in Regs : i # 2 => adf_regs'[i] = adf_regs[i]
      /\ adf'[reg2.addr] = reg2 /\ \A i \in Regs : i # reg2.addr => adf'[i] = adf[i]
  BY <1>1, <1>2, <1>3, <1>5 DEF ChipOK
<1>8. Shadows'
  <2>1. reg2.addr = 0 => adf_regs[0].v = 0
    BY <1>2, <1>5 DEF Shadows
  <2>2. ASSUME NEW i \in Regs
        PROVE  /\ adf_regs'[i].addr \in {0, i}
               /\ adf_regs'[i] = adf'[i] \/ adf_regs'[i].addr # i \/ (i = 0 /\ adf_regs'[i].v = 0)
    <3>1. CASE i = 2
      BY <1>5, <1>7, <3>1
    <3>2. CASE i # 2
      BY <1>2, <1>5, <1>7, <2>1, <3>2 DEF Shadows
    <3> QED BY <3>1, <3>2
  <2>3. cmx_regs' = cmx'
    BY <1>1, <1>2 DEF Shadows
  <2>4. adf_regs'[2].addr = 0 => adf_regs'[0].v = 0
    BY <1>3, <1>5, <1>7, <2>1
  <2> QED BY <2>2, <2>3, <2>4 DEF Shadows
<1>9. TypeOK'
  <2>1. Nothing \in [mode : {"none", "tx", "rx"}, f : Freqs \cup {0}]
    BY DEF Nothing
  <2>2. BindOK /\ FileOK /\ filteren \in BOOLEAN
    BY TypeParts DEF IInv
  <2>3. BindOK'
    BY <1>1, <2>2 DEF BindOK
  <2>4. AskedOK' /\ busy' \in BOOLEAN /\ filteren' \in BOOLEAN
    BY <1>1, <2>1, <2>2 DEF AskedOK
  <2>5. 0 \in 0 .. 1 /\ {} \subseteq Chans /\ FALSE \in BOOLEAN
    OBVIOUS
  <2>6. FileOK'
    BY <1>1, <2>2, <2>5 DEF FileOK
  <2> QED BY <1>6, <2>3, <2>4, <2>6 DEF TypeOK, BindOK, FileOK, ChipOK, AskedOK
<1>10. Owned' /\ NothingLeftBehind' /\ NeverBothMixers' /\ InForce' /\ Position'
  BY <1>1 DEF IInv, Owned, NothingLeftBehind, NeverBothMixers, InForce, Position
<1>11. LibType'
  BY DEF LibType, Chained
<1> QED BY <1>8, <1>9, <1>10, <1>11 DEF IInv

LEMMA CloseStep == ASSUME IInv, Close \/ Kill PROVE IInv'
<1>1. lib \in Library
  BY DEF IInv, LibType
<1>2. CASE Close
  <2>0. PICK op : op = "close" /\ Do(op) /\ op # "pll_enable"
    BY <1>2 DEF Close
  <2>1. PICK l : l = LastOf(lib.todo)
    OBVIOUS
  <2>2. l \in Lasts /\ lib.adf.f # 0 /\ Rest \in Seq(Ops)
        /\ (Rest # <<>> => <<op, Head(Rest)>> \in Follow(l))
    BY <2>0, <2>1, Doing
  <2>3. Rest = <<>>
    BY <2>0, <2>2, Successors
  <2>4. lib' = [lib EXCEPT !.todo = Rest, !.fd = FALSE] /\ whitebox_release
    BY <1>2 DEF Close
  <2>5. lib' \in Library /\ lib'.todo = <<>> /\ lib'.fd = FALSE /\ lib'.adf = lib.adf
    BY <1>1, <2>2, <2>3, <2>4 DEF Library
  <2> QED BY <2>2, <2>4, <2>5, ReleaseStep
<1>3. CASE Kill
  <2>1. lib' = [lib EXCEPT !.fd = FALSE, !.todo = <<>>, !.adf = adf4351_init] /\ whitebox_release
    BY <1>3 DEF Kill
  <2>2. PICK X \in AdfStruct : X = adf4351_init /\ X.f # 0
    BY AdfInit
  <2>3. <<>> \in Seq(Ops)
    OBVIOUS
  <2>4. lib' \in Library /\ lib'.todo = <<>> /\ lib'.fd = FALSE /\ lib'.adf = X
    BY <1>1, <2>1, <2>2, <2>3 DEF Library
  <2> QED BY <2>1, <2>2, <2>4, ReleaseStep
<1> QED BY <1>2, <1>3

(* The library opens the file.                                             *)
LEMMA OpenStep == ASSUME IInv, Open PROVE IInv'
<1>1. /\ "node" \in res /\ lib.todo = <<>> /\ ~lib.fd
      /\ use_count' = 1 /\ file' = TRUE /\ mapped' = 0 /\ chans' = Chans
      /\ dac' = TRUE /\ wds' = "WDS_IDLE" /\ busy' = FALSE /\ whitebox_ioctl_reset
      /\ UNCHANGED <<drv, res, pins, others, filteren, asked>>
  BY DEF Open, bindVars
<1>2. PICK todo \in {<<"W_RESET">>, <<>>} : lib' = [lib EXCEPT !.fd = TRUE, !.todo = todo]
  BY DEF Open
<1>3. todo \in Seq(Ops) /\ Chained(todo) /\ (todo # <<>> => Head(todo) = "W_RESET" /\ LastOf(todo) = "W_RESET")
  <2>1. CASE todo = <<>>
    <3>1. <<>> \in Seq(Ops)
      OBVIOUS
    <3> QED BY <2>1, <3>1 DEF Chained
  <2>2. CASE todo = <<"W_RESET">>
    <3>1. "W_RESET" \in Ops /\ "W_RESET" \in Lasts
      BY DEF Ops, Lasts
    <3>2. todo \in Seq(Ops) /\ Len(todo) = 1 /\ todo[1] = "W_RESET" /\ Head(todo) = "W_RESET"
      BY <2>2, <3>1
    <3> QED BY <3>1, <3>2 DEF Chained, LastOf
  <2> QED BY <1>2, <2>1, <2>2
<1>4. /\ lib \in Library /\ lib.adf.f # 0 /\ asked = Nothing /\ drv # "unbound"
  BY <1>1 DEF IInv, LibType, Position, Owned, NothingLeftBehind
<1>5. lib' \in Library /\ lib'.todo = todo /\ lib'.fd = TRUE /\ lib'.adf = lib.adf
  BY <1>2, <1>3, <1>4 DEF Library
<1>6. ChipOK' /\ NeverBothMixers' /\ Shadows'
  BY <1>1, ResetChips, TypeParts DEF IInv
<1>7. BindOK /\ FileOK /\ AskedOK /\ filteren \in BOOLEAN
  BY TypeParts DEF IInv
<1>8. BindOK' /\ AskedOK' /\ busy' \in BOOLEAN /\ filteren' \in BOOLEAN
  BY <1>1, <1>7 DEF BindOK, AskedOK
<1>9. FileOK'
  <2>1. 0 \in 0 .. 1 /\ 1 \in 0 .. 1 /\ Chans \subseteq Chans /\ TRUE \in BOOLEAN
    OBVIOUS
  <2> QED BY <1>1, <1>7, <2>1 DEF FileOK
<1>10. TypeOK'
  BY <1>6, <1>8, <1>9 DEF TypeOK, BindOK, FileOK, ChipOK, AskedOK
<1>11. LibType' /\ Owned' /\ NothingLeftBehind' /\ InForce'
  BY <1>1, <1>3, <1>4, <1>5 DEF LibType, Owned, NothingLeftBehind, InForce
<1>12. Position'
  <2>1. At("W_RESET", "W_RESET")'
    BY DEF At, Dones
  <2>2. todo # <<>> => At(Head(lib.todo), LastOf(lib.todo))'
    BY <1>3, <1>5, <2>1 DEF At
  <2> QED BY <1>4, <1>5, <2>2 DEF Position
<1> QED BY <1>6, <1>10, <1>11, <1>12 DEF IInv

(* What does not touch the library, the chips, the DAC and the filter.     *)
LEMMA FileStep ==
  ASSUME IInv, UNCHANGED <<dac, filteren>>, UNCHANGED <<chipVars, lib, asked>>, file' = file,
         BindOK', FileOK', busy' \in BOOLEAN, NothingLeftBehind', file => drv' # "unbound"
  PROVE  IInv'
<1>1. UNCHANGED <<adf_regs, cmx_regs, adf, cmx>>
  BY DEF chipVars
<1>2. TypeOK'
  BY <1>1, TypeParts DEF IInv, TypeOK, BindOK, FileOK, ChipOK, AskedOK
<1>3. LibType' /\ Owned'
  BY DEF IInv, LibType, Owned
<1>4. Shadows' /\ NeverBothMixers'
  BY <1>1 DEF IInv, Shadows, NeverBothMixers
<1>5. Position' /\ InForce'
  BY <1>1 DEF IInv, Position, InForce, At, LoAt, LoOn
<1> QED BY <1>2, <1>3, <1>4, <1>5 DEF IInv

(* The steps of the driver core, of other drivers and of the file.         *)
LEMMA DriverStep ==
  ASSUME IInv, ProbeFails \/ Remove \/ OpenFails \/ Mmap \/ Stream \/ OtherDriver
  PROVE  IInv'
<1>0. BindOK /\ FileOK /\ busy \in BOOLEAN /\ NothingLeftBehind /\ (file => drv # "unbound")
  BY TypeParts DEF IInv, Owned
<1>1. CASE ProbeFails
  <2>1. PICK k \in 2 .. 13 :
          /\ res' = {Stages[i] : i \in 1 .. k - 1} \ (Unwound(k) \cup {"gpio"})
          /\ drv' \in {"bound", "unbound"} /\ pins' \in {"lost", pins}
    <3>1. PICK k \in 2 .. IF pins = "lost" THEN 12 ELSE 13 :
            /\ res' = {Stages[i] : i \in 1 .. k - 1} \ (Unwound(k) \cup {"gpio"})
            /\ drv' = IF Stages[k] \in {"mock_buf", "user_buffer"} THEN "bound" ELSE "unbound"
            /\ pins' \in IF k = 13 THEN {"lost"} ELSE IF k = 12 THEN {pins, "lost"} ELSE {pins}
      BY <1>1 DEF ProbeFails
    <3>2. k \in 2 .. 13 /\ drv' \in {"bound", "unbound"} /\ pins' \in {"lost", pins}
      BY <3>1
    <3> QED BY <3>1, <3>2
  <2>2. res' = {}
    BY <2>1 DEF Unwound
  <2>3. drv = "unbound" /\ UNCHANGED fileVars /\ UNCHANGED <<chipVars, lib, asked>>
    BY <1>1 DEF ProbeFails
  <2>4. BindOK'
    BY <1>0, <2>1, <2>2 DEF BindOK
  <2>5. FileOK' /\ busy' = busy /\ NothingLeftBehind' /\ ~file
    BY <1>0, <2>2, <2>3 DEF FileOK, NothingLeftBehind, fileVars
  <2> QED BY <1>0, <2>3, <2>4, <2>5, FileStep DEF fileVars
<1>2. CASE Remove
  <2>1. /\ drv' \in {"unbound", "oops"} /\ res' = {} /\ pins' = "free" /\ ~file
        /\ UNCHANGED fileVars /\ UNCHANGED <<chipVars, lib, asked>>
    BY <1>2 DEF Remove
  <2>2. BindOK'
    BY <2>1 DEF BindOK
  <2>3. FileOK' /\ busy' = busy /\ NothingLeftBehind'
    BY <1>0, <2>1 DEF FileOK, NothingLeftBehind, fileVars
  <2> QED BY <1>0, <2>1, <2>2, <2>3, FileStep DEF fileVars
<1>3. CASE OpenFails
  <2>1. /\ use_count = 0 /\ chans' = chans \ Requested /\ mapped' = 0
        /\ UNCHANGED <<drv, res, pins, use_count, file, others, wds, busy, dac, filteren>>
        /\ UNCHANGED <<chipVars, lib, asked>>
    BY <1>3 DEF OpenFails, bindVars
  <2>2. ~file /\ chans = {}
    BY <1>0, <2>1 DEF NothingLeftBehind
  <2>3. chans' = {} /\ 0 \in 0 .. 1
    BY <2>1, <2>2
  <2>4. BindOK' /\ FileOK' /\ NothingLeftBehind'
    BY <1>0, <2>1, <2>2, <2>3 DEF BindOK, FileOK, NothingLeftBehind
  <2> QED BY <1>0, <2>1, <2>4, FileStep
<1>4. CASE Mmap
  <2>1. /\ file /\ mapped' \in 0 .. 1
        /\ UNCHANGED <<drv, res, pins, use_count, file, chans, others, wds, busy, dac, filteren>>
        /\ UNCHANGED <<chipVars, lib, asked>>
    BY <1>4 DEF Mmap, bindVars
  <2>2. BindOK' /\ FileOK' /\ NothingLeftBehind'
    BY <1>0, <2>1 DEF BindOK, FileOK, NothingLeftBehind
  <2> QED BY <1>0, <2>1, <2>2, FileStep
<1>5. CASE Stream
  <2>1. /\ UNCHANGED <<drv, res, pins, use_count, file, chans, others, mapped, dac, filteren>>
        /\ UNCHANGED <<chipVars, lib, asked>>
    BY <1>5 DEF Stream, bindVars
  <2>2. wds' \in {"WDS_IDLE", "WDS_TX", "WDS_TX_STREAMING", "WDS_TX_STOPPING", "WDS_RX_STREAMING"}
    BY <1>0, <1>5 DEF Stream, FileOK
  <2>3. busy' \in BOOLEAN
    <3>1. (wds' = "WDS_TX_STOPPING") \in BOOLEAN
      OBVIOUS
    <3> QED BY <1>0, <1>5, <3>1, Zenon DEF Stream
  <2>4. BindOK' /\ FileOK' /\ NothingLeftBehind'
    BY <1>0, <2>1, <2>2 DEF BindOK, FileOK, NothingLeftBehind
  <2> QED BY <1>0, <2>1, <2>3, <2>4, FileStep
<1>6. CASE OtherDriver
  <2>1. /\ others' \subseteq Chans
        /\ UNCHANGED <<drv, res, pins, use_count, file, chans, mapped, wds, busy, dac, filteren>>
        /\ UNCHANGED <<chipVars, lib, asked>>
    BY <1>0, <1>6 DEF OtherDriver, FileOK, bindVars
  <2>2. BindOK' /\ FileOK' /\ NothingLeftBehind'
    BY <1>0, <2>1 DEF BindOK, FileOK, NothingLeftBehind
  <2> QED BY <1>0, <2>1, <2>2, FileStep
<1> QED BY <1>1, <1>2, <1>3, <1>4, <1>5, <1>6

(* A successful probe: no file is open.                                    *)
LEMMA ProbeStep == ASSUME IInv, Probe PROVE IInv'
<1>1. /\ drv = "unbound" /\ drv' = "bound" /\ res' = AllStages /\ pins' = "ours"
      /\ adf_regs' = AllZero /\ cmx_regs' = CmxOff /\ cmx' = CmxOff /\ adf' = adf
      /\ UNCHANGED fileVars /\ lib' = lib /\ asked' = asked
  BY DEF Probe, whitebox_gpio_cmx991_reset
<1>2. ~file /\ ~lib.fd /\ asked = Nothing /\ lib.todo = <<>>
  BY <1>1 DEF IInv, Owned
<1>3. ChipOK' /\ NeverBothMixers' /\ Shadows'
  <2>1. whitebox_ioctl_reset
    BY <1>1 DEF whitebox_ioctl_reset, whitebox_gpio_cmx991_reset
  <2> QED BY <2>1, ResetChips, TypeParts DEF IInv
<1>4. TypeOK'
  <2>1. BindOK'
    BY <1>1 DEF BindOK
  <2>2. FileOK' /\ AskedOK' /\ busy' \in BOOLEAN /\ filteren' \in BOOLEAN
    BY <1>1, TypeParts DEF IInv, FileOK, AskedOK, fileVars
  <2> QED BY <1>3, <2>1, <2>2 DEF TypeOK, BindOK, FileOK, ChipOK, AskedOK
<1>5. LibType' /\ Owned' /\ NothingLeftBehind'
  BY <1>1, <1>2 DEF IInv, LibType, Owned, NothingLeftBehind, fileVars
<1>6. Position' /\ InForce'
  BY <1>1, <1>2 DEF IInv, Position, InForce
<1> QED BY <1>3, <1>4, <1>5, <1>6 DEF IInv

(* The library enters a call.                                              *)
LEMMA BeginStep ==
  ASSUME IInv, NEW todo \in Seq(Ops), NEW f \in Freqs \cup {BadFreq}, NEW keeps \in BOOLEAN,
         Begin(todo, f, keeps), Chained(todo), keeps => Keeps(todo),
         todo # <<>> => /\ Head(todo) \notin {"resume", "WC_SET", "WA_SET"} \cup Dones
                        /\ LastOf(todo) = "done_tx" => Head(todo) = "WA_GET"
                        /\ LastOf(todo) = "done_rx" => Head(todo) = "WC_GET"
                        /\ LastOf(todo) \in Dones => f \in Freqs
  PROVE  IInv'
<1>1. /\ lib.fd /\ lib.todo = <<>> /\ lib' = [lib EXCEPT !.todo = todo, !.f = f]
      /\ asked' \in {Nothing, asked} /\ (asked' # Nothing => keeps)
      /\ UNCHANGED bindVars /\ UNCHANGED fileVars /\ UNCHANGED chipVars
  BY DEF Begin
<1>2. /\ UNCHANGED <<drv, res, pins, use_count, file, chans, others, mapped, wds, busy, dac, filteren>>
      /\ UNCHANGED <<adf_regs, cmx_regs, adf, cmx>>
  BY <1>1 DEF bindVars, fileVars, chipVars
<1>3. lib \in Library /\ lib.adf.f # 0
  BY <1>1 DEF IInv, LibType, Position
<1>4. /\ lib' \in Library /\ lib'.todo = todo /\ lib'.f = f /\ lib'.fd = lib.fd
      /\ lib'.adf = lib.adf /\ lib'.cmx = lib.cmx
  BY <1>1, <1>3 DEF Library
<1>5. AskedOK'
  <2>1. Nothing \in [mode : {"none", "tx", "rx"}, f : Freqs \cup {0}]
    BY DEF Nothing
  <2>2. AskedOK
    BY TypeParts DEF IInv
  <2> QED BY <1>1, <2>1, <2>2 DEF AskedOK
<1>6. TypeOK'
  BY <1>2, <1>5, TypeParts DEF IInv, TypeOK, BindOK, FileOK, ChipOK, AskedOK
<1>7. LibType' /\ Owned' /\ NothingLeftBehind'
  BY <1>1, <1>2, <1>4 DEF IInv, LibType, Owned, NothingLeftBehind
<1>8. Shadows' /\ NeverBothMixers'
  BY <1>2, <1>4 DEF IInv, Shadows, NeverBothMixers
<1>9. Position'
  <2> SUFFICES ASSUME todo # <<>> PROVE At(Head(lib.todo), LastOf(lib.todo))'
    BY <1>3, <1>4 DEF Position
  <2>1. PICK h : h = Head(todo) /\ h \notin {"resume", "WC_SET", "WA_SET"} \cup Dones
    OBVIOUS
  <2>2. PICK l : l = LastOf(todo)
    OBVIOUS
  <2>3. At(h, l)'
    BY <1>4, <2>1, <2>2 DEF At, Dones
  <2> QED BY <1>4, <2>1, <2>2, <2>3 DEF At
<1>10. InForce'
  <2> SUFFICES ASSUME asked' # Nothing PROVE InForce'
    BY DEF InForce
  <2>1. asked' = asked /\ asked # Nothing /\ Keeps(todo)
    BY <1>1
  <2>2. adf[0].v = asked.f
    BY <1>1, <2>1 DEF IInv, InForce
  <2> QED BY <1>2, <1>4, <2>1, <2>2 DEF IInv, InForce, LoOn
<1> QED BY <1>6, <1>7, <1>8, <1>9, <1>10 DEF IInv

LEMMA CallStep == ASSUME IInv, CallLibrary PROVE IInv'
<1>1. ASSUME NEW f \in Freqs, NEW c \in DOMAIN Calls(f),
             Begin(Calls(f)[c], f, c \in {"whitebox_tx_fine_tune", "whitebox_rx_fine_tune"})
      PROVE  IInv'
  <2>1. PICK s \in Seq(Ops) :
          /\ s = Calls(f)[c] /\ Chained(s)
          /\ Head(s) \notin {"resume", "WC_SET", "WA_SET"} \cup Dones
          /\ LastOf(s) = "done_tx" => Head(s) = "WA_GET"
          /\ LastOf(s) = "done_rx" => Head(s) = "WC_GET"
          /\ c \in {"whitebox_tx_fine_tune", "whitebox_rx_fine_tune"} => Keeps(s)
    BY CallsChained
  <2>2. CASE c \in {"whitebox_tx_fine_tune", "whitebox_rx_fine_tune"}
    <3>1. Begin(s, f, TRUE) /\ Keeps(s)
      BY <1>1, <2>1, <2>2 DEF Begin
    <3> QED BY <2>1, <3>1, BeginStep
  <2>3. CASE c \notin {"whitebox_tx_fine_tune", "whitebox_rx_fine_tune"}
    <3>1. Begin(s, f, FALSE)
      BY <1>1, <2>1, <2>3 DEF Begin
    <3> QED BY <2>1, <3>1, BeginStep
  <2> QED BY <2>2, <2>3
<1>2. ASSUME NEW c \in DOMAIN CallsBadFreq, Begin(CallsBadFreq[c], BadFreq, TRUE)
      PROVE  IInv'
  <2>1. PICK s \in Seq(Ops) :
          /\ s = CallsBadFreq[c] /\ Chained(s) /\ Keeps(s)
          /\ s # <<>> => LastOf(s) \notin Dones /\ Head(s) = "WC_GET"
    BY BadCallsChained
  <2>2. Begin(s, BadFreq, TRUE) /\ BadFreq \in Freqs \cup {BadFreq} /\ TRUE \in BOOLEAN
    BY <1>2, <2>1
  <2>3. s # <<>> => /\ Head(s) \notin {"resume", "WC_SET", "WA_SET"} \cup Dones
                    /\ LastOf(s) # "done_tx" /\ LastOf(s) # "done_rx" /\ LastOf(s) \notin Dones
    BY <2>1 DEF Dones
  <2> QED BY <2>1, <2>2, <2>3, BeginStep
<1> QED BY <1>1, <1>2 DEF CallLibrary

----------------------------------------------------------------------------
LEMMA Initially == Init => IInv
<1> SUFFICES ASSUME Init PROVE IInv
  OBVIOUS
<1>1. /\ drv = "unbound" /\ res = {} /\ pins = "free" /\ use_count = 0 /\ file = FALSE
      /\ chans = {} /\ others = {} /\ mapped = 0 /\ wds = "WDS_IDLE" /\ busy = FALSE
      /\ dac = FALSE /\ filteren = FALSE /\ asked = Nothing
  BY DEF Init
<1>2. /\ adf_regs = AllZero /\ cmx_regs = CmxOff /\ cmx = CmxOff
      /\ adf = [i \in Regs |-> Word(i, FALSE, 0)]
      /\ lib = [fd |-> FALSE, adf |-> adf4351_init, cmx |-> CmxOff, f |-> 0, todo |-> <<>>]
  BY DEF Init
<1>3. CmxOff \in CmxType /\ ~CmxOff.tx
  BY DEF CmxOff, CmxType
<1>4. ChipOK /\ NeverBothMixers
  BY <1>2, <1>3 DEF ChipOK, WordType, Word, AllZero, ZeroWord, Regs, NeverBothMixers
<1>5. BindOK
  BY <1>1 DEF BindOK
<1>6. FileOK
  <2>1. 0 \in 0 .. 1 /\ {} \subseteq Chans /\ FALSE \in BOOLEAN
    OBVIOUS
  <2> QED BY <1>1, <2>1 DEF FileOK
<1>7. AskedOK
  BY <1>1 DEF AskedOK, Nothing
<1>8. TypeOK
  BY <1>1, <1>4, <1>5, <1>6, <1>7, TypeParts
<1>9. PICK X \in AdfStruct : X = adf4351_init /\ X.f # 0
  BY AdfInit
<1>10. <<>> \in Seq(Ops)
  OBVIOUS
<1>11. lib \in Library /\ lib.todo = <<>> /\ lib.fd = FALSE /\ lib.adf = X
  BY <1>2, <1>3, <1>9, <1>10 DEF Library
<1>12. LibType /\ Owned /\ NothingLeftBehind /\ Position /\ InForce
  BY <1>1, <1>9, <1>11 DEF LibType, Chained, Owned, NothingLeftBehind, Position, InForce
<1>13. Shadows
  <2>1. \A i \in Regs : adf_regs[i] = ZeroWord /\ ZeroWord.addr = 0 /\ ZeroWord.v = 0
    BY <1>2 DEF AllZero, ZeroWord, Word
  <2>2. \A i \in Regs : i = 0 \/ 0 # i
    OBVIOUS
  <2> QED BY <1>2, <1>11, <2>1, <2>2 DEF Shadows, Regs
<1> QED BY <1>4, <1>8, <1>12, <1>13 DEF IInv

LEMMA Inductive == IInv /\ [Next]_vars => IInv'
<1> SUFFICES ASSUME IInv, [Next]_vars PROVE IInv'
  OBVIOUS
<1>1. CASE ProbeFails \/ Remove \/ OpenFails \/ Mmap \/ Stream \/ OtherDriver
  BY <1>1, DriverStep
<1>2. CASE Probe
  BY <1>2, ProbeStep
<1>3. CASE Open
  BY <1>3, OpenStep
<1>4. CASE Kill \/ Close
  BY <1>4, CloseStep
<1>5. CASE CallLibrary
  BY <1>5, CallStep
<1>6. CASE WA_GET
  BY <1>6, WA_GETStep
<1>7. CASE WC_GET
  BY <1>7, WC_GETStep
<1>8. CASE WA_SET
  BY <1>8, WA_SETStep
<1>9. CASE WC_SET
  BY <1>9, WC_SETStep
<1>10. CASE W_RESET
  BY <1>10, W_RESETStep
<1>11. CASE ExciterIoctl
  BY <1>11, ExciterStep
<1>12. CASE Compute
  BY <1>12, LibraryStep
<1>13. CASE Done
  BY <1>13, DoneStep
<1>14. CASE OpenBusy \/ UNCHANGED vars
  <2>1. UNCHANGED <<bindVars, fileVars, chipVars, lib, asked>>
    BY <1>14 DEF OpenBusy, vars
  <2>2. /\ UNCHANGED <<drv, res, pins>>
        /\ UNCHANGED <<use_count, file, chans, others, mapped, wds, busy, dac, filteren>>
    BY <2>1 DEF bindVars, fileVars
  <2>3. BindOK' /\ FileOK' /\ busy' \in BOOLEAN /\ NothingLeftBehind' /\ (file => drv' # "unbound")
    BY <2>2, TypeParts DEF IInv, Owned, BindOK, FileOK, NothingLeftBehind
  <2> QED BY <2>1, <2>2, <2>3, FileStep
<1> QED BY <1>1, <1>2, <1>3, <1>4, <1>5, <1>6, <1>7, <1>8, <1>9, <1>10, <1>11, <1>12, <1>13,
           <1>14 DEF Next

(* The inductive invariant holds in every reachable state.                 *)
THEOREM Invariant == Spec => []IInv
BY Initially, Inductive, PTL DEF Spec

(* The fields of the driver and the registers of the chips keep their      *)
(* types through every ioctl and call of the library.                      *)
THEOREM TypeCorrect == Spec => []TypeOK
<1>1. IInv => TypeOK
  BY DEF IInv
<1> QED BY <1>1, Invariant, PTL

(* Whichever stage of whitebox_probe or whichever pdma_request of          *)
(* whitebox_open fails, and whenever the process is killed, nothing that   *)
(* was acquired stays acquired: the DMA channels are held exactly while    *)
(* the file is open, and an unbound driver holds no stage's result.        *)
THEOREM NothingIsLeftBehind == Spec => []NothingLeftBehind
<1>1. IInv => NothingLeftBehind
  BY DEF IInv
<1> QED BY <1>1, Invariant, PTL

(* After whitebox_tx, whitebox_rx or a fine tune returned 0 the two chips  *)
(* are as asked for, at any frequency and after any sequence of calls,     *)
(* resets, kills and reopens, although WA_SET and WC_SET write only the    *)
(* registers that differ from the driver's shadow.                         *)
THEOREM ChipTunedAsAsked == Spec => []TunedAsAsked
<1>1. IInv => TunedAsAsked
  <2> SUFFICES ASSUME IInv, asked # Nothing, lib.todo = <<>>
               PROVE  /\ LoOn /\ adf[0].v = asked.f /\ dac
                      /\ asked.mode = "tx" => filteren /\ cmx = TxPower
                      /\ asked.mode = "rx" => cmx = RxPower
    BY DEF TunedAsAsked, TxPower, RxPower
  <2> QED BY DEF IInv, InForce, Owned
<1> QED BY <1>1, Invariant, PTL

(* No sequence of library calls turns both mixers of the CMX991 on, also   *)
(* when whitebox_close starts from an argument block nobody has filled.    *)
THEOREM MixersExclusive == Spec => []NeverBothMixers
<1>1. IInv => NeverBothMixers
  BY DEF IInv
<1> QED BY <1>1, Invariant, PTL
=============================================================================
