------------------------------- MODULE Device -------------------------------
(***************************************************************************)
(* The life of the device: probe and remove, open and release of           *)
(* driver/whitebox_driver.c, its ioctls for the two radio chips with the   *)
(* driver's shadow registers (driver/whitebox_gpio.c behind them), and the *)
(* user library lib/whitebox.c, which tunes the chips by sequences of      *)
(* ioctls and whose process may be killed between any two of them.         *)
(*                                                                         *)
(* An ioctl, open and release are one step each: the kernel does not       *)
(* preempt them and they do not sleep.                                     *)
(*                                                                         *)
(* A register of the ADF4351 (the LO) is a word whose lowest bits are its  *)
(* address.  Registers 0 (the frequency), 2 (bit 5: power down) and 4 (bit *)
(* 5: output on) stand for the six; a word is its address, its bit 5 and   *)
(* the rest.  The CMX991 is its three power switches.                      *)
(***************************************************************************)
EXTENDS Integers, Sequences

CONSTANTS Freqs,    \* frequencies that can be tuned
          BadFreq   \* a frequency too low for the VCO

Untuned == 1        \* register 0 as adf4351_init leaves it
ASSUME FreqsAssumption == Freqs \subseteq Nat \ {0, Untuned} /\ BadFreq \notin Freqs

VARIABLES drv,        \* the driver: "unbound", "bound", or "oops" once it freed twice
          res,        \* the stages of whitebox_probe whose result is held
          pins,       \* the GPIO pins: "free", "ours", or "lost" by a failed probe
          use_count,  \* atomic use_count
          file,       \* a file is open
          chans,      \* the DMA channels requested by this driver
          others,     \* the DMA channels some other driver has requested
          mapped,     \* whitebox_device->mapped
          wds,        \* whitebox_device->state
          busy,       \* a transmit DMA buffer is in use
          dac,        \* the DAC is enabled
          filteren,   \* the exciter's FILTEREN bit, which no clear resets
          adf_regs,   \* whitebox_device->adf4351_regs, the driver's shadow
          cmx_regs,   \* whitebox_device->cmx991_regs
          adf, cmx,   \* the registers of the chips
          lib,        \* the library: its register structs and the calls to make
          asked       \* history: the mode and frequency last tuned with success

bindVars == <<drv, res, pins>>
fileVars == <<use_count, file, chans, others, mapped, wds, busy, dac, filteren>>
chipVars == <<adf_regs, cmx_regs, adf, cmx>>
vars == <<bindVars, fileVars, chipVars, lib, asked>>

Chans == {"tx_dma_ch", "rx_dma_ch"}
Nothing == [mode |-> "none", f |-> 0]

Regs == {0, 2, 4}
Word(a, bit5, v) == [addr |-> a, bit5 |-> bit5, v |-> v]
ZeroWord == Word(0, FALSE, 0)
AllZero == [i \in Regs |-> ZeroWord]
CmxOff == [bias |-> FALSE, tx |-> FALSE, rx |-> FALSE]

----------------------------------------------------------------------------
(* The registers as the library keeps them (lib/adf4351_impl.c.tmpl,       *)
(* lib/cmx991_impl.c.tmpl).                                                *)

adf4351_pack(r) == [i \in Regs |-> CASE i = 0 -> Word(0, FALSE, r.f)
                                     [] i = 2 -> Word(2, r.pd, 1)
                                     [] i = 4 -> Word(4, r.out, 1)]

(* Each word of regs goes where its own address says: words of zeros all   *)
(* load register 0.                                                        *)
adf4351_ioctl_get(r, regs) ==
  LET at(a) == {i \in Regs : regs[i].addr = a}
      last(a) == regs[CHOOSE i \in at(a) : \A j \in at(a) : j <= i]
  IN  [f   |-> IF at(0) = {} THEN r.f   ELSE last(0).v,
       pd  |-> IF at(2) = {} THEN r.pd  ELSE last(2).bit5,
       out |-> IF at(4) = {} THEN r.out ELSE last(4).bit5]

adf4351_init == [f |-> Untuned, pd |-> FALSE, out |-> TRUE]
adf4351_pll_enable(r, f) == [r EXCEPT !.f = f, !.out = TRUE]
adf4351_pll_disable(r) == [r EXCEPT !.out = FALSE]

cmx991_resume(c) == [c EXCEPT !.bias = TRUE]
cmx991_suspend(c) == CmxOff
cmx991_tx_tune(c) == [c EXCEPT !.tx = TRUE, !.rx = FALSE]

(* A deliberate slip: the transmitter's mixer stays on.                    *)
RxTuneKeepsTx(c) == [c EXCEPT !.rx = TRUE]
cmx991_rx_tune(c) == [c EXCEPT !.rx = TRUE, !.tx = FALSE]

(* The chips, behind GPIO pins: a word goes where its address says, and    *)
(* the CMX991 alone has a reset.                                           *)
whitebox_gpio_adf4351_write(chip, word) == [chip EXCEPT ![word.addr] = word]
whitebox_gpio_cmx991_reset == cmx' = CmxOff

----------------------------------------------------------------------------
(* probe and remove *)

Stages == <<"device", "debugfs", "mock_buf", "exciter", "mock_exciter", "receiver",
            "mock_receiver", "class", "region", "cdev", "node", "gpio", "user_buffer">>
AllStages == {Stages[i] : i \in 1 .. Len(Stages)}

(* What the chain of labels frees when stage k fails: all the stages       *)
(* before it, but never the GPIO pins.                                     *)
Unwound(k) == {Stages[i] : i \in 1 .. k - 1} \ {"gpio"}

(* A stage of probe fails (kzalloc's result, the first, is not looked at). *)
(* For the two page allocations ret is still 0: the driver core takes the  *)
(* device for bound.  whitebox_gpio_request keeps the pins it got, and     *)
(* then never succeeds again.                                              *)
ProbeFails ==
  /\ drv = "unbound"
  /\ \E k \in 2 .. IF pins = "lost" THEN 12 ELSE 13 :
       /\ res' = {Stages[i] : i \in 1 .. k - 1} \ (Unwound(k) \cup {"gpio"})
       /\ drv' = IF Stages[k] \in {"mock_buf", "user_buffer"} THEN "bound" ELSE "unbound"
       /\ pins' \in IF k = 13 THEN {"lost"} ELSE IF k = 12 THEN {pins, "lost"} ELSE {pins}
  /\ UNCHANGED <<fileVars, chipVars, lib, asked>>

(* probe succeeds: the registers of the new device are zeros, and so is    *)
(* the CMX991 after its reset.                                             *)
Probe ==
  /\ drv = "unbound" /\ pins = "free"
  /\ drv' = "bound" /\ res' = AllStages /\ pins' = "ours"
  /\ adf_regs' = AllZero /\ cmx_regs' = CmxOff /\ whitebox_gpio_cmx991_reset
  /\ UNCHANGED <<fileVars, adf, lib, asked>>

(* remove, never with a file open.  It does not free the two page buffers; *)
(* what a failed probe that looked like a success has freed it frees again.*)
Remove ==
  /\ drv = "bound" /\ ~file
  /\ drv' = IF res = AllStages THEN "unbound" ELSE "oops"
  /\ res' = {} /\ pins' = "free"
  /\ UNCHANGED <<fileVars, chipVars, lib, asked>>

----------------------------------------------------------------------------
(* open, release and the ioctls that change state *)

(* A deliberate slip: the shadow of the chip that was reset is kept.       *)
ResetKeepsCmx == /\ cmx' = CmxOff /\ adf_regs' = AllZero /\ UNCHANGED <<cmx_regs, adf>>

(* W_RESET resets the CMX991 and forgets both shadows; the ADF4351 has no  *)
(* reset and goes on as it was.                                            *)
whitebox_ioctl_reset ==
  /\ whitebox_gpio_cmx991_reset
  /\ adf_regs' = AllZero /\ cmx_regs' = CmxOff
  /\ UNCHANGED adf

(* pdma_request of the channels, one after the other.                      *)
Requested == IF "tx_dma_ch" \in others THEN {}
             ELSE IF "rx_dma_ch" \in others THEN {"tx_dma_ch"} ELSE Chans

(* A deliberate slip: the receive side fails and the transmit channel is   *)
(* kept.                                                                   *)
OpenFailsKeepsTx ==
  /\ "node" \in res /\ lib.todo = <<>> /\ ~lib.fd
  /\ use_count = 0 /\ Requested # Chans
  /\ chans' = Requested
  /\ mapped' = 0
  /\ UNCHANGED <<bindVars, use_count, file, others, wds, busy, dac, filteren, chipVars, lib, asked>>

(* whitebox_open when a DMA channel is taken: what was requested is        *)
(* released and the count goes back.                                       *)
OpenFails ==
  /\ "node" \in res /\ lib.todo = <<>> /\ ~lib.fd
  /\ use_count = 0 /\ Requested # Chans
  /\ chans' = chans \ Requested
  /\ mapped' = 0
  /\ UNCHANGED <<bindVars, use_count, file, others, wds, busy, dac, filteren, chipVars, lib, asked>>

(* whitebox_open of the library: it opens the file, resets the device and  *)
(* sets both rates (which touch no chip); with a rate that does not divide *)
(* the DAC's it returns -1 after the open, and keeps the file.             *)
Open ==
  /\ "node" \in res /\ lib.todo = <<>> /\ ~lib.fd
  /\ use_count = 0 /\ Requested = Chans
  /\ use_count' = 1 /\ file' = TRUE /\ mapped' = 0
  /\ chans' = Chans
  /\ dac' = TRUE /\ wds' = "WDS_IDLE" /\ busy' = FALSE
  /\ whitebox_ioctl_reset
  /\ \E todo \in {<<"W_RESET">>, <<>>} : lib' = [lib EXCEPT !.fd = TRUE, !.todo = todo]
  /\ UNCHANGED <<bindVars, others, filteren, asked>>

(* A second open while the first file is there: -EBUSY, and the count goes *)
(* back.                                                                   *)
OpenBusy ==
  /\ "node" \in res /\ use_count > 0
  /\ UNCHANGED vars

(* whitebox_release, at close() or because the process was killed: wait    *)
(* for the DMA while transmitting, write the shadow of register 2 with the *)
(* power down bit to the LO, turn the DAC off, release the channels.       *)
whitebox_release ==
  LET reg2 == [adf_regs[2] EXCEPT !.bit5 = TRUE]
  IN  /\ file /\ use_count = 1
      /\ wds \in {"WDS_TX", "WDS_TX_STREAMING"} => ~busy
      /\ adf_regs' = [adf_regs EXCEPT ![2] = reg2]
      /\ adf' = whitebox_gpio_adf4351_write(adf, reg2)
      /\ dac' = FALSE /\ busy' = FALSE
      /\ chans' = {}
      /\ use_count' = 0 /\ file' = FALSE /\ mapped' = 0
      /\ asked' = Nothing
      /\ UNCHANGED <<bindVars, others, wds, filteren, cmx_regs, cmx>>

Kill ==
  /\ whitebox_release
  /\ lib' = [lib EXCEPT !.fd = FALSE, !.todo = <<>>, !.adf = adf4351_init]

(* mmap and munmap; an unmapped file is what release sees.                 *)
Mmap ==
  /\ file /\ mapped' \in {mapped + 1, mapped - 1} \cap 0 .. 1
  /\ UNCHANGED <<bindVars, use_count, file, chans, others, wds, busy, dac, filteren, chipVars, lib, asked>>

(* What read(), write() and fsync() do to the state and the DMA (RxPath,   *)
(* TxPath).                                                                *)
Stream ==
  /\ file
  /\ \/ wds = "WDS_IDLE" /\ wds' \in {"WDS_TX", "WDS_RX_STREAMING"} /\ UNCHANGED busy
     \/ wds = "WDS_TX" /\ wds' = "WDS_TX_STREAMING" /\ busy' = TRUE
     \/ wds = "WDS_TX_STREAMING" /\ wds' \in {"WDS_IDLE", "WDS_TX_STOPPING"}
        /\ busy' \in {FALSE, wds' = "WDS_TX_STOPPING"}
     \/ wds = "WDS_RX_STREAMING" /\ wds' = "WDS_IDLE" /\ UNCHANGED busy
     \/ busy /\ busy' = FALSE /\ UNCHANGED wds
  /\ UNCHANGED <<bindVars, use_count, file, chans, others, mapped, dac, filteren, chipVars, lib, asked>>

(* Another driver takes or gives back a DMA channel.                       *)
OtherDriver ==
  /\ \E c \in Chans \ chans : others' = IF c \in others THEN others \ {c} ELSE others \cup {c}
  /\ UNCHANGED <<bindVars, use_count, file, chans, mapped, wds, busy, dac, filteren, chipVars, lib, asked>>

----------------------------------------------------------------------------
(* The user library *)

(* The ioctls a library call makes, and between them what it does to its   *)
(* register structs.  (The WR_CLEAR that ends whitebox_rx_standby is       *)
(* RxPath's ReceiverClear.)                                                *)
Calls(f) ==
  [whitebox_tx           |-> <<"WA_GET", "pll_enable", "WA_SET", "WC_GET", "tx_tune", "WC_SET",
                               "WE_CLEAR", "WE_SET", "done_tx">>,
   whitebox_tx_standby   |-> <<"WC_GET", "suspend", "WC_SET", "WE_CLEAR">>,
   whitebox_tx_fine_tune |-> <<"WC_GET", "resume", "WC_SET", "pll_enable", "WA_SET",
                               "done_tune">>,
   whitebox_rx           |-> <<"WC_GET", "rx_tune", "WC_SET", "adf4351_init", "pll_enable",
                               "WA_SET", "done_rx">>,
   whitebox_rx_fine_tune |-> <<"pll_enable", "WA_SET", "done_tune">>,
   whitebox_rx_standby   |-> <<"WC_GET", "suspend", "WC_SET">>,
   whitebox_reset        |-> <<"W_RESET">>,
   whitebox_close        |-> <<"any_cmx991", "suspend", "WC_SET", "pll_disable", "WA_SET",
                               "close">>]

(* A deliberate slip: the last test of the frequency is missing.           *)
FineTuneUnchecked ==
  [whitebox_tx           |-> <<>>,
   whitebox_tx_fine_tune |-> <<"WC_GET", "resume", "WC_SET">>,
   whitebox_rx           |-> <<"WC_GET", "resume">>,
   whitebox_rx_fine_tune |-> <<"pll_enable", "WA_SET", "done_tune">>]

(* With a frequency too low the calls stop where they test it.             *)
CallsBadFreq ==
  [whitebox_tx           |-> <<>>,
   whitebox_tx_fine_tune |-> <<"WC_GET", "resume", "WC_SET">>,
   whitebox_rx           |-> <<"WC_GET", "resume">>,
   whitebox_rx_fine_tune |-> <<>>]

(* A call changes what was tuned, unless it only tunes again or refuses.   *)
Begin(todo, f, keeps) ==
  /\ lib.fd /\ lib.todo = <<>>
  /\ lib' = [lib EXCEPT !.todo = todo, !.f = f]
  /\ asked' = IF keeps THEN asked ELSE Nothing
  /\ UNCHANGED <<bindVars, fileVars, chipVars>>

CallLibrary ==
  \/ \E f \in Freqs : \E c \in DOMAIN Calls(f) :
       Begin(Calls(f)[c], f, c \in {"whitebox_tx_fine_tune", "whitebox_rx_fine_tune"})
  \/ \E c \in DOMAIN CallsBadFreq : Begin(CallsBadFreq[c], BadFreq, TRUE)

Do(op) == lib.todo # <<>> /\ Head(lib.todo) = op
Rest == Tail(lib.todo)

WA_GET ==
  /\ Do("WA_GET")
  /\ lib' = [lib EXCEPT !.todo = Rest, !.adf = adf4351_ioctl_get(@, adf_regs)]
  /\ UNCHANGED <<bindVars, fileVars, chipVars, asked>>

WC_GET ==
  /\ Do("WC_GET")
  /\ lib' = [lib EXCEPT !.todo = Rest, !.cmx = cmx]
  /\ UNCHANGED <<bindVars, fileVars, chipVars, asked>>

(* The registers that differ from the shadow are written to the chip.      *)
WA_SET ==
  LET w == adf4351_pack(lib.adf)
  IN  /\ Do("WA_SET")
      /\ adf_regs' = w
      /\ adf' = [i \in Regs |-> IF adf_regs[i] # w[i] THEN w[i] ELSE adf[i]]
      /\ lib' = [lib EXCEPT !.todo = Rest]
      /\ UNCHANGED <<bindVars, fileVars, cmx_regs, cmx, asked>>

WC_SET ==
  /\ Do("WC_SET")
  /\ cmx_regs' = lib.cmx
  /\ cmx' = [r \in DOMAIN cmx |-> IF cmx_regs[r] # lib.cmx[r] THEN lib.cmx[r] ELSE cmx[r]]
  /\ lib' = [lib EXCEPT !.todo = Rest]
  /\ UNCHANGED <<bindVars, fileVars, adf_regs, adf, asked>>

W_RESET ==
  /\ Do("W_RESET")
  /\ whitebox_ioctl_reset
  /\ lib' = [lib EXCEPT !.todo = Rest]
  /\ UNCHANGED <<bindVars, fileVars, asked>>

(* WE_CLEAR clears the transmit channel; WE_SET, after a WE_GET, turns the *)
(* filter on.                                                              *)
ExciterIoctl ==
  /\ \/ Do("WE_CLEAR") /\ busy' = FALSE /\ UNCHANGED filteren
     \/ Do("WE_SET") /\ filteren' = TRUE /\ UNCHANGED busy
  /\ lib' = [lib EXCEPT !.todo = Rest]
  /\ UNCHANGED <<bindVars, use_count, file, chans, others, mapped, wds, dac, chipVars, asked>>

(* The library's own steps.  whitebox_close loads the CMX991 struct from   *)
(* an argument block nobody has filled.                                    *)
Compute ==
  /\ \/ /\ Do("pll_enable")
        /\ lib' = [lib EXCEPT !.todo = Rest, !.adf = adf4351_pll_enable(@, lib.f)]
     \/ /\ Do("pll_disable")
        /\ lib' = [lib EXCEPT !.todo = Rest, !.adf = adf4351_pll_disable(@)]
     \/ /\ Do("adf4351_init")
        /\ lib' = [lib EXCEPT !.todo = Rest, !.adf = adf4351_init]
     \/ /\ Do("resume")
        /\ lib' = [lib EXCEPT !.todo = Rest, !.cmx = cmx991_resume(@)]
     \/ /\ Do("suspend")
        /\ lib' = [lib EXCEPT !.todo = Rest, !.cmx = cmx991_suspend(@)]
     \/ /\ Do("tx_tune")
        /\ lib' = [lib EXCEPT !.todo = Rest, !.cmx = cmx991_tx_tune(cmx991_resume(@))]
     \/ /\ Do("rx_tune")
        /\ lib' = [lib EXCEPT !.todo = Rest, !.cmx = cmx991_rx_tune(cmx991_resume(@))]
     \/ /\ Do("any_cmx991")
        /\ \E c \in [DOMAIN cmx -> BOOLEAN] : lib' = [lib EXCEPT !.todo = Rest, !.cmx = c]
  /\ UNCHANGED <<bindVars, fileVars, chipVars, asked>>

(* A tuning call returns 0.                                                *)
Done ==
  /\ lib.todo # <<>> /\ Head(lib.todo) \in {"done_tx", "done_rx", "done_tune"}
  /\ asked' = CASE Do("done_tx") -> [mode |-> "tx", f |-> lib.f]
                [] Do("done_rx") -> [mode |-> "rx", f |-> lib.f]
                [] Do("done_tune") -> IF asked = Nothing THEN Nothing ELSE [asked EXCEPT !.f = lib.f]
  /\ lib' = [lib EXCEPT !.todo = Rest]
  /\ UNCHANGED <<bindVars, fileVars, chipVars>>

Close ==
  /\ Do("close")
  /\ whitebox_release
  /\ lib' = [lib EXCEPT !.todo = Rest, !.fd = FALSE]

----------------------------------------------------------------------------
Init ==
  /\ drv = "unbound" /\ res = {} /\ pins = "free"
  /\ use_count = 0 /\ file = FALSE /\ chans = {} /\ others = {} /\ mapped = 0
  /\ wds = "WDS_IDLE" /\ busy = FALSE /\ dac = FALSE /\ filteren = FALSE
  /\ adf_regs = AllZero /\ cmx_regs = CmxOff
  /\ adf = [i \in Regs |-> Word(i, FALSE, 0)] /\ cmx = CmxOff
  /\ lib = [fd |-> FALSE, adf |-> adf4351_init, cmx |-> CmxOff, f |-> 0, todo |-> <<>>]
  /\ asked = Nothing

Next ==
  \/ ProbeFails \/ Probe \/ Remove
  \/ OpenFails \/ Open \/ OpenBusy \/ Kill \/ Mmap \/ Stream \/ OtherDriver
  \/ CallLibrary \/ WA_GET \/ WC_GET \/ WA_SET \/ WC_SET \/ W_RESET \/ ExciterIoctl
  \/ Compute \/ Done \/ Close

Spec == Init /\ [][Next]_vars

----------------------------------------------------------------------------
(* Properties. *)

WordType == [addr : Regs, bit5 : BOOLEAN, v : Freqs \cup {0, Untuned}]
CmxType == [bias : BOOLEAN, tx : BOOLEAN, rx : BOOLEAN]

TypeOK ==
  /\ drv \in {"unbound", "bound", "oops"} /\ res \subseteq AllStages
  /\ pins \in {"free", "ours", "lost"}
  /\ use_count \in 0 .. 1 /\ file \in BOOLEAN /\ mapped \in 0 .. 1
  /\ chans \subseteq Chans /\ others \subseteq Chans
  /\ wds \in {"WDS_IDLE", "WDS_TX", "WDS_TX_STREAMING", "WDS_TX_STOPPING", "WDS_RX_STREAMING"}
  /\ {busy, dac, filteren} \subseteq BOOLEAN
  /\ adf_regs \in [Regs -> WordType] /\ adf \in [Regs -> WordType]
  /\ cmx_regs \in CmxType /\ cmx \in CmxType
  /\ asked \in [mode : {"none", "tx", "rx"}, f : Freqs \cup {0}]

LoOn == adf[4].bit5 /\ ~adf[2].bit5

(* Nothing is left of a device that failed to open or to probe: the DMA    *)
(* channels are held exactly while the file is open, whichever request     *)
(* failed, and an unbound driver holds no stage's result.                  *)
NothingLeftBehind ==
  /\ chans = IF file THEN Chans ELSE {}
  /\ file <=> use_count = 1
  /\ mapped > 0 => file
  /\ drv = "unbound" => res = {}

(* After a tuning call returned 0 the LO is on at the frequency asked for  *)
(* and the CMX991 is powered the way asked for, whatever was tuned, reset, *)
(* killed, closed or reopened before, and although the driver writes only  *)
(* the registers that differ from its shadow.                              *)
TunedAsAsked ==
  asked # Nothing /\ lib.todo = <<>> =>
    /\ LoOn /\ adf[0].v = asked.f /\ dac
    /\ asked.mode = "tx" => filteren /\ cmx = [bias |-> TRUE, tx |-> TRUE, rx |-> FALSE]
    /\ asked.mode = "rx" => cmx = [bias |-> TRUE, tx |-> FALSE, rx |-> TRUE]

(* The CMX991 never has the transmitter's and the receiver's mixers on at  *)
(* once, although each call builds on what the chip holds.                 *)
NeverBothMixers == ~(cmx.tx /\ cmx.rx)
=============================================================================
