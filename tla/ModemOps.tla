------------------------------ MODULE ModemOps ------------------------------
(***************************************************************************)
(* The modem of lib/modem.cpp: the flags started, txing and rxing, the     *)
(* frequency, and the entry of the whitebox's descriptor in the poll set.  *)
(* The library's calls are taken by what they leave in the radio chip      *)
(* (module Device has their ioctls): chip is "off", "tx" or "rx".  ok says *)
(* whether whitebox_tx or whitebox_rx succeeds: they refuse a frequency    *)
(* that is too low for the VCO, and a client may set any.                  *)
(*                                                                         *)
(* Operators take and return the record p of the whole process.            *)
(***************************************************************************)
EXTENDS PollSetOps

CONSTANT Whitebox   \* whitebox->fd

whitebox_tx(p, ok) == IF ok THEN [p EXCEPT !.chip = "tx"] ELSE p
whitebox_rx(p, ok) == IF ok THEN [p EXCEPT !.chip = "rx"] ELSE p
whitebox_standby(p) == [p EXCEPT !.chip = "off"]
whitebox_reset(p) == [p EXCEPT !.chip = "off"]

Watch(p, events) ==
  IF p.started THEN poll_change_fd(p, Whitebox, events)
  ELSE poll_start_fd([p EXCEPT !.started = TRUE], Whitebox, events, FALSE)

(* A failure to tune is only logged: txing is set all the same.            *)
modem_transmit(p, ok) ==
  Watch([whitebox_tx([p EXCEPT !.rxing = FALSE], ok) EXCEPT !.txing = TRUE], {"out", "err"})

modem_receive(p, ok) ==
  [Watch(whitebox_rx([p EXCEPT !.txing = FALSE], ok), {"in", "err"}) EXCEPT !.rxing = TRUE]

(* A deliberate slip: a receiver is left running.                          *)
StandbyOnlyTx(p) ==
  LET q == IF p.txing THEN whitebox_standby(p) ELSE p
      r == IF p.started THEN poll_end_fd(q, Whitebox) ELSE q
  IN  [r EXCEPT !.started = FALSE, !.txing = FALSE, !.rxing = FALSE]

modem_standby(p) ==
  LET q == IF p.txing \/ p.rxing THEN whitebox_standby(p) ELSE p
      r == IF p.started THEN poll_end_fd(q, Whitebox) ELSE q
  IN  [r EXCEPT !.started = FALSE, !.txing = FALSE, !.rxing = FALSE]

modem_recover(p, ok) ==
  LET q == whitebox_reset(p)
  IN  IF p.txing THEN whitebox_tx(q, ok) ELSE IF p.rxing THEN whitebox_rx(q, ok) ELSE q

(* Fine tuning leaves the mode of the chip alone.                          *)
modem_set_frequency(p) == p
=============================================================================
