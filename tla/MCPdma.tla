------------------------------- MODULE MCPdma -------------------------------
(* Two channels, as the transmit and the receive path use.                 *)
EXTENDS Pdma
=============================================================================
