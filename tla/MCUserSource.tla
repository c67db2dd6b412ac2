---------------------------- MODULE MCUserSource ----------------------------
(* A buffer of four words, writes of whole and of broken words.            *)
EXTENDS UserSource

MCCounts == {3, 4, 6, 8, 12}
=============================================================================
