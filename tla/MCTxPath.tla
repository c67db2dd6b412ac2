------------------------------ MODULE MCTxPath ------------------------------
EXTENDS TxPath
=============================================================================
