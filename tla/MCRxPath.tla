------------------------------ MODULE MCRxPath ------------------------------
EXTENDS RxPath
=============================================================================
