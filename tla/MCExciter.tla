----------------------------- MODULE MCExciter -----------------------------
EXTENDS Exciter
=============================================================================
