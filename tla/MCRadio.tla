------------------------------ MODULE MCRadio ------------------------------
EXTENDS Radio

CONSTANTS c1, c2

MCSays == c1 :> {"set", "close", "ping"}
          @@ c2 :> {"transmit", "receive", "close frame"}
=============================================================================
