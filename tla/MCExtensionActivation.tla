------------------------- MODULE MCExtensionActivation -------------------------
EXTENDS ExtensionActivation

CONSTANTS g1, g2, g3, conn1, conn2

MCGoroutine == {g1, g2, g3}
MCConn == {conn1, conn2}
=============================================================================
