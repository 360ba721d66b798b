-------------------------------- MODULE MCPool --------------------------------
EXTENDS Pool

CONSTANTS c1, c2, conn1, conn2

MCClient == {c1, c2}
MCConn == {conn1, conn2}
=============================================================================
