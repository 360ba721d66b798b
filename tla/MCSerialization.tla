---------------------------- MODULE MCSerialization ----------------------------
EXTENDS Serialization

CONSTANTS c1, c2, conn1, conn2, name1, client, finalizer

MCCall == {c1, c2}
MCConn == {conn1, conn2}
MCName == {name1}
MCCloser == {client, finalizer}
=============================================================================
