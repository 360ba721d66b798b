----------------------------- MODULE MCConnection -----------------------------
EXTENDS Connection

CONSTANTS g1, g2, q1, q2

MCGoroutine == {g1, g2}
MCStmt == {q1, q2}
MCSerializing == {q1}
=============================================================================
