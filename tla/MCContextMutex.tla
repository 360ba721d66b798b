---------------------------- MODULE MCContextMutex ----------------------------
EXTENDS ContextMutex

CONSTANTS g1, g2, g3

MCCaller == {g1, g2, g3}
=============================================================================
