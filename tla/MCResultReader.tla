---------------------------- MODULE MCResultReader ----------------------------
EXTENDS ResultReader

CONSTANTS client, other, third

MCActor == {client, other, third}
=============================================================================
