CONSTANTS
    c1 = c1
    c2 = c2
    conn1 = conn1
    conn2 = conn2
    Connector = Connector
    Nobody = Nobody
    Client <- MCClient
    Conn <- MCConn
SPECIFICATION PoolSpec
INVARIANTS LentSessionInitialized ResetIsolates
CHECK_DEADLOCK FALSE
