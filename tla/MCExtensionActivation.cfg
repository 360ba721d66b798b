CONSTANTS
    g1 = g1
    g2 = g2
    g3 = g3
    conn1 = conn1
    conn2 = conn2
    Free = Free
    Goroutine <- MCGoroutine
    Conn <- MCConn
SPECIFICATION FairSpec
INVARIANTS PlansHaveCallbacks
PROPERTIES CallsReturn
