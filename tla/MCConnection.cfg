CONSTANTS
    g1 = g1
    g2 = g2
    q1 = q1
    q2 = q2
    Free = Free
    Goroutine <- MCGoroutine
    Stmt <- MCStmt
    Serializing <- MCSerializing
    MaxSessions = 3
SPECIFICATION FairSpec
INVARIANTS StatementsFollowSession NoUseAfterFree NoSessionLeak UsableUntilClosed
PROPERTIES ImplementsSessionContract CallsReturn
