CONSTANTS
    c1 = c1
    c2 = c2
    conn1 = conn1
    conn2 = conn2
    name1 = name1
    client = client
    finalizer = finalizer
    Connector = Connector
    Free = Free
    Nobody = Nobody
    Call <- MCCall
    Conn <- MCConn
    Name <- MCName
    Closer <- MCCloser
SPECIFICATION FairSpec
INVARIANTS LockFollowsCall
PROPERTIES CatalogsKept MutationsReturn
