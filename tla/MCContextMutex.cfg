CONSTANTS
    g1 = g1
    g2 = g2
    g3 = g3
    NoOwner = NoOwner
    Caller <- MCCaller
SPECIFICATION FairSpec
INVARIANTS TokenInv
PROPERTIES ImplementsCancellableLock LockReturns
