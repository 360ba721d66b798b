CONSTANTS
    g1 = g1
    g2 = g2
    g3 = g3
    Free = Free
    Caller <- MCCaller
SPECIFICATION FairSpec
INVARIANTS InitializedOnce ConnectedInitialized NoHandleLeak
PROPERTIES ConnectReturns
