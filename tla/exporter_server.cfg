CONSTANTS
    p1 = p1
    p2 = p2
    Peers <- MCPeers
    Requests <- MCRequests
    Documented <- MCDocumented
    Cuts <- MCCuts
    MaxWrites = 0
    MaxSignals = 2
SPECIFICATION FairSpec
INVARIANTS
    TypeOK
    StopClosesTheListenerOnly
PROPERTIES
    StopIsNoFailure
    StopIsAnswered
    RequestIsAnswered
