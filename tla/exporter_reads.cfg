CONSTANTS
    p1 = p1
    p2 = p2
    Peers <- MCReader
    Requests <- MCScrapes
    Documented <- MCDocumented
    Cuts <- MCManyCuts
    MaxWrites = 3
    MaxSignals = 0
SPECIFICATION Spec
INVARIANTS
    TornReadIsRefused
    ReadersReadTheDocument
