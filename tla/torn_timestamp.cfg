CONSTANTS
    p1 = p1
    p2 = p2
    Publishers <- OnePublisher
    MaxRuns = 2
SPECIFICATION Spec
INVARIANT
    StampIsOfLoadedSnapshot
