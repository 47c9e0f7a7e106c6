CONSTANTS
    p1 = p1
    p2 = p2
    Publishers <- TwoPublishers
    MaxRuns = 2
SPECIFICATION FairSpec
INVARIANTS
    TypeOK
    PublishedIsFinished
    PublishedRunPassed
PROPERTY
    ExpositionCatchesUp
