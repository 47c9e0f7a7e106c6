CONSTANTS
    Models <- MCTwoModels
    Refusals = TRUE
    Retries = TRUE
    MaxCalls = 2
    MaxLoads = 2
SPECIFICATION FairSpec
INVARIANTS
    TypeOK
    InFlightWorkIsLive
    OutputIsOfThisCall
    CaptureIsClosed
PROPERTIES
    EveryCallReturns
    EngineContract
