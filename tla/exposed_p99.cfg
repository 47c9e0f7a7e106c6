CONSTANTS
    Options <- MCCpuOptions
    Latencies <- MCLatencies
    Elements = 2
    MaxCalls = 3
SPECIFICATION Spec
INVARIANT
    ObservedP99IsOfItsScope
