CONSTANTS
    Options <- MCOptions
    Latencies <- MCLatencies
    Elements = 2
    MaxCalls = 3
SPECIFICATION Spec
INVARIANTS
    TypeOK
    BackendIsTheOneRequested
    SamplesAreMeasuredIterations
    GraphNeverDowngrades
    DeviceObjectiveNeedsDeviceTime
    AlertsAgreeWithExitCode
    VerdictIsOverItsOwnFile
