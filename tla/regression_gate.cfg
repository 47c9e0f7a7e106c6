CONSTANTS
    Samples <- MCSamples
    HandOptions <- MCHandOptions
    GateOptions <- MCGateOptions
    InputSize = 2
    Target = 300
    MaxRepeats = 2
    MaxInvocations = 2
    MaxByHand = 2
SPECIFICATION Spec
INVARIANTS
    TypeOK
    PassIsBackedByEvidence
    AnswersAreAboutLikeRuns
    MockHasNoDeviceVerdict
    FasterIsNoRegression
    PercentilesSplitSamples
