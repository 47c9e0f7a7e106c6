CONSTANTS
    Samples <- MCSamples
    HandOptions <- MCHandOptions
    GateOptions <- MCGateOptions
    InputSize = 2
    Target = 300
    MaxRepeats = 2
    MaxInvocations = 1
    MaxByHand = 1
SPECIFICATION Spec
INVARIANT
    ScriptSpeaksToItsBuilder
