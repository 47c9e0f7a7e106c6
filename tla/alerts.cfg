CONSTANTS
    Runs <- MCRuns
    Hold <- MCHold
    StaleAfter = 2
    MaxAge = 8
SPECIFICATION Spec
INVARIANTS
    TypeOK
    StoppedEvidenceIsAlerted
    VerdictsAreAlerted
    OutagePagesOnce
