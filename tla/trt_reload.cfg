CONSTANTS
    Models <- MCModels
    Refusals = FALSE
    Retries = TRUE
    MaxCalls = 2
    MaxLoads = 3
SPECIFICATION Spec
PROPERTIES
    LoadAnswersForTheFile
    StagingNeverRaces
