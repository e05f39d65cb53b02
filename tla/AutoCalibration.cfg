SPECIFICATION AutoSpec
CONSTANTS
    ValidationSetSizes = {0, 2}
    maxIterations = 2
    maxImagesPerRecalibration = 2
    MaxFailsPerRecalibration = 2
    ControlSize = 5
    Prompts = {TRUE}
    MaxRounds = 2
    MaxGateControl = 2
    MaxImages = 3
INVARIANTS
    AppliedIsValidated
    ResultsAreOfThisAttempt
    LoadedWhenTold
PROPERTIES
    RoundEnds
CHECK_DEADLOCK FALSE
