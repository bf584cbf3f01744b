SPECIFICATION Spec
CONSTANTS
    a = a
    b = b
    None = None
    NoFile = NoFile
    Paths <- OnePath
    SeedTree <- SeedOne
    MaxPasses = 2
    RoundBound = 1
    LateFiles = FALSE
    Restores = TRUE
    MaxTexts = 3
    MaxDeletes = 1
    MaxOthers = 1
    MaxStops = 1
    MaxRewritten = 0
CHECK_DEADLOCK FALSE
PROPERTY NoBlindOverwrite
