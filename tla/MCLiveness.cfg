SPECIFICATION FairSync
CONSTANTS
    a = a
    b = b
    None = None
    NoFile = NoFile
    Paths <- OnePath
    SeedTree <- SeedOne
    MaxPasses = 2
    RoundBound = 1
    LateFiles = TRUE
    Restores = TRUE
    MaxTexts = 2
    MaxDeletes = 1
    MaxOthers = 1
    MaxStops = 1
    MaxRewritten = 3
VIEW NoHistory
CHECK_DEADLOCK FALSE
PROPERTIES RunsEnd Converges
