SPECIFICATION Spec
CONSTANTS
    a = a
    b = b
    None = None
    NoFile = NoFile
    Paths <- TwoPaths
    SeedTree <- SeedAll
    MaxPasses = 2
    RoundBound = 1
    LateFiles = TRUE
    Restores = TRUE
    MaxTexts = 2
    MaxDeletes = 1
    MaxOthers = 1
    MaxStops = 1
    MaxRewritten = 0
VIEW NoHistory
SYMMETRY PathSymmetry
CHECK_DEADLOCK FALSE
INVARIANTS BaseNamesCommitted ReviewedIsWhole MarkersStayLocal
