SPECIFICATION Spec
CONSTANTS
    a = a
    b = b
    None = None
    NoFile = NoFile
    Paths <- TwoPaths
    SeedTree <- SeedOne
    MaxPasses = 2
    RoundBound = 1
    LateFiles = FALSE
    Restores = FALSE
    MaxTexts = 2
    MaxDeletes = 1
    MaxOthers = 2
    MaxStops = 1
    MaxRewritten = 0
VIEW SeenOrMine
CHECK_DEADLOCK FALSE
INVARIANTS TypeOK PublishedAsReviewed NoLostLocalWork BaseIsCommitted
PROPERTY NoBlindOverwrite
