SPECIFICATION PublishSpec
CONSTANTS
    TreeFiles <- FourFiles
    Holding <- HeldFolder
    Globs <- GlobSets
    Star = "*"
    Lines <- FileLines
    Binary = Binary
    Given <- GivenSets
    Limits = {0, 2, 99}
    NoBound = 99
    FanOutCap = 2
    SearchPage = 3
    InFlight = 2
    Paths = {f, g, x, o}
    Folder = {f, g, x}
    f = f
    g = g
    x = x
    o = o
    InitialContents = {"a"}
    EditedFirst <- WrittenFirst
    Bodies <- SentBodies
    UserWrites <- Edits
    OtherWrites <- OthersWrite
    Prefix = {f, g, x}
    Ignored = {x}
    Contents = {"a", "b"}
    Absent = "-"
    MaxVersions = 2
    ScanBound = 1
    SendBound = 3
    MaxMoves = 0
    MaxRuns = 1
PROPERTIES FolderDeletesOnlyGone
CHECK_DEADLOCK FALSE
