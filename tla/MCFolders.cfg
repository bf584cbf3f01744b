SPECIFICATION MCSpec
CONSTANTS
    c = c
    d = d
    FileContents = {c, d}
    NoFile = NoFile
    Inodes = {1}
    TopFiles = {"p"}
    DirFiles = {"q"}
    Scenes <- FolderScenes
    Paths = {"o", "f", "n", "t", "i"}
    Folder = {"f", "n", "t", "i"}
    PlacedPaths = {"t", "i"}
    PlacedIdentity = "i"
    AtPlace = {"n", "t", "i"}
    Contents = {"x", "y"}
    Template = "y"
    Absent = "absent"
    OtherWrites <- OthersWrite
    MaxVersions = 3
    ScanBound = 2
    Names = {"i1", "i2"}
    Offered = "i1"
    HeldNames = {"i2"}
    MaxEdits = 2
    MaxRuns = 1
    MaxVerbs = 2
    MaxAsks = 1
    Depth = 2
    Plain = {"r", "s"}
    Holder = "r"
    Identity = "i"
    FolderPath = 1
    MaxChanges = 2
    m1 = m1
    m2 = m2
    m3 = m3
    CopyNames = {"checkout", "folder"}
    Covers <- CheckoutAndFolder
    Texts = {m1, m2, m3}
    Marked = Marked
    MaxMoves = 2
    MaxTrees = 3
    ScopeFiles <- HolderFiles
    ScopeFolder <- ScopedAt
    WrittenContents = {"one"}
    Gone = "none"
    Said <- Changesets
    FirstTrees <- HolderTrees
    OthersFiles <- FilesOfOthers
    MaxScoped = 3
    TypedFiles <- HistoryFiles
    Windows <- HistoryWindows
SYMMETRY AlikeContents
CHECK_DEADLOCK FALSE
INVARIANTS PlacedAsCommitted OneReviewPerPath WhereTyped
PROPERTIES CollectedAsItStands EditLeftStanding LeadsBack
