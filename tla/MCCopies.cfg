SPECIFICATION MCSpec
CONSTANTS
    b0 = base
    local = local
    remote = remote
    c = c
    d = d
    r = r
    s = s
    None = None
    Runs <- TwoRuns
    Docs <- OneDoc
    Snapshots <- BothSnapshots
    Contents <- OneContent
    FirstUse = FALSE
    Overlaps = FALSE
    DiscardsCut = FALSE
    AdoptionsCut = FALSE
    StampFails = FALSE
    MaxRuns = 3
    MaxChanges = 3
    MaxKills = 2
    MaxFolders = 2
    Paths = {"id", "doc"}
    NoFile = NoFile
    Id = "id"
    Us = 1
    Them = 2
    Texts <- IdentityTexts
    MaxVersions = 3
    MaxEdits = 2
    FilesAt <- OneCommit
    LinkPaths <- OneLink
    Hideable <- MayHide
    AskedPaths <- FolderAndFile
    NoRoot = NoRoot
    MaxHides = 2
CHECK_DEADLOCK FALSE
INVARIANTS Exclusive ReadsWholeChange NotAllWaiting ListsAsShown
SYMMETRY RunSymmetry
PROPERTY IdentityFileStands
