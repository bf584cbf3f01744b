SPECIFICATION MCSpec
CONSTANTS
    l1 = l1
    l2 = l2
    Logins = {l1, l2}
    NoToken = NoToken
    Lifetimes = {3, 9}
    Intervals = {0, 2, 5}
    MaxLife = 7
    MaxInterval = 3
    MaxLag = 1
    ReleaseVersions = {1, 2, 3}
    RunningVersion = 2
    Names = {"a", "b"}
    DocPaths <- TwoDeep
    ParentTrees <- AllTrees
    MaxEntries = 4
    x = x
    y = y
    v = v
    r = r
    s = s
    None = None
    Missing = Missing
    Torn = Torn
    Runs <- TwoRuns
    Blobs <- TwoBlobs
    Views <- OneView
    Length <- Lengths
    Cap = 2
    FlushEvery = 2
    Listings = FALSE
    MaxChanges = 3
    MaxDamages = 1
    MaxKills = 1
    ReadRuns <- TwoRuns
    Texts = {"text"}
    Typed = {"pdf"}
    NoContent = "none"
    MaxVersions = 2
    MaxTyped = 1
    DiffPaths = {"a", "b", "o"}
    ChangeSets = {{"a"}, {"o"}}
    InFolder = {"a", "b"}
    DiffTexts = {"x", "y"}
    NoText = "none"
    PageSize = 2
    MaxListed = 5
    MaxNumber = 6
SYMMETRY Alike
CHECK_DEADLOCK FALSE
INVARIANTS SignsInOnTerms ReplacedAsClaimed DocumentMeansOneTree SizeIsHonest ReadsAtOnePin DiffsAsListed
