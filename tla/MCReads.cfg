SPECIFICATION MCSpec
CONSTANTS
    NotAsked = NotAsked
    Places <- FivePlaces
    SizeOf <- ThreeSizes
    BatchModes <- MCBatchModes
    ChunkPaths = 2
    BatchAttempts = 2
    MaxHead = 2
    RawModes <- MCRawModes
    RawInFlight = 2
    MaxSends = 2
    p = p
    x = x
    y = y
    ScopePaths = {p}
    Ignore = ".synsignore"
    Contents = {x, y}
    Unknown = Unknown
    Gone = Gone
    NoView = NoView
    MaxCommits = 3
    MaxEvents = 1
    Null = Null
    ReadConcurrency = 2
    ReadBytesBound = 5
    HeldLimit = 3
    MaxFileBytes = 4
    Wants <- UpToThreeWants
    s1 = s1
    s2 = s2
    s3 = s3
    Stagers = {s1, s2, s3}
SYMMETRY Alike
CHECK_DEADLOCK FALSE
INVARIANTS AskedOnceWithinBudget RawReadsComplete AsShown BoundedAndReleased LiveDirectoryStands
