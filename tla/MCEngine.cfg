SPECIFICATION Spec
CONSTANTS
    SegmentRecords = 1
    SegmentBytes = 8
    CachedSegments = 1
    FingerprintBytes = 1
    InlineBytes = 3
    ChunkBytes = 2
    MaxQueued = 2
    MaxOperations = 2
    MaxWrites = 2
    Writes = {"append", "rewrite", "touch", "truncate", "delete", "replace", "directory", "restore"}
    Contents <- MCContents
    Operations <- MCOperations
INVARIANTS
    AnswersAreOfTheSnapshot
    IndexIsOfTheSnapshot
    OnlyDamageIsDestructive
    HandleOutlivesOperations
PROPERTIES
    ClassificationIsProof
CHECK_DEADLOCK FALSE
