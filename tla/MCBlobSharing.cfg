CONSTANTS
    x = x
    y = y
    u1 = u1
    u2 = u2
    d1 = d1
    d2 = d2
    h1 = h1
    h2 = h2
    c1 = c1
    c2 = c2
    Accounts <- TwoAccounts
    Hashes = {h1}
    Chunks = {c1, c2}
    ChunkSize <- Unit
    Whole <- Double
    Uploads <- TwoUploads
    Parts = {1, 2}
    Devices = {}
    NoChunk = NoChunk
    NoRow = NoRow
    NoSession = NoSession
    NoBytes = NoBytes
    Crashes = TRUE
    ReclaimOn = FALSE
    Grace = 1
    DeadAfter = 1
    SessionTtl = 1
    MaxBlobSize = 2
    StorageQuota = 2
    UploadQuota = 2
    MaxTime = 0
    MaxSeq = 3
    MaxRefs = 1
SYMMETRY Symmetry
SPECIFICATION Spec
INVARIANTS
    PossessionProven
    RowsHaveBytes
PROPERTIES
    ImplementsShelf
CHECK_DEADLOCK FALSE
