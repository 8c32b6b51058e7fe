CONSTANTS
    x = x
    y = y
    u1 = u1
    u2 = u2
    d1 = d1
    d2 = d2
    h1 = h1
    h2 = h2
    c1 = c1
    c2 = c2
    Accounts <- OneAccount
    Hashes = {h1, h2}
    Chunks = {c1, c2}
    ChunkSize <- Unit
    Whole <- Both
    Uploads <- TwoUploads
    Parts = {1, 2}
    Devices = {}
    NoChunk = NoChunk
    NoRow = NoRow
    NoSession = NoSession
    NoBytes = NoBytes
    Crashes = TRUE
    ReclaimOn = FALSE
    Grace = 1
    DeadAfter = 1
    SessionTtl = 1
    MaxBlobSize = 2
    StorageQuota = 2
    UploadQuota = 2
    MaxTime = 1
    MaxSeq = 2
    MaxRefs = 1
SPECIFICATION ReapingSpec
INVARIANTS
    AddressesHold
    StoredWithinQuota
PROPERTIES
    SessionsEnd
CHECK_DEADLOCK FALSE
