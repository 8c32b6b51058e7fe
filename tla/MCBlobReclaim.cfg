CONSTANTS
    x = x
    y = y
    u1 = u1
    u2 = u2
    d1 = d1
    d2 = d2
    h1 = h1
    h2 = h2
    c1 = c1
    c2 = c2
    Accounts <- OneAccount
    Hashes = {h1}
    Chunks = {c1}
    ChunkSize <- UnitOne
    Whole <- Single
    Uploads <- OneUpload
    Parts = {1}
    Devices <- TwoDevices
    NoChunk = NoChunk
    NoRow = NoRow
    NoSession = NoSession
    NoBytes = NoBytes
    Crashes = TRUE
    ReclaimOn = TRUE
    Grace = 1
    DeadAfter = 2
    SessionTtl = 1
    MaxBlobSize = 1
    StorageQuota = 1
    UploadQuota = 2
    MaxTime = 3
    MaxSeq = 3
    MaxRefs = 2
SYMMETRY Symmetry
SPECIFICATION Spec
INVARIANTS
    ReclaimIsDue
PROPERTIES
    ReclaimIsPatient
CHECK_DEADLOCK FALSE
