CONSTANTS
    a1 = a1
    a2 = a2
    k1 = k1
    k2 = k2
    k3 = k3
    Apps <- MCApps
    Keys <- MCKeys
    AppOf <- MCAppOf
    Devices = {d1}
    Envs = {v1, v2}
    NoEnv = NoEnv
    None = None
    PageLimit = 1
    MaxBatch = 2
    MaxSeq = 3
SPECIFICATION FairSpec
INVARIANTS
    SeqNamesOneRow
    CursorCovers
    AckedIsHeld
PROPERTIES
    DrainIsComplete
    TombstonesStayQuiet
    ImplementsFeed
    Converges
CHECK_DEADLOCK FALSE
