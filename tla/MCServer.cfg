CONSTANTS
    p1 = p1
    p2 = p2
    h1 = h1
    h2 = h2
    Processes <- MCProcesses
    Latest = 2
    Target <- MCTarget
    Hashes = {h1, h2}
    Stores <- MCStores
    Deployments <- MCDeployments
    Chunks = {1, 2}
    Absent = Absent
    None = None
    Unset = Unset
    Blank = Blank
    Typo = Typo
    Fatal = Fatal
SPECIFICATION FairSpec
INVARIANTS
    SchemaWhole
    ServesOnItsSchema
    AskedModeEnforced
    BlobsAreWhole
PROPERTIES
    EveryoneServes
CHECK_DEADLOCK FALSE
