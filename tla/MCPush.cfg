CONSTANTS
    d1 = d1
    d2 = d2
    s1 = s1
    s2 = s2
    s3 = s3
    s4 = s4
    Devices <- MCDevices
    Streams <- MCStreams
    MaxPerAccount = 3
    MaxContent = 1
    None = None
SPECIFICATION FairSpec
INVARIANTS
    Told
PROPERTIES
    NudgesSettle
    EveryoneCurrent
CHECK_DEADLOCK FALSE
