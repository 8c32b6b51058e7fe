CONSTANTS
    x = x
    y = y
    d1 = d1
    d2 = d2
    c1 = c1
    c2 = c2
    s1 = s1
    s2 = s2
    AccountIds <- MCAccountIds
    DeviceIds = {d1, d2}
    CredentialIds <- MCCredentialIds
    Streams <- MCStreams
    Requests = {r1}
    None = None
    MaxAccounts = 2
    MaxPerAccount = 2
    MaxTotal = 2
    MaxKeys = 2
SPECIFICATION FairSpec
INVARIANTS
    OneCredentialPerDevice
    LeakedKeyContained
    CredentialsHaveAccount
    RevokedHaveNoStream
    CountIsExact
PROPERTIES
    InactiveStreamsEnd
    DroppedStreamsLeave
    ImplementsMembership
CHECK_DEADLOCK FALSE
