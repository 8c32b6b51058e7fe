CONSTANTS
    x = x
    y = y
    d1 = d1
    d2 = d2
    c1 = c1
    c2 = c2
    s1 = s1
    s2 = s2
    AccountIds <- MCAccountIds
    DeviceIds = {d1, d2}
    CredentialIds <- MCCredentialIds
    Streams <- MCStreams
    Requests = {r1}
    None = None
    MaxAccounts = 2
    MaxPerAccount = 2
    MaxTotal = 2
    MaxKeys = 2
SPECIFICATION Spec
INVARIANTS
    DeletedIsGone
CHECK_DEADLOCK FALSE
