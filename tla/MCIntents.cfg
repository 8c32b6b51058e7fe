CONSTANTS
    Events = {e1, e2, e3}
    Receivers = {r1}
    Cap = 2
    PageLimit = 1
    MaxNow = 2
    MaxSeq = 4
SPECIFICATION FairSpec
INVARIANTS
    DeliveredOnce
    NoneMissed
    VolumeWithinCap
PROPERTIES
    OutboxDrains
    ImplementsMailbox
    ResendOfLiveTakesNoSeq
CHECK_DEADLOCK FALSE
