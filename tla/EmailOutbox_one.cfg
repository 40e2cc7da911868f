SPECIFICATION FairSpec
CONSTANTS
    Jobs = {j1}
    Workers = {w1, w2}
    MaxFence = 4
    LeaseTtl = 3
    SendWindow = 1
    ShortRetry = 1
    LongRetry = 2
    Lifetimes = {6}
    Retention = 1
    BatchSize = 1
    Unsettled = {j1}
    LastRequest = 1
    LastUnrest = 1
    MaxTime = 8
CHECK_DEADLOCK FALSE
INVARIANTS
    AtMostOneAcceptance
    ProviderCallCovered
    ChallengeMatchesOutbox
    ConfirmedIsStored
PROPERTIES
    TriggerAdmits
    ReceiptsAdmitted
    DeliversOnce
    EnqueuedEnds
