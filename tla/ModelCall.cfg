\* Callers of one job; processes are killed anywhere.
SPECIFICATION FairSpec
CONSTANTS
    Jobs = {j1}
    Loops = {l1, l2}
    Nobody = Nobody
    Timeout = 1
    MinInterval = 1
    StaleLock = 2
    MaxAttempts = 2
    MaxKills = 1
INVARIANTS
    IInv
    OneCallAtATime
    ReceiptIsKept
PROPERTIES
    GrantsAreSpaced
    EveryCallEnds
    OrphanIsRemoved
