\* Statements fail, the server restarts once and repairs its projection.
SPECIFICATION FairSpec
CONSTANTS
    Runs = {r1}
    Threads = {t1, t2}
    Outcomes = {"completed", "interrupted"}
    Ops = {"close"}
    MaxRequests = 1
    MaxRestarts = 1
    StoreFaults = TRUE
INVARIANTS
    IInv
    CancelIsRecordedFirst
    LiveWorkerIsKillable
PROPERTY EveryRunReturns
CHECK_DEADLOCK FALSE
