\* The worker may never finish; threads, the poll of the page and the repair at
\* startup are fair. Reads and closes race, input resumes the job in the server.
SPECIFICATION FairSpec
CONSTANTS
    Runs = {r1}
    Threads = {t1}
    Outcomes = {"completed"}
    Ops = {"get", "list", "close", "input"}
    MaxRequests = 2
    MaxRestarts = 1
    StoreFaults = FALSE
INVARIANTS
    RunResultIsTrue
    StoredStatusWasRecorded
PROPERTIES
    TaskStatusImplemented
    ClosedRunSettles
    CancelledRunReturns
CHECK_DEADLOCK FALSE
