\* A force close while the supervisor binds the task.
SPECIFICATION Spec
CONSTANTS
    Runs = {r1}
    Threads = {t1}
    Outcomes = {"completed"}
    Ops = {"close"}
    MaxRequests = 1
    MaxRestarts = 0
    StoreFaults = FALSE
INVARIANT ForceCloseEndsWorker
CHECK_DEADLOCK FALSE
