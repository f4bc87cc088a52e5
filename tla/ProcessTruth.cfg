\* The worker, a kernel of the server and a client that follows the log.
SPECIFICATION Spec
CONSTANTS
    Worker = w
    Servers = {s1}
    Readers = {r1}
    Endings = {"completed"}
    PageLimit = 3
    MaxOps = 4
    MaxClock = 2
    MaxAborts = 1
INVARIANTS
    IInv
    RefsAreBacked
    RowsAgreeWithLog
PROPERTY LogImplemented
CHECK_DEADLOCK FALSE
