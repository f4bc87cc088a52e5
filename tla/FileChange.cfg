\* Two changes that may run into each other, a rollback and a fault.
SPECIFICATION Spec
CONSTANTS
    Callers = {c1, c2}
    f1 = f1
    f2 = f2
    Files = {f1, f2}
    Names = {1, 2, 3}
    FileOf <- Spelled
    Calls <- SomeCalls
    Absent = Absent
    Torn = Torn
    Free = Free
    Orphan = Orphan
    MaxEffort = 6
INVARIANTS
    IInv
    RollbackRestores
PROPERTY OverwritesAreBackedUp
SYMMETRY Swaps
CHECK_DEADLOCK FALSE
