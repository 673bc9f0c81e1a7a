SPECIFICATION Spec
CONSTANTS
    t1 = t1
    t2 = t2
    t3 = t3
    f1 = f1
    f2 = f2
    Tasks = {t1, t2, t3}
    Fds = {f1, f2}
    MayAwait <- Disjoint
    TasksCancel = TRUE
    None = None
INVARIANTS NoStaleEvent
CHECK_DEADLOCK FALSE
