SPECIFICATION FairSpec
CONSTANTS
    t1 = t1
    t2 = t2
    t3 = t3
    f1 = f1
    f2 = f2
    Tasks = {t1, t2, t3}
    Fds = {f1, f2}
    MayAwait <- Shared
    TasksCancel = TRUE
    None = None
CHECK_DEADLOCK FALSE
INVARIANTS NothingDangles
PROPERTIES Resumes
