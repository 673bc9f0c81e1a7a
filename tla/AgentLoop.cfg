CONSTANTS
    Calls = {"w", "h"}
    Kind <- KindMixed
    Keys = {"k1", "k2"}
    Usages = {0, 1}
    Cap = 2
    MaxRetries = 2
    MaxDrives = 1
SPECIFICATION FairSpec
CHECK_DEADLOCK FALSE
INVARIANTS
    ReportsOutcome StopsAtSafePoint HistoryIsComplete LimitsAreKept EditsAreCheckpointed
PROPERTIES
    MeteredTasksEnd CancelStops
