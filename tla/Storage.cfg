SPECIFICATION Spec
CONSTANTS
    Sessions = {1, 2}
    NoId = NoId
    MsgIds = {m1, m2}
    FileIds = {f1}
    Contents = {c1, c2}
    MaxSaves = 4
    MaxMsgs = 2
    MaxEdits = 2
    MaxTime = 2
    MaxCks = 2
    MaxRefused = 1
    Keys = {k1, k2, k3, bad}
    Values = {v1, sec}
    Valid = {k1, k2, k3}
    Secret = {sec}
    Long = {}
    Kinds = {"fact", "lesson", "repo_rule"}
    MaxEntries = 2
    MaxWrites = 3
SYMMETRY Symmetric
CHECK_DEADLOCK FALSE
INVARIANTS ResumeIsSound MemoryIsBounded
PROPERTIES ImplementsContract OneEntryGoes
