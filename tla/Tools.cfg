SPECIFICATION MCSpec
CONSTANTS
    Capacity = 1
    Tries = 2
    Calls <- MCCalls
    Gates <- MCGates
    OutsideTexts <- MCOutside
    Verdict <- MCVerdict
    Applies <- MCApplies
    PatchText <- MCPatchText
    MaxCalls = 2
    MaxFaults = 2
    MaxOutside = 1
    Files = {a, b}
    Caps = {1, 2}
    MaxSyms = 2
    MaxDeps = 2
    CompactAt = 3
    SnippetBytes = 2
    ContextBytes = 3
    MaxEdits = 1
    MaxEnsures = 4
    MaxParses = 4
CHECK_DEADLOCK FALSE
INVARIANTS OutputIsTrue EditIsAtomic AnswersAreLive
PROPERTIES QuietEnds  ImplementsCache EnsureIsFresh
