SPECIFICATION Spec
CHECK_DEADLOCK FALSE
INVARIANTS
     EditsAreJudged MessagesRoundTrip PromptFits SettingsAreExact MeasuresCover
