\* Every output of up to five lines; the limits are scaled down.
CONSTANTS
    MaxCode = 2
    MaxSummary = 1
    MaxLines = 5
SPECIFICATION TextSpec
INVARIANTS
    OnlyCodeIsShown
    NothingCutSilently
    SummaryTellsAll
    FencedCodeIsVerbatim
CHECK_DEADLOCK FALSE
