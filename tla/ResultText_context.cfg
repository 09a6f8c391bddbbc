\* Comment: the changes of a diff are shown, with context between them.
CONSTANTS
    MaxCode = 2
    MaxSummary = 1
    MaxLines = 4
SPECIFICATION TextSpec
INVARIANT
    ChangesAreKept
CHECK_DEADLOCK FALSE
