\* Comment: the warning appears when something was cut off.
CONSTANTS
    Size = 4
    Window = 3
    maxMessages = 3
    MaxLength = 8
SPECIFICATION Spec
INVARIANT
    WarningIsTrue
CHECK_DEADLOCK FALSE
