\* Every message of up to 13 characters and line breaks in any places.
CONSTANTS
    Size = 4
    Window = 3
    maxMessages = 3
    MaxLength = 13
SPECIFICATION Spec
INVARIANTS
    PagesAreContiguous
    NothingDroppedSilently
CHECK_DEADLOCK FALSE
