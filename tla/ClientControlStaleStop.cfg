SPECIFICATION Spec
CONSTANTS
    CanEnd = TRUE
    MaxPending = 2
PROPERTIES
    DuplicateStopIgnored
CHECK_DEADLOCK FALSE
