SPECIFICATION Spec
CONSTANTS
    ConfSizes = {0, 1, 2, 5, 9, 15, 16}
    KeyLine = 2
INVARIANTS
    TypeOK
    LineStaysInBuffer
    OnlyOneLineIsReallocated
    RunsFullyConfigured
CHECK_DEADLOCK FALSE
