SPECIFICATION Safe
CONSTANTS
    MaxConn = 1
    ThreadNum = 1
    IdleTimeout = FALSE
    MaxData = 1
    Faults = {"reset"}
INVARIANTS SendFailureHandled
CHECK_DEADLOCK FALSE
