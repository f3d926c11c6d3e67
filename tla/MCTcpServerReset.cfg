SPECIFICATION Safe
CONSTANTS
    MaxConn = 1
    ThreadNum = 1
    IdleTimeout = FALSE
    MaxData = 1
    Faults = {"reset"}
PROPERTIES OneReleasePerEvent
CHECK_DEADLOCK FALSE
