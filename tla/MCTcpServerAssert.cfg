SPECIFICATION Safe
CONSTANTS
    MaxConn = 1
    ThreadNum = 1
    IdleTimeout = TRUE
    MaxData = 1
    Faults = {}
INVARIANTS EstablishAssertion
CHECK_DEADLOCK FALSE
