\* The process may stop (an assertion, SIGPIPE, a use of a destroyed object).
SPECIFICATION Safe
CONSTANTS
    MaxConn = 1
    ThreadNum = 1
    IdleTimeout = TRUE
    MaxData = 2
    Faults = {"reset", "interrupt"}
INVARIANTS TypeOK CallbacksReachLive ClosingProgresses NoStrandedOutput
PROPERTIES StatusForward
CHECK_DEADLOCK FALSE
