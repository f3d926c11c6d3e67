SPECIFICATION ModesSpec
CONSTANTS
    MaxConn = 2
    ThreadNum = 2
    IdleTimeout = FALSE
    MaxData = 1
    Faults = {}
INVARIANTS ClosedOnce
PROPERTIES PeerCloseReleases ReleasedIsDestroyed InputIsRead
