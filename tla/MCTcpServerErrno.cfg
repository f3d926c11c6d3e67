SPECIFICATION Spec
CONSTANTS
    MaxConn = 1
    ThreadNum = 1
    IdleTimeout = FALSE
    MaxData = 1
    Faults = {"interrupt"}
PROPERTIES PeerCloseReleases
