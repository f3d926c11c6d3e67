SPECIFICATION Spec
CONSTANTS
    Id = {1, 2}
    Size = 3
    Delays = {1, 2, 3}
    MaxLag = 3
INVARIANTS TypeOK LockNeverNull
PROPERTIES ImplementsIdleTimer FiresAfterDelay Expires
