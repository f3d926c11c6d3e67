CONSTANTS
    get = get
    Resource = {get}
    Unknown = unknown
    MaxLine = 4
    BodyLength = 2
    MaxItems = 3
    Streams <- MCStreams
SPECIFICATION Spec
INVARIANT TypeOK
INVARIANT ServedInOrder
INVARIANT ErrorIsReal
INVARIANT NothingWaits
INVARIANT ClosesAsAnnounced
PROPERTY Descends
PROPERTY Returns
CHECK_DEADLOCK FALSE
