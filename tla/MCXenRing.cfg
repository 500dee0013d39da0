CONSTANTS
    Senders = {t1, t2}
    RING_SIZE = 2
    LAPS = 2
    MaxRequests = 4
    NoOne = NoOne
SPECIFICATION MCSpec
INVARIANT TypeOK
INVARIANT RingOrder
INVARIANT UnreadIntact
INVARIANT OverwritesReadRequest
PROPERTY IsChannel
SYMMETRY Symmetry
