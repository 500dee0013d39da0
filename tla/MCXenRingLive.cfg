CONSTANTS
    Senders = {t1}
    RING_SIZE = 2
    LAPS = 2
    MaxRequests = 3
    NoOne = NoOne
SPECIFICATION MCFairSpec
PROPERTY SentIsDelivered
PROPERTY LockIsReleased
