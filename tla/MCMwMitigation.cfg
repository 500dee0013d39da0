CONSTANTS
    Threads = {t1, t2}
    Mitigator = netflow
    Calls <- MCCalls
    MaxRequests = 4
SPECIFICATION SpecWithMitigation
INVARIANT ClosedSocketIsDead
CHECK_DEADLOCK FALSE
