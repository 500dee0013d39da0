CONSTANTS
    Threads = {t1, t2}
    Mitigator = netflow
    Calls <- MCCalls
    MaxRequests = 4
SPECIFICATION SpecWithSignals
INVARIANT OneRequestPerSocket
CHECK_DEADLOCK FALSE
