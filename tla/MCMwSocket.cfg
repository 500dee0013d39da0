CONSTANTS
    Threads = {t1, t2}
    Mitigator = netflow
    Calls <- MCLiveCalls
    MaxRequests = 3
SPECIFICATION FairSpec
INVARIANT TypeOK
INVARIANT RefCounted
INVARIANT NoUseAfterFree
INVARIANT ReadsOwnResponse
INVARIANT CloseWaitsForRequests
PROPERTY CallsReturn
PROPERTY ReleasedIsFreed
CHECK_DEADLOCK FALSE
