CONSTANTS
    MAX_INS_COUNT = 2
    MaxRequests = 4
    Closable = {2}
SPECIFICATION FairSpec
INVARIANT TypeOK
INVARIANT OneListenerPerIns
INVARIANT OneAcceptPerIns
INVARIANT NoDeafIns
INVARIANT ConnectionsKept
INVARIANT BlockedOnLiveIns
INVARIANT FailuresHaveCause
 
PROPERTY AcceptReturns
CHECK_DEADLOCK FALSE
