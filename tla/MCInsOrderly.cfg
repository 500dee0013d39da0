CONSTANTS
    MAX_THREAD_COUNT = 2
    BUFFER_ITEM_COUNT = 5
    MaxRequests = 5
    Types = {"Create", "Close", "Send", "Recv", "AddrBlock"}
    Ports = {}
    Faults = {"npfctl"}
    CloseWaits = {"Send", "GetName"}
SPECIFICATION MCFairSpec
INVARIANT OperatesOnOwnSocket
INVARIANT ClosureIsOwn
INVARIANT AnsweredOnce
PROPERTY EveryRequestAnswered
