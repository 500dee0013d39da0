CONSTANTS
    MAX_THREAD_COUNT = 2
    BUFFER_ITEM_COUNT = 2
    MaxRequests = 4
    Types = {"Create", "Recv"}
    Ports = {}
    Faults = {}
    CloseWaits = {"Send", "GetName"}
SPECIFICATION MCFairSpec
PROPERTY DispatcherGetsBuffer
