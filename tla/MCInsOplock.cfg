CONSTANTS
    MAX_THREAD_COUNT = 1
    BUFFER_ITEM_COUNT = 4
    MaxRequests = 4
    Types = {"Create", "Send", "Attrib", "Shutdown"}
    Ports = {}
    Faults = {}
    CloseWaits = {"Send", "GetName"}
SPECIFICATION MCSpec
INVARIANT OplockExcludesSend
