CONSTANTS
    MAX_THREAD_COUNT = 1
    BUFFER_ITEM_COUNT = 4
    MaxRequests = 4
    Types = {"Create", "Accept", "Send", "Close"}
    Ports = {}
    Faults = {}
    CloseWaits = {"Send", "GetName"}
SPECIFICATION MCSpec
INVARIANT CloseAnswersAll
