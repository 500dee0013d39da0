CONSTANTS
    MAX_THREAD_COUNT = 2
    BUFFER_ITEM_COUNT = 3
    MaxRequests = 4
    Types = {"Create", "Close", "Send", "Recv", "Accept", "Bind", "Listen", "Connect", "Shutdown", "Attrib", "GetName", "AddrBlock", "PollsetQuery"}
    Ports = {80, 443}
    Faults = {"npfctl", "poll", "fcntl", "publish"}
    CloseWaits = {}
SPECIFICATION MCSpec
INVARIANT TypeOK
INVARIANT BufferOwnership
INVARIANT LiveFdIsServed
INVARIANT OnlyAddrBlockStrands
INVARIANT SocketCount
INVARIANT SemaphoreCountsWork
INVARIANT PortsArePublished
INVARIANT OplockWillBeReleased
