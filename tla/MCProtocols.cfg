SPECIFICATION Spec
CONSTANTS
    kCheapPrepend = 2
    kInitialSize = 2
    Base = 2
    MaxUnread = 4
    MaxVector = 8
    PeerRequests <- MCPeerRequests
    Urls <- MCUrls
    Commands <- MCCommands
    Inspecting = TRUE
    MaxRequests = 3
    Sessions = {1, 2}
    MaxItemBytes = 1
    MaxLineLength = 2
    LongKeys = {"long"}
    IntLimit = 8
    SizeModulus = 256
INVARIANTS
    HoldsUnread
    ServedAsSent
    CasSound
    CommandsAsSent
\* The requests of a connection and the scripts of the clients end.
CHECK_DEADLOCK FALSE
