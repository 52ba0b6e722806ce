SPECIFICATION SafetySpec
CONSTANTS
    Threads = {}
    LoopOps = {"forceCloseWithDelay"}
    OffLoopOps = {}
    MsgLen = 1
    HighWaterMark = 1
    MaxCalls = 1
    MaxOffCalls = 0
    MaxQueue = 1
INVARIANT ClosesOnce
