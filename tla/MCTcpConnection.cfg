SPECIFICATION Spec
CONSTANTS
    Threads = {t1}
    LoopOps = {"send", "sendBuffer", "shutdown", "forceClose", "forceCloseWithDelay", "startRead", "stopRead"}
    OffLoopOps = {"send", "sendBuffer", "shutdown", "forceClose", "forceCloseWithDelay", "startRead", "stopRead"}
    MsgLen = 2
    HighWaterMark = 3
    MaxCalls = 2
    MaxOffCalls = 1
    MaxQueue = 3
INVARIANTS StreamInOrder WritingIffBuffered FinAfterData ClosesOnceUnlessRevived
PROPERTIES QuietAfterDown ShutdownCompletes DownIsDestroyed
