SPECIFICATION Spec
CONSTANTS
    Threads = {t1}
    Addrs = {1, 2}
    MaxSeq = 2
    MaxTime = 2
    MaxQueue = 1
    Interval = 1
INVARIANT SequenceReadAlive
