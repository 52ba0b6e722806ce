SPECIFICATION Spec
CONSTANTS
    Threads = {t1, t2}
    Loop = loop
    Functors = {f1, f2, f3}
    MaxCalls = 2
    EventfdMax = 2
INVARIANTS NoSleepOnFunctor NoSleepOnQuit
PROPERTIES RunsInOrder FunctorRuns QuitEndsLoop IoHandled
