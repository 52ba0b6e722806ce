SPECIFICATION Spec
CONSTANTS
    Workers = {w1, w2}
    Producers = {p1, p2}
    IoLoop = p1
    NoTask = none
    MaxTasks = 2
    kCells = 3
    MaxLine = 6
    kSeconds = 3
    Latencies <- MicroSeconds
    MaxSecond = 6
    MaxRecorded = 3
    Box = 2
    Puzzles <- Boards
    Conns = {c1, c2, c3}
    BaseLoop = base
    IoLoops = {io1, io2}
    Limit = 3
    MaxOthers = 1
INVARIANTS
    AnswersInOrder
    WindowIsTrue
    SolverExact
    ConnectionsAccounted
PROPERTIES
    PoolDrains
    ServerDrains
\* A stopped pool, a connection without requests and a destroyed server are at rest.
CHECK_DEADLOCK FALSE
