SPECIFICATION Spec
CONSTANTS
    Sockets = {s1, s2}
    NoSocket = none
    InitRetryDelay = 1
    MaxRetryDelay = 3
    MaxCalls = 3
CHECK_DEADLOCK FALSE
INVARIANTS SocketsAccounted OneStartIsSafe DeadClientUntouched
PROPERTIES StopQuiesces RetryGoesOn
