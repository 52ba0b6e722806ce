SPECIFICATION SpecT
CONSTANTS
    Threads = {main}
    Owner = main
    Loop = loop
    Functors = {f1}
    MaxCalls = 1
    EventfdMax = 2
PROPERTY DestructorReturns
CHECK_DEADLOCK FALSE
