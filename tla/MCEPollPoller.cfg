SPECIFICATION Spec
CONSTANTS
    a = a
    b = b
    c3 = c3
    None = None
    Chans = {a, b, c3}
    Fds <- MCFds
    FdOf <- MCFdOf
    kInitEventListSize = 1
INVARIANTS KernelMirrors NoCtlFailure
PROPERTIES ImplementsInterest NoStarvation
