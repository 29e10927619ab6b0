SPECIFICATION Spec
CONSTANTS
    BufLen = 3
    WDepth = 2
    WThreshold = 1
    RDepth = 2
    RThreshold = 0
    DefaultTimeout = 2
    IntMax = 4
    K = 2
    MaxCount = 2
    Timeouts = {2}
    Programs <- MCPrograms
INVARIANTS
    Wakeups
    NoOverrun
PROPERTIES
    ImplementsStreams
    CallsReturn
