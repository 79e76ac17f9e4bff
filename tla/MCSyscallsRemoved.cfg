SPECIFICATION Spec
CONSTANTS
    SYSCALL_COUNT = 3
    d1 = d1
    d2 = d2
    None = None
    Drivers <- MCDrivers
INVARIANT
    RemovedNotCalled
