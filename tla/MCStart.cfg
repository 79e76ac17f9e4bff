SPECIFICATION Spec
CONSTANTS
    WAIT_TICKS = 6
    SLEEP_MS = 50
INVARIANTS
    InterruptsHandled
    WaitNeedsDevice
PROPERTIES
    ClockWaitEnds
    SleepEnds
