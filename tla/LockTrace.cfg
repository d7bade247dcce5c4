SPECIFICATION Spec
CONSTANTS
    t1 = t1
    t2 = t2
    Threads = {t1, t2}
    Agent = agent
    Duties <- MCDuties
    LoggingLevel = 0
    SharedHeap = FALSE
    UnknownErrors = FALSE
INVARIANT NoDeadlock
\* Threads may have nothing to do.
CHECK_DEADLOCK FALSE
