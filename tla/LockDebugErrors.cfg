SPECIFICATION Spec
CONSTANTS
    t1 = t1
    t2 = t2
    Threads = {t1, t2}
    Agent = agent
    Duties <- MCDuties
    LoggingLevel = 1
    SharedHeap = FALSE
    UnknownErrors = TRUE
INVARIANT NoDeadlock
\* Threads may have nothing to do.
CHECK_DEADLOCK FALSE
