SPECIFICATION FairSpec
CONSTANTS
    Threads = {t1, t2}
    Agent = agent
    None = None
    MaxStarts = 2
INVARIANTS
    HandlerHasRecord
    RegisteredRecordsLive
    AgentNeverSignalled
PROPERTIES
    IterationUndisturbed
    CallbacksEnd
\* The VM may die, and the run then ends.
CHECK_DEADLOCK FALSE
