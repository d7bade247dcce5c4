SPECIFICATION Spec
CONSTANTS
    Threads = {t1}
    Agent = agent
    None = None
    MaxStarts = 1
INVARIANTS
    RecordOutlivesSignals
CHECK_DEADLOCK FALSE
