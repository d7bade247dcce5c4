SPECIFICATION Spec
CONSTANTS
    Threads = {t1}
    Early = {t1}
    Leaving = {}
    Delays = {0}
    CheckPeriod = 1
    Oversleep = {0}
    NanosleepLimit = 100
    TraceErrors = FALSE
    EndToEnd = {TRUE}
    MaxExperiments = 1
    MaxRounds = 1
    MaxHits = 0
    MaxCharge = 2
INVARIANTS
    EndToEndRecorded
\* The VM may die, and the run then ends.
CHECK_DEADLOCK FALSE
