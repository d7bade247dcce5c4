SPECIFICATION FairSpec
CONSTANTS
    Threads = {t1}
    Early = {}
    Leaving = {t1}
    Delays = {0, 1}
    CheckPeriod = 2
    Oversleep = {0}
    NanosleepLimit = 2
    TraceErrors = TRUE
    EndToEnd = {FALSE, TRUE}
    MaxExperiments = 1
    MaxRounds = 2
    MaxHits = 1
    MaxCharge = 2
INVARIANTS
    PushIsCovered
    GlobalDelayIsBacked
    HitsNeverInvented
PROPERTIES
    StopReturns
\* The VM may die, and the run then ends.
CHECK_DEADLOCK FALSE
