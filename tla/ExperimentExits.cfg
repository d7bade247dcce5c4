SPECIFICATION Spec
CONSTANTS
    Threads = {t1, t2}
    Early = {t1, t2}
    Leaving = {t2}
    Delays = {0, 1}
    CheckPeriod = 1
    Oversleep = {0, 1}
    NanosleepLimit = 2
    TraceErrors = TRUE
    EndToEnd = {FALSE}
    MaxExperiments = 1
    MaxRounds = 1
    MaxHits = 0
    MaxCharge = 2
CONSTRAINT SmallCharges
INVARIANTS
    TypeOK
    AheadOnlyByUnsettled
    PushIsCovered
    NoSelfDelay
    GlobalDelayIsBacked
\* The VM may die, and the run then ends.
CHECK_DEADLOCK FALSE
