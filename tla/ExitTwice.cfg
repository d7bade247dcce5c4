SPECIFICATION Spec
CONSTANTS
    Threads = {t1}
    Early = {t1}
    Leaving = {t1}
    Delays = {1, 0}
    CheckPeriod = 2
    Oversleep = {0}
    NanosleepLimit = 100
    TraceErrors = FALSE
    EndToEnd = {FALSE}
    MaxExperiments = 1
    MaxRounds = 2
    MaxHits = 0
    MaxCharge = 2
CONSTRAINT SmallCharges
INVARIANTS
    EveryPushWasCharged
\* The VM may die, and the run then ends.
CHECK_DEADLOCK FALSE
