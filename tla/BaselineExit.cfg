SPECIFICATION QuietSpec
CONSTANTS
    Threads = {t1, t2}
    Early = {t1}
    Leaving = {t2}
    Delays = {0, 1}
    CheckPeriod = 1
    Oversleep = {0}
    NanosleepLimit = 100
    TraceErrors = FALSE
    EndToEnd = {FALSE}
    MaxExperiments = 2
    MaxRounds = 1
    MaxHits = 0
    MaxCharge = 2
CONSTRAINT PromptRegistration
INVARIANTS
    BaselineHasNoDelay
\* The VM may die, and the run then ends.
CHECK_DEADLOCK FALSE
