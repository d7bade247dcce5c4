SPECIFICATION Spec
CONSTANTS
    Threads = {t1, t2}
    Early = {t1}
    Leaving = {}
    Delays = {0}
    CheckPeriod = 1
    Oversleep = {0}
    NanosleepLimit = 100
    TraceErrors = FALSE
    EndToEnd = {FALSE}
    MaxExperiments = 2
    MaxRounds = 1
    MaxHits = 1
    MaxCharge = 2
CONSTRAINT PromptHandlers
INVARIANTS
    HitsOfThisExperiment
\* The VM may die, and the run then ends.
CHECK_DEADLOCK FALSE
