SPECIFICATION Spec
CONSTANTS
    Threads = {t1, t2}
    run = run
    helper = helper
    lib = lib
    Methods <- MCMethods
    LineTables <- MCLineTables
    Classes <- MCClasses
    Traces <- MCTraces
    Slots = 2
    Grace = TRUE
    Free = Free
    Null = Null
SYMMETRY ThreadSymmetry
INVARIANTS
    TypeOK
    FrameLockExclusive
    ScopeLockHeld
    RangesLiveWhileMatched
    ExperimentMethodAllowed
PROPERTIES
    ImplementsReentrantLock
\* The VM may die, and the run then ends.
CHECK_DEADLOCK FALSE
