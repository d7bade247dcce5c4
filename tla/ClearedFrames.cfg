SPECIFICATION Spec
CONSTANTS
    Threads = {t1}
    run = run
    helper = helper
    lib = lib
    Methods <- MCMethods
    LineTables <- MCLineTables
    Classes <- MCClasses
    Traces <- MCTraces
    Slots = 2
    Grace = TRUE
    Free = Free
    Null = Null
INVARIANTS
    OnlyStoredFramesCopied
\* The VM may die, and the run then ends.
CHECK_DEADLOCK FALSE
