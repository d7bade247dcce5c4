SPECIFICATION FairSpec
CONSTANTS
    Threads = {t1, t2}
    run = run
    helper = helper
    lib = lib
    Methods <- OneMethod
    LineTables <- OneMethod
    Classes <- OneClass
    Traces <- OneTrace
    Slots = 1
    Grace = TRUE
    Free = Free
    Null = Null
PROPERTIES
    HandlerReturns
\* The VM may die, and the run then ends.
CHECK_DEADLOCK FALSE
