SPECIFICATION FairSpec
CONSTANTS
    main1 = main1
    main2 = main2
    long = long
    other = other
    Threads = {init, t1}
    InitThread = init
    Classes <- MCClasses
    Signature <- MCSignature
    search_scopes <- ScopeLA
    ignored_scopes <- ScopeLAA
    progress_class <- ClassLA
    HasLine = {main1, main2, long}
    EndToEnd = FALSE
    Failing = {"GetClassSignature"}
    None = None
PROPERTIES
    CallbacksReturn
\* The VM may die, and the run then ends.
CHECK_DEADLOCK FALSE
