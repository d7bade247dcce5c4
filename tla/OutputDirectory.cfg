SPECIFICATION LoadSpec
CONSTANTS
    Written <- Documents
INVARIANTS
    OutputWhereAsked
\* Loading ends.
CHECK_DEADLOCK FALSE
