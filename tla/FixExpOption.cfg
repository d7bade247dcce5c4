SPECIFICATION LoadSpec
CONSTANTS
    Written <- Documents
INVARIANTS
    FixExpAccepted
\* Loading ends.
CHECK_DEADLOCK FALSE
