SPECIFICATION LoadSpec
CONSTANTS
    Written <- Documents
INVARIANTS
    TracerFound
\* Loading ends.
CHECK_DEADLOCK FALSE
