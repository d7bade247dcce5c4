SPECIFICATION LoadSpec
CONSTANTS
    Written <- Three
INVARIANTS
    TypeOK
    ParsedAsAsked
    RefusedForCause
    AllOrNothing
\* Loading ends.
CHECK_DEADLOCK FALSE
