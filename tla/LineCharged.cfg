SPECIFICATION Spec
CONSTANTS
    Methods = {run, helper}
    Lines = {1, 2}
    MaxBCI = 4
    MaxEntries = 3
    Null = Null
INVARIANTS
    TypeOK
    CaughtFrameCharged
    ExactlyTheLineIsCharged
