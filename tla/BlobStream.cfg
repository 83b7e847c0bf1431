SPECIFICATION Spec
CONSTANTS
    Size = 3
    MAX_ATTEMPTS = 4
    Bad = Bad
INVARIANTS
    OutIsPrefix
    OkIsComplete
    GivesUpLate
PROPERTIES
    Terminates
    KeepsPromise
CHECK_DEADLOCK FALSE
