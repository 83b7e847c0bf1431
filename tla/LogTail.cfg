SPECIFICATION Spec
CONSTANTS
    MaxLog = 3
    MaxLength = 6
    SlowRegrow = TRUE
INVARIANTS
    CaughtUpExact
PROPERTIES
    Converges
    DeliversLines
CHECK_DEADLOCK FALSE
