SPECIFICATION Spec
CONSTANTS
    MaxPolls = 4
INVARIANTS
    NotSentAtFirmware
    ShotShowsDesktop
    LastBrightKept
PROPERTIES
    DarkIsNotSuccess
    Terminates
CHECK_DEADLOCK FALSE
