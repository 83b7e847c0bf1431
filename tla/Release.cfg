SPECIFICATION Spec
CONSTANTS
    MaxCommits = 2
    MaxBuilds = 2
    MaxIsos = 2
    MaxPolls = 1
INVARIANTS
    PromotedWasGreen
    OnlyBuildsUndoRollback
PROPERTIES
    LatestNeverGoesBack
    JobEnds
CHECK_DEADLOCK FALSE
