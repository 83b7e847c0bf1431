SPECIFICATION Spec
CONSTANTS
    MaxCommits = 2
    MaxBuilds = 3
    MaxIsos = 2
    MaxPolls = 1
INVARIANTS
    ChecksumPublished
CHECK_DEADLOCK FALSE
