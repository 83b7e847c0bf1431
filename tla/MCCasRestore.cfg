SPECIFICATION Spec
CONSTANTS
    Bad = Bad
    N = 2
    Object <- MCObject
    Chunk <- MCChunk
    Keyed <- MCKeyed
    Tarball <- MCTarball
INVARIANTS
    RestoredIsWhole
    AccountedFor
PROPERTIES
    StepEnds
CHECK_DEADLOCK FALSE
