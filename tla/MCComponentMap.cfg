SPECIFICATION Spec
CONSTANTS
    Element <- MCElement
    Layers <- MCLayers
    File <- MCFile
    PathOf <- MCPathOf
    None = None
    MaxLines = 4
INVARIANTS
    ComponentIsOwner
    LastOwnerWins
    AttributesMatch
    SumsAddUp
CHECK_DEADLOCK FALSE
