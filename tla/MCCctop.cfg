SPECIFICATION Spec
CONSTANTS
    Sizes <- MCSizes
    Key <- MCKeys
    Timeout = 4
    Slice = 2
    MaxKeys = 2
    MaxResizes = 3
CHECK_DEADLOCK FALSE
INVARIANTS
    TypeOK
    ScreenFaithful
    ForcedCondenseReverts
    SampledInTime
PROPERTIES
    ResizeFollowed
    QuitQuits
