SPECIFICATION Spec
CONSTANTS
    Sizes <- MCSizes
    Key <- MCHelpKeys
    Timeout = 4
    Slice = 2
    MaxKeys = 2
    MaxResizes = 3
CHECK_DEADLOCK FALSE
PROPERTY
    HelpKeysWork
