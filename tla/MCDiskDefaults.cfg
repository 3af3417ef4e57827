SPECIFICATION Spec
CONSTANTS
    Drive = {1, 2, 3, 4}
    Block = {1, 2, 3}
    MaxDrives = 2
    Word = 3
    MaxWork = 1
CHECK_DEADLOCK FALSE
INVARIANT
    DefaultsTaken
