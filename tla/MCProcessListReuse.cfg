SPECIFICATION Spec
CONSTANTS
    Pid = {1, 2}
    Word = 8
    MaxTouched = 3
    MaxGen = 2
    MaxCpu = 1
CHECK_DEADLOCK FALSE
PROPERTY
    EndedIsRemoved
