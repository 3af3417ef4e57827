SPECIFICATION Spec
CONSTANTS
    Word = 8
    PageSize = 2
    Pages = 3
    Swap = 1
    MaxPageins = 2
    Stack <- MCStack
INVARIANT
    CurrentIsCurrent
