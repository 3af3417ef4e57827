SPECIFICATION Spec
CHECK_DEADLOCK FALSE
INVARIANTS
    TypeOK
    RestoredAtExit
    ModesFirst
    WordsStay
PROPERTIES
    GivenBackForGood
    EndsWhenTold
