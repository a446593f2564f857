SPECIFICATION Spec
INVARIANTS
    TypeOK
    EveryEndIsTraced
    FrontEndReadsEveryAnswer
    HandledOnlyIfMeant
CHECK_DEADLOCK FALSE
