SPECIFICATION Spec
CONSTANTS
    Call = {c1, c2, c3, c4}
    MaxCrash = 2
SYMMETRY MCCalls
INVARIANTS
    TypeOK
    WrittenIsKept
    CountsRuns
CHECK_DEADLOCK FALSE
