SPECIFICATION Spec
CONSTANTS
    Client = {c1, c2}
    Tx = {t1, t2, t3}
    Foreign = {other}
    Sound = t1
    Garbled <- MCGarbled
    NoTx = NoTx
    NotSent = NotSent
    Nothing = Nothing
SYMMETRY MCSymmetry
INVARIANTS
    TypeOK
    ReadsWhatItHolds
PROPERTIES
    WriteIsRead
CHECK_DEADLOCK FALSE
