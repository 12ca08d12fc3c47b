SPECIFICATION AccountSpec
CONSTANTS
    Threads = {t1, t2, t3}
    NoClient = NoClient
    MaxChanges = 2
SYMMETRY ThreadSymmetry
INVARIANTS
    AccountTypeOK
    ShownIsReal
PROPERTIES
    ChangeIsTried
\* Threads and changes run out.
CHECK_DEADLOCK FALSE
