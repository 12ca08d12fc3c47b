SPECIFICATION ListenersSpec
CONSTANTS
    Tries = 2
    Numbers = {n1, n2, n3, n4}
    MaxUses = 5
SYMMETRY NumberSymmetry
INVARIANTS
    ListenersTypeOK
    PortsStayOpen
\* Listen ends and the threads wait for ever.
CHECK_DEADLOCK FALSE
