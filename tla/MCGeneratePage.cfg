\* The six uses of a tab, each with two instances, calls or projects at most.
SPECIFICATION Spec
CONSTANTS
    m1 = m1
    m2 = m2
    c1 = c1
    c2 = c2
    p1 = p1
    p2 = p2
    Page = {m1, m2}
    Call = {c1, c2}
    Project = {p1, p2}
    Scene <- MCScene
    NULL = NULL
INVARIANTS
    OneStream
    NeverDeadEnd
PROPERTIES
    Settles
    GuardFreed
CHECK_DEADLOCK FALSE
