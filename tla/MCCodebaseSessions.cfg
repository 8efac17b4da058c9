\* Two sessions of one codebase, one of which may replace the other while
\* requests of both are on their way.
SPECIFICATION Spec
CONSTANTS
    Session = {s1, s2}
    Runner = {c1}
    Request = {r1, r2}
    Chunk = {1, 2}
    PathOf <- OneFile
    Plan <- SmallPlan
    MaxAttempts = 2
    MaxFaults = 1
    MayStall = FALSE
INVARIANTS
    OneActiveSession
CHECK_DEADLOCK FALSE
