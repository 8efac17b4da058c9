\* A request that outlasts the stale limit of its claim.
SPECIFICATION Spec
CONSTANTS
    Session = {s1}
    Runner = {c1}
    Request = {r1, r2}
    Chunk = {1, 2, 3}
    PathOf <- ThreeChunks
    Plan <- UploadPlan
    MaxAttempts = 2
    MaxFaults = 2
    MayStall = TRUE
INVARIANTS
    AcknowledgedIsStored
CHECK_DEADLOCK FALSE
