\* One session, two batches and three chunks, two faults, and a user who starts
\* the command again.
SPECIFICATION FairSpec
CONSTANTS
    Session = {s1}
    Runner = {c1}
    Request = {r1, r2}
    Chunk = {1, 2, 3}
    PathOf <- ThreeChunks
    Plan <- UploadPlan
    MaxAttempts = 2
    MaxFaults = 2
    MayStall = FALSE
INVARIANTS
    UploadedIsWhole
    AcknowledgedIsStored
    NeverInterleave
PROPERTIES
    UploadRecovers
CHECK_DEADLOCK FALSE
