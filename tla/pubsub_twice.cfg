SPECIFICATION Spec
CONSTANTS
    Modes <- AbruptMode
    Streams = {s1, s2, s3, s4}
    Openers = {o1, o2}
    Delays = {d1, d2}
    MaxEvents = 1
    MaxBatch = 1
    MaxFails = 2
    NumRequested = 1
    LowWaterMark = 0
    MaxAttempts = 0
    Preset = "earliest"
    Faults = {}
    Stoppable = FALSE
SYMMETRY Identities
INVARIANT NoDuplicate
CHECK_DEADLOCK FALSE
