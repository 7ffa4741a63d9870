SPECIFICATION Spec
CONSTANTS
    Modes <- DefaultMode
    Streams = {s1}
    Openers = {o1}
    Delays = {d1, d2}
    MaxEvents = 3
    MaxBatch = 2
    MaxFails = 1
    NumRequested = 3
    LowWaterMark = 0
    MaxAttempts = 0
    Preset = "earliest"
    Faults = {}
    Stoppable = TRUE
INVARIANT StoredPositionResumes
CHECK_DEADLOCK FALSE
