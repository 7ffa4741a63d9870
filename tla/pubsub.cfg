SPECIFICATION Spec
CONSTANTS
    Modes <- DefaultMode
    Streams = {s1, s2, s3}
    Openers = {o1}
    Delays = {d1, d2}
    MaxEvents = 2
    MaxBatch = 2
    MaxFails = 2
    NumRequested = 2
    LowWaterMark = 1
    MaxAttempts = 1
    Preset = "earliest"
    Faults = {"callback", "submit", "abort"}
    Stoppable = TRUE
SYMMETRY Identities
INVARIANTS TypeOK NoSkip NoDuplicate OneStream GivenUpIsQuiet StopHasTheStream
PROPERTY KeepsContract
CHECK_DEADLOCK FALSE
