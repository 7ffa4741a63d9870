SPECIFICATION FairSpec
CONSTANTS
    Modes <- BothModes
    Streams = {s1, s2, s3}
    Openers = {o1}
    Delays = {d1}
    MaxEvents = 1
    MaxBatch = 1
    MaxFails = 2
    NumRequested = 1
    LowWaterMark = 0
    MaxAttempts = 1
    Preset = "latest"
    Faults = {"callback", "corrupt", "abort"}
    Stoppable = TRUE
CONSTRAINT InOrder
INVARIANT NoSkip
PROPERTIES ReconnectHappens StopEndsStreams EndIsReported
CHECK_DEADLOCK FALSE
