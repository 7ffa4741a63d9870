SPECIFICATION FairSpec
CONSTANTS
    Users = {u1}
    Timers = {}
    Options = {}
    Chunks = {"whole"}
    MaxFrames = 1
    MaxChunks = 1
    Sinks = {"callbacks", "queue"}
    Faulty = {"complete"}
    Calls = {"cancel"}
    ConcurrentAbort = FALSE
PROPERTY QueueLoopTerminates
CHECK_DEADLOCK FALSE
