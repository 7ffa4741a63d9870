SPECIFICATION FairSpec
CONSTANTS
    Users = {u1}
    Timers = {"t1"}
    Options = {}
    Chunks = {}
    MaxFrames = 0
    MaxChunks = 0
    Sinks = {"callbacks"}
    Faulty = {"timer"}
    Calls = {"timer", "idle", "finish", "write"}
    ConcurrentAbort = FALSE
PROPERTIES TimerServed DeadlineServed
CHECK_DEADLOCK FALSE
