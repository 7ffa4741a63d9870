SPECIFICATION FairSpec
CONSTANTS
    Users = {u1}
    Timers = {}
    Options = {}
    Chunks = {"pair", "split", "whole", "big"}
    MaxFrames = 3
    MaxChunks = 2
    Sinks = {"callbacks"}
    Faulty = {"headers", "message", "failure"}
    Calls = {"cancel"}
    ConcurrentAbort = FALSE
PROPERTIES KeepsContract CancelEnds EndCompletes
CHECK_DEADLOCK FALSE
