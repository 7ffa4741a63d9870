SPECIFICATION Spec
CONSTANTS
    Users = {u1, u2}
    Timers = {}
    Options = {}
    Chunks = {"pair", "split"}
    MaxFrames = 2
    MaxChunks = 2
    Sinks = {"callbacks", "queue"}
    Faulty = {"message"}
    Calls = {"cancel", "write"}
    ConcurrentAbort = TRUE
SYMMETRY UserSymmetry
INVARIANTS TypeOK TerminalIsLast TerminalOnce CancelDecides NoSilentLoss
CHECK_DEADLOCK FALSE
