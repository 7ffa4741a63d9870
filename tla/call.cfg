SPECIFICATION FairSpec
CONSTANTS
    Shapes = {"unary", "server", "client", "bidi"}
    Sizes = {2, 3}
    MaxUp <- Up
    MaxDown <- Down
    MaxQueued = 1
    MaxMessageSize = 2
    MaxRequestBody = 7
    MetadataShapes = {"server", "bidi"}
    Faults = {"cancel", "reset", "unknown", "codec", "limit"}
    HandlerEndings = {"OK", "DEADLINE_EXCEEDED"}
INVARIANTS TypeOK RequestsArrive ResponsesArrive ResponseWellFormed
PROPERTIES KeepsContract CallAnswered FinishReturns
CHECK_DEADLOCK FALSE
