SPECIFICATION FairSpec
CONSTANTS
    Shapes = {"client"}
    Sizes = {0, 2}
    MaxUp <- Up
    MaxDown <- Down
    MaxQueued = 1
    MaxMessageSize = 0
    MaxRequestBody = 0
    MetadataShapes = {}
    Faults = {}
    HandlerEndings = {"OK", "DEADLINE_EXCEEDED"}
INVARIANT RequestsArrive
CHECK_DEADLOCK FALSE
