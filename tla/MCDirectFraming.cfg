SPECIFICATION Spec
CONSTANTS
    Precision = 3
    NRelays = 2
    HeaderSize = 1
    PayloadSize = 2
    MinPayload = 1
    MaxFrame = 5
    GarbageLengths = {0, 1, 4, 6}
    ChunkSize = 6
    SocketCap = 6
    LinkDepth = 2
    Transports = {"tcp"}
    LinkMayBreak = FALSE
    MaxEsi = 8
    MaxRefusals = 0
    Bandwidths = {}
INVARIANTS FramesIntact
\* A transfer ends.
CHECK_DEADLOCK FALSE
