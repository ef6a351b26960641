SPECIFICATION FairSpec
CONSTANTS
    Precision = 3
    NRelays = 2
    HeaderSize = 1
    PayloadSize = 2
    MinPayload = 1
    MaxFrame = 5
    GarbageLengths = {0, 1, 4, 6}
    ChunkSize = 4
    SocketCap = 4
    LinkDepth = 1
    Transports = {"tcp", "quic"}
    LinkMayBreak = TRUE
    MaxEsi = 8
    MaxRefusals = 1
    Bandwidths <- MCBandwidths
INVARIANTS TypeOK FramesSound RelaysBalanced SplitKept
PROPERTIES LinkDelivers QueueDrains
\* A transfer ends.
CHECK_DEADLOCK FALSE
