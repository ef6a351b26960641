SPECIFICATION FairSpec
CONSTANTS
    Guests = {g1, g2}
    NoGuest = NoGuest
    RoomMayGo = TRUE
    PollMayTimeOut = TRUE
    HWM = 4
    SymbolSizes = {2, 3}
    MetaUnits = 1
    Need = 2
    HardCap = 4
    Modes = {TRUE, FALSE}
    MaxLoss = 1
    MayLeave = TRUE
    g1 = g1
    g2 = g2
INVARIANTS TypeOK DoneSound BufferBounded NoLostWakeup
PROPERTIES ShareCompletes
\* A transfer ends.
CHECK_DEADLOCK FALSE
