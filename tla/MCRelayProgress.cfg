SPECIFICATION FairSpec
CONSTANTS
    Senders = {s1}
    Receivers = {r1}
    Crashers = {s1, r1}
    Faulty = {r1}
    Aborters = {s1}
    NoConn = NoConn
    NoFrame = NoFrame
    MaxPos = 1
    MaxDirect = 1
    InCap = 1
    ChanCap = 1
    MaxBufferedBytes = 9
    MetaSize = 1
    SymbolSize = 2
    s1 = s1
    r1 = r1
INVARIANTS RoomReclaimed
PROPERTIES ReadyReachesSender BlockedSendsEnd HandlersEnd
\* A session ends when its clients are gone or have nothing left to write.
CHECK_DEADLOCK FALSE
