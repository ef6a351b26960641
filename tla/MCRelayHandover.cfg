SPECIFICATION Spec
SYMMETRY ReceiverSymmetry
CONSTANTS
    Senders = {s1}
    Receivers = {r1, r2}
    Crashers = {}
    Faulty = {}
    Aborters = {}
    NoConn = NoConn
    NoFrame = NoFrame
    MaxPos = 2
    MaxDirect = 0
    InCap = 1
    ChanCap = 1
    MaxBufferedBytes = 4
    MetaSize = 1
    SymbolSize = 2
    s1 = s1
    r1 = r1
    r2 = r2
INVARIANTS TypeOK AtMostOnce BufferExact RegistrationSound NoForwardAfterReady
           NothingLost OrderWithinClass
PROPERTIES KeepsRegistration
\* A session ends when its clients are gone or have nothing left to write.
CHECK_DEADLOCK FALSE
