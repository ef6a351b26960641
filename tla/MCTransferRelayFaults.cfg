SPECIFICATION FairSpec
CONSTANTS
    N = 2
    Crashable = {1}
    DirectMayDie = FALSE
    PipeCap = 1
    QueueDepth = 1
    StallMayFire = FALSE
    Need = 2
    UseDirect = FALSE
    Secrets = {TRUE}
    DrainMayTimeOut = FALSE
    OnlyMidTransfer = TRUE
    ReceiverFirst = TRUE
INVARIANTS TypeOK NoFalseAck
PROPERTIES ImplementsAbs Completes SurvivesRelayLoss
\* A transfer ends when both sides have returned.
CHECK_DEADLOCK FALSE
