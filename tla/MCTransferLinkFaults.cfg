SPECIFICATION FairSpec
CONSTANTS
    N = 1
    Crashable = {0}
    DirectMayDie = TRUE
    PipeCap = 1
    QueueDepth = 1
    StallMayFire = TRUE
    Need = 2
    UseDirect = TRUE
    Secrets = {TRUE, FALSE}
    DrainMayTimeOut = TRUE
    OnlyMidTransfer = FALSE
    ReceiverFirst = FALSE
INVARIANTS OneDirectLink WatchersNeverBlock
PROPERTIES Completes
\* A transfer ends when both sides have returned.
CHECK_DEADLOCK FALSE
