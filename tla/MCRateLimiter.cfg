SPECIFICATION Spec
CONSTANTS
    Sizes = {1, 3, 5}
    Cap = 4
    MaxGap = 3
    MaxLate = 2
    MaxTime = 14
CHECK_DEADLOCK FALSE
INVARIANTS AtMostTwiceTheRate BurstBounded Ledger
