SPECIFICATION Spec
CONSTANTS
    Sizes = {4}
    Cap = 4
    MaxGap = 1
    MaxLate = 1
    MaxTime = 40
CHECK_DEADLOCK FALSE
INVARIANT LongTermRate
