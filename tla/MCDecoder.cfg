SPECIFICATION FairSpec
CONSTANTS
    K = 2
    S = 2
    H = 4
    Hdpc <- Hdpc2
    Repair <- Repair2
INVARIANTS TypeOK Sound EquationsHold IndexComplete OrderIndependent
PROPERTY RippleEnds
\* Decoding ends when every input is resolved.
CHECK_DEADLOCK FALSE
