CONSTANTS
    Lanes = 4
    MaxSize = 13
    MaxChannels = 3
    MaxDepth = 2
SPECIFICATION Spec
INVARIANTS TypeOK StaysInside ComputesReference
\* A kernel returns.
CHECK_DEADLOCK FALSE
