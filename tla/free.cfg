CONSTANTS
    Main = Main
    Other = Other
    Head = Head
    Callers <- TwoCallers
    MayCall <- FreeCalls
    MaxPipes = 2
SPECIFICATION Spec
INVARIANTS TypeOK RunningHasOwner RunnersEnclosed
PROPERTY WindsDown
\* std::terminate ends the program.
CHECK_DEADLOCK FALSE
