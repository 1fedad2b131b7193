CONSTANTS
    Main = Main
    Head = Head
    Callers <- OneCaller
    MayCall <- SoleCalls
    MaxPipes = 2
SPECIFICATION ExitSpec
INVARIANTS AbortsOnlyUnregistered DownWhenHeadDown
PROPERTY ExitCompletes
\* The program may end, by returning or in std::terminate.
CHECK_DEADLOCK FALSE
