CONSTANTS
    Main = Main
    Other = Other
    Head = Head
    Callers <- OneCaller
    MayCall <- SoleCalls
    MaxPipes = 1
SPECIFICATION Spec
PROPERTY StopReturns
