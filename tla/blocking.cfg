CONSTANTS
    Main = Main
    Other = Other
    Head = Head
    Callers <- TwoCallers
    MayCall <- BlockingCalls
    MaxPipes = 3
SPECIFICATION Spec
PROPERTIES ImplementsSession StopEndsRun
