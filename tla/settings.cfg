CONSTANTS
    camA = camA
    camB = camB
    Cams = {camA, camB}
    Settings = {"exposure"}
    RemoteWrites <- RemoteValues
    LocalWrites <- LocalValues
    MaxPending = 2
SPECIFICATION Spec
INVARIANTS TypeOK ListenersOwned AdjustmentInEffect
PROPERTY SettingsFollow
\* A listener that runs on freed memory may end the program.
CHECK_DEADLOCK FALSE
