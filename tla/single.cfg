CONSTANTS
    NCams = 2
    NPipes = 2
    NStreams = 2
    PipeWrites <- PipeIndices
    CamWrites <- LastCam
    StreamWrites <- StreamIndices
SPECIFICATION Spec
INVARIANTS TypeOK OneOpen StreamFollowsIndex
PROPERTIES SwitchReachesStreams SelectionTakesEffect StreamConverges StopCloses
