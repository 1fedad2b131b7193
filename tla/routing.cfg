CONSTANTS
    camA = camA
    camB = camB
    pipeA = pipeA
    Cams = {camA, camB}
    Pipes = {pipeA}
    NStreams = 1
    MaxLen = 2
    StreamWrites <- StreamIndices
    PipeWrites <- PipeIndices
    InitCams <- TwoCams
    InitPipes <- OnePipe
    Reconfigures = FALSE
    LiveCompensate = FALSE
SPECIFICATION Spec
INVARIANTS TypeOK StreamFollowsIndex OnlyFarIndicesThrow
PROPERTIES StreamConverges PipelineSwitches
\* An exception that leaves a thread ends the program.
CHECK_DEADLOCK FALSE
