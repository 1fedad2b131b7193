CONSTANTS
    camA = camA
    camB = camB
    pipeA = pipeA
    Cams = {camA, camB}
    Pipes = {pipeA}
    NStreams = 1
    MaxLen = 2
    StreamWrites <- FewIndices
    PipeWrites <- FarPipeIndices
    InitCams <- Nothing
    InitPipes <- Nothing
    Reconfigures = TRUE
    LiveCompensate = FALSE
SPECIFICATION Spec
PROPERTY StreamSwitches
\* An exception that leaves a thread or a data race ends the program.
CHECK_DEADLOCK FALSE
