CONSTANTS
    Own = {ownA}
    Cams = {camA, camB}
    None = None
    Names = {name}
    MaxHeap = 2
    MaxPipes = 2
    MaxStreams = 1
    MaxBlocks = 3
SPECIFICATION Spec
INVARIANTS TypeOK NoDangling OwnedOnce LensAlive LensMatches
