\* The count of clients is wrong when the slots are full.
CONSTANTS
    MAX_CLIENTS = 2
    FRAME_BUFFER_SIZE = 2
    Clients = {c1, c2, c3, c4}
    NoFd = NoFd
    MaxFrame = 0
    ThreadCreateMayFail = {}
    ByteStream = FALSE
    MayStop = FALSE
    Frames = {}
    Inputs <- OneInput
    MaxQueue = 1
SYMMETRY ClientSymmetry
SPECIFICATION Spec
INVARIANT RejectReleases
CHECK_DEADLOCK FALSE
