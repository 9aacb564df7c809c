\* Two clients that send any inputs they like for three frames.
CONSTANTS
    MAX_CLIENTS = 2
    FRAME_BUFFER_SIZE = 2
    Clients = {c1, c2}
    NoFd = NoFd
    MaxFrame = 2
    ThreadCreateMayFail = {}
    ByteStream = TRUE
    MayStop = FALSE
    Frames = {0, 1, 2}
    Inputs <- OneInput
    MaxQueue = 1
SYMMETRY ClientSymmetry
SPECIFICATION Spec
INVARIANTS TypeOK Lockstep ServerInv
PROPERTIES NeverAheadOfInputs WakeupsSent
CHECK_DEADLOCK FALSE
