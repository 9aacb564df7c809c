\* A frame is broadcast to a client before its first message.
CONSTANTS
    MAX_CLIENTS = 2
    FRAME_BUFFER_SIZE = 2
    Clients = {c1, c2}
    NoFd = NoFd
    MaxFrame = 2
    ThreadCreateMayFail = {}
    ByteStream = FALSE
    MayStop = FALSE
    Inputs <- OneInput
    MayLeave = {}
    JunkStates <- InitialJunk
SYMMETRY ClientSymmetry
SPECIFICATION Spec
INVARIANT ReconcileOrder
CHECK_DEADLOCK FALSE
