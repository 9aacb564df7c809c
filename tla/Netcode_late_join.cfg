\* A client joins after frame 0.
CONSTANTS
    MAX_CLIENTS = 2
    FRAME_BUFFER_SIZE = 3
    Clients = {c1, c2}
    NoFd = NoFd
    MaxFrame = 3
    ThreadCreateMayFail = {}
    ByteStream = FALSE
    MayStop = FALSE
    Inputs <- OneInput
    MayLeave = {}
    JunkStates <- InitialJunk
SYMMETRY ClientSymmetry
SPECIFICATION Spec
INVARIANT Agreement
CHECK_DEADLOCK FALSE
