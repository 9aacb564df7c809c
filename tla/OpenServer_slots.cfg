\* Four clients for two slots; no frame is simulated.
CONSTANTS
    MAX_CLIENTS = 2
    FRAME_BUFFER_SIZE = 2
    Clients = {c1, c2, c3, c4}
    NoFd = NoFd
    MaxFrame = 0
    ThreadCreateMayFail = {"client"}
    ByteStream = FALSE
    MayStop = FALSE
    Frames = {}
    Inputs <- OneInput
    MaxQueue = 1
SYMMETRY ClientSymmetry
SPECIFICATION Spec
INVARIANT SlotHandover
CHECK_DEADLOCK FALSE
