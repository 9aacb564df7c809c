\* The server is told to stop at any moment.
CONSTANTS
    MAX_CLIENTS = 2
    FRAME_BUFFER_SIZE = 2
    Clients = {c1, c2}
    NoFd = NoFd
    MaxFrame = 1
    ThreadCreateMayFail = {"client", "simulation"}
    ByteStream = FALSE
    MayStop = TRUE
    Frames = {0}
    Inputs <- OneInput
    MaxQueue = 1
SYMMETRY ClientSymmetry
SPECIFICATION Spec
INVARIANTS WaitsForNoMore ShutdownNotStuck ShutdownInv
PROPERTIES SocketsShut ThreadsJoined
CHECK_DEADLOCK FALSE
