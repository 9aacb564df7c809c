\* A client leaves while the other waits at its throttle.
CONSTANTS
    MAX_CLIENTS = 2
    FRAME_BUFFER_SIZE = 3
    Clients = {c1, c2}
    NoFd = NoFd
    MaxFrame = 2
    ThreadCreateMayFail = {}
    ByteStream = FALSE
    MayStop = FALSE
    Inputs <- OneInput
    MayLeave = {c2}
    JunkStates <- InitialJunk
SPECIFICATION FairSpec
PROPERTY RunnableFrameIsSimulated
CHECK_DEADLOCK FALSE
