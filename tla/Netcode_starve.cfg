\* The lock of a sleeping client is not handed over.
CONSTANTS
    MAX_CLIENTS = 2
    FRAME_BUFFER_SIZE = 3
    Clients = {c1, c2}
    NoFd = NoFd
    MaxFrame = 2
    ThreadCreateMayFail = {}
    ByteStream = FALSE
    MayStop = FALSE
    Inputs <- OneInput
    MayLeave = {}
    JunkStates <- InitialJunk
SPECIFICATION FairSpec
PROPERTY ReceivesAtThrottle
CHECK_DEADLOCK FALSE
