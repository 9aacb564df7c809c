\* Two clients that stay, every thread fairly scheduled.
CONSTANTS
    MAX_CLIENTS = 2
    FRAME_BUFFER_SIZE = 3
    Clients = {c1, c2}
    NoFd = NoFd
    MaxFrame = 3
    ThreadCreateMayFail = {}
    ByteStream = FALSE
    MayStop = FALSE
    Inputs <- OneInput
    MayLeave = {}
    JunkStates <- InitialJunk
SPECIFICATION FairSpec
INVARIANTS NoInputRefused PlaysOn
PROPERTY EveryFrameConfirmed
CHECK_DEADLOCK FALSE
