\* Three clients for two slots.
CONSTANTS
    MAX_CLIENTS = 2
    FRAME_BUFFER_SIZE = 2
    Clients = {c1, c2, c3}
    NoFd = NoFd
    MaxFrame = 1
    ThreadCreateMayFail = {}
    ByteStream = FALSE
    MayStop = FALSE
    Inputs <- OneInput
    MayLeave = {c1, c2, c3}
    JunkStates <- InitialJunk
SYMMETRY ClientSymmetry
SPECIFICATION Spec
INVARIANTS InputInv NetcodeInv RosterMatchesThreads ProgressInv
CHECK_DEADLOCK FALSE
PROPERTY ServerIsOpen
