\* Two clients that may leave, inputs that tell players and frames apart; the rings wrap.
CONSTANTS
    MAX_CLIENTS = 2
    FRAME_BUFFER_SIZE = 3
    Clients = {c1, c2}
    NoFd = NoFd
    MaxFrame = 3
    ThreadCreateMayFail = {}
    ByteStream = TRUE
    MayStop = FALSE
    Inputs <- TwoInputs
    MayLeave = {c1, c2}
    JunkStates <- InitialJunk
CONSTRAINT InputsAlternate
SYMMETRY ClientSymmetry
SPECIFICATION Spec
INVARIANTS RollbackInv TypeOK FrameOrder ConfirmedKept FollowsServer PredictionFresh NoForeignInput PredictionKept NoInputRefused ChannelBound EarlyInv EarlyBound NeverAllWait
PROPERTY Replicates
CHECK_DEADLOCK FALSE
