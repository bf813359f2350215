SPECIFICATION Spec
CONSTANTS
    None = None
    Frames = 7
    Ring = 5
    Kept = 3
    Cross = 1
    LandLead = 1
    CueLead = 2
    FirstChunk = 1
    Chunk = 2
    Requests = 2
    Epochs = 6
    Block = 2
    CueWait = 1
    Loops <- TwoLoops
    Places = {2}
    MaxCommands = 2
INVARIANT HeadIsRing
PROPERTIES ReadyIsHeard RefillsLand
CHECK_DEADLOCK FALSE
