SPECIFICATION Spec
CONSTANTS
    None = None
    Servers = {s1, s2, s3}
    Cap = 8
    Cursors = 16
    PacketWords = {1, 2}
    FrameCounts = {1, 2}
    TapFrames = 8
    TapBlock = 2
    Windows = {1, 3, 4}
    Budgets <- Work
SYMMETRY Processes
INVARIANTS EachPacketOnce MapsWhatItSays WindowIsWhole
CHECK_DEADLOCK FALSE
