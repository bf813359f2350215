SPECIFICATION Spec
CONSTANTS
    g1 = g1
    g2 = g2
    l1 = l1
    None = None
    Transports <- One
    Groups = {g1, g2}
    Lanes = {l1}
    LaneOf <- LanesOnZero
    Block = 4
    SchedCap = 1
    LaneCap = 2
    CueWait = 1
    Readers = TRUE
    Immediate <- RampCommands
    Bundles <- RampBundles
    Times <- RampTimes
    Entries <- LaneNotes
    MaxCommands = 4
    Horizon = 8
INVARIANTS TypeOK NotesEnd
PROPERTIES LoopMovesNothing NeverPastMark
