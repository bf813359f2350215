SPECIFICATION MirrorSpec
CONSTANTS
    Root = Root
    NoNode = NoNode
    SynthIds = {s1, s2}
    GroupIds = {g1, g2}
    Actions = {"tail", "before", "after", "replace"}
    Moves = {"head", "before"}
    DoneActions = {"FreeSelf", "FreeSelfAndPrev", "FreeGroup"}
    MaxNodes = 4
    MaxChildren = 1
    FifoSize = 2
    MaxCommands = 3
SYMMETRY Alike
INVARIANTS FreeIdsAreDead Converges
