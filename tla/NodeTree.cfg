SPECIFICATION Spec
CONSTANTS
    Root = Root
    NoNode = NoNode
    s1 = s1
    SynthIds = {s1, s2}
    GroupIds = {g1, g2}
    Parallel = {g1}
    MaxNodes = 4
    MaxChildren = 2
    MaxSlices = 2
    MaxPaused = 1
    Endings <- SomeEndings
INVARIANTS Forest ReportsDeaths DoneActionAsDescribed
PROPERTIES FinishedGo
