SPECIFICATION Spec
CONSTANTS
    Scores <- OneScore
    NoScore <- Empty
    Landings = {0, 2}
    Spans <- OneLoop
    Marks <- OneMark
    None = None
    Window = 4
    Block = 2
    FifoCap = 3
    LaneCap = 2
    Horizon = 3
    MaxEdits = 4
    MaxRuns = 2
    MaxAmiss = 1
INVARIANTS
    OnceOnTheQueue
    MarkedIsOnItsWay
PROPERTIES
    OncePerPass
    FeedCatchesUp
CHECK_DEADLOCK FALSE
