SPECIFICATION Spec
CONSTANTS
    Workers = {w1, w2}
    Conductor = Conductor
    NoJob = NoJob
    NoItem = NoItem
    Sizes <- Pairs
    MaxStages = 2
CHECK_DEADLOCK FALSE
INVARIANTS JobPinned OneVisitor
PROPERTIES ForkJoinSafety ForkJoinLiveness DropJoins
