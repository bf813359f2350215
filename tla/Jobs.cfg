SPECIFICATION Spec
CONSTANTS
    Pipes = {"nrt", "faust"}
    Nrt = "nrt"
    Shared = TRUE
    MaxJobs <- FewJobs
    MaxLoads = 1
    MaxSyncs = 1
    MaxFailures = 1
    MaxRefusals = 1
INVARIANTS
    SyncIsBarrier
    WritesLand
PROPERTIES
    SyncsAnswered
CHECK_DEADLOCK FALSE
