CONSTANTS
    Groups <- Buses
    StageLanes = 2
SPECIFICATION StagesSpec
INVARIANTS BusesInOrder SameAsSequential
