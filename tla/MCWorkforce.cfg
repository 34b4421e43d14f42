\* Two cycles of any kind over every graph, with two pauses or crashes.
SPECIFICATION Spec
CONSTANTS
    Nodes <- MCNodes
    Desks <- MCDesks
    Analysts <- MCAnalysts
    Graphs <- MCGraphs
    Cap = 1
    MaxRetries = 1
    MaxNotes = 1
    MaxCost = 1
    MaxCycles = 2
    MaxTurns = 2
INVARIANTS
    FailureIsContained
    MetersAreHonest
    StoppedDesksStayStopped
PROPERTIES
    CycleEnds
CHECK_DEADLOCK FALSE
