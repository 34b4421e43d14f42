\* A process that dies takes its supervisor's quarantine with it.
SPECIFICATION Spec
CONSTANTS
    Nodes <- MCNodes
    Desks <- MCDesks
    Analysts <- MCAnalysts
    Graphs <- MCGraphs
    Cap = 1
    MaxRetries = 1
    MaxNotes = 0
    MaxCost = 0
    MaxCycles = 2
    MaxTurns = 1
PROPERTIES
    QuarantineStands
CHECK_DEADLOCK FALSE
