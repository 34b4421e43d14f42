\* Two overlapping pollers, two commands, one lost call or crash, a build beside them.
SPECIFICATION MCSpec
CONSTANTS
    SPUS = SPUS
    Names = {SPUS}
    Builders = {b1}
    Reports <- MCReports
    MaxBuilds = 1
    MaxTurns = 0
    Pollers = {p1, p2}
    Requests <- MCRequests
    TableTypes <- MCTableTypes
    Refs = {r1}
    r1 = r1
    sharia = sharia
    all = all
    NoArg = NoArg
    MaxCommands = 2
    MaxWords = 1
    MaxFaults = 1
INVARIANTS
    FoundersWordStands
PROPERTIES
    QueueKept
    CommandsEnd
CHECK_DEADLOCK FALSE
