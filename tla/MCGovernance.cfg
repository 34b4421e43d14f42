\* Sharia jobs that overlap; one loop and one tick under faults; a backup beside two
\* programs; the ladders.
SPECIFICATION MCSpec
CONSTANTS
    Names = {AAPL, SPUS}
    DefaultUniverse = {SPUS}
    Snapshots <- MCSnapshots
    CrossChecks = {"pass", "fail", "none"}
    Locals = {"none", "pass"}
    Quarterly = {q1}
    Crossers = {c1}
    MaxJobs = 2
    MaxTurns = 1
    MaxActs = 2
    MaxFaults = 1
    Strategies = {dca, momentum}
    Evidence <- MCEvidence
    Contexts <- MCContexts
    Theses <- MCTheses
    MinEvidence = 20
    Loops = {h1}
    Ticks = {t1}
    MinPaperRuns = 1
    MaxRows = 2
    MaxThrows = 1
    MaxMishaps = 2
    Databases <- MCDatabases
    Pages = {1, 2}
    Users = {u1, u2}
    MaxCommits = 2
    MaxOpens = 2
    MaxCrashes = 1
SYMMETRY Rotation
INVARIANTS
    BuyableIsCleared
    NonClearIsFrozen
    ScreensAgree
    AutonomyIsEarned
    RunsAreHonest
    VerifiedIsOneMoment
CHECK_DEADLOCK FALSE
