\* The weekly self-test resumes what the founder halted.
SPECIFICATION Spec
CONSTANTS
    Ticks = {t1}
    Symbols = {AAPL, SPUS}
    NoSymbol = NoSymbol
    Core = {SPUS}
    Notional = 2
    Prices = {2}
    OpeningCash = 4
    PositionPct = 50
    SectorPct = 60
    BufferPct = 10
    SmallFund = 4
    MaxOrdersPerDay = 3
    MaxCandidates = 2
    Phase = 0
    SelfTest = TRUE
    MaxRuns = 1
    MaxMoves = 2
INVARIANTS
    HaltStandsUntilResumed
CHECK_DEADLOCK FALSE
