\* Two ticks beside each other, on paper, under the kill switch and its self-test.
SPECIFICATION Spec
CONSTANTS
    Ticks = {t1, t2}
    Symbols = {AAPL, SPUS}
    NoSymbol = NoSymbol
    Core = {SPUS}
    Notional = 2
    Prices = {2}
    OpeningCash = 4
    PositionPct = 50
    SectorPct = 60
    BufferPct = 10
    SmallFund = 4
    MaxOrdersPerDay = 3
    MaxCandidates = 2
    Phase = 0
    SelfTest = TRUE
    MaxRuns = 2
    MaxMoves = 1
SYMMETRY Interchangeable
INVARIANTS
    HaltStopsFills
    NoChurn
    OutcomeIsHonest
CHECK_DEADLOCK FALSE
