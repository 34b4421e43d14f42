\* One tick process: halts, vetoes and freezes given and taken back around two runs, and
\* closes that move under one.
SPECIFICATION MCSpec
CONSTANTS
    Ticks = {t1}
    Symbols = {AAPL, SPUS}
    NoSymbol = NoSymbol
    Core = {SPUS}
    Notional = 4
    Prices = {1, 2}
    OpeningCash = 10
    PositionPct = 58
    SectorPct = 60
    BufferPct = 10
    SmallFund = 8
    MaxOrdersPerDay = 3
    MaxCandidates = 2
    Phase = 1
    SelfTest = FALSE
    MaxRuns = 2
    MaxMoves = 3
    OpenRuns = 1
    OpenMoves = 2
INVARIANTS
    VetoStopsFills
    FreezeStopsBuys
    DcaOncePerWindow
    LimitsHold
    NoRiskOnBrokenExit
PROPERTIES
    RunsEnd
CHECK_DEADLOCK FALSE
