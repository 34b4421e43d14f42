\* Two passes of ingestion, five days of one name, two builders, two ticks that learn.
SPECIFICATION MCSpec
CONSTANTS
    Sessions = {0, 2}
    Retries = 2
    MaxAge = 2
    MaxNow = 5
    MaxPasses = 2
    MaxOutages = 2
    Prices = {72, 100, 104}
    BenchmarkMedians <- MCMedians
    Horizon = 1
    MinWindows = 3
    MinRegimeSample = 1
    Lookback = 2
    Skip = 1
    TrendMA = 3
    ShortMA = 2
    HighWindow = 2
    MaxHold = 3
    Terms <- MCTerms
    MaxDays = 5
    MaxLots = 2
    MaxScreens = 1
    Names = {AAPL, SPUS}
    Builders = {b1, b2}
    Reports <- MCReports
    MaxBuilds = 2
    MaxTurns = 1
    Ticks = {t1, t2}
    Symbols = {SPUS}
    Strategies = {dca}
    Scale = 10
    Declared = 5
    MinSample = 1
    Gap = 2
    MaxRuns = 3
    MaxTrades = 2
    MaxUpsets = 2
    MaxProfit = 1
SYMMETRY Interchangeable
INVARIANTS
    FreshMeansAnswered
    ReplayTellsThePast
    NothingOutstays
    BuysAreBacked
    LiveBoardIsSound
    RatesAreHonest
    EveryCloseCounts
PROPERTIES
    FearNeverBuysMore
    DecisionsStand
CHECK_DEADLOCK FALSE
