\* Two brokers, no manual entry: the promise of the books holds in full.
SPECIFICATION Spec
CONSTANTS
    Brokers = {b1, b2}
    Recorders = {}
    Depositors = {}
    Symbols = {AAPL}
    Portfolios = {growth}
    Coids = {c1, c2}
    Quantities = {2}
    Prices = {1}
    Fees = {0, 1}
    NoSymbol = NoSymbol
    NoPortfolio = NoPortfolio
    NoOne = NoOne
    NoCoid = NoCoid
    ClampWindow = 1
    OpeningCash = 10
    MaxCalls = 3
INVARIANTS
    TypeOK
    IntentFilledOnce
    BalanceRunsAndChains
PROPERTIES
    PromiseKept
CHECK_DEADLOCK FALSE
