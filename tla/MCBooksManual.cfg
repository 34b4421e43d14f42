\* A manual entry reads the last row before its transaction: a broker fill gets in between.
SPECIFICATION Spec
CONSTANTS
    Brokers = {b1}
    Recorders = {m1}
    Depositors = {}
    Symbols = {AAPL}
    Portfolios = {growth}
    Coids = {c1, c2}
    Quantities = {2}
    Prices = {1}
    Fees = {0, 1}
    NoSymbol = NoSymbol
    NoPortfolio = NoPortfolio
    NoOne = NoOne
    NoCoid = NoCoid
    ClampWindow = 1
    OpeningCash = 10
    MaxCalls = 3
INVARIANTS
    BalanceRunsAndChains
CHECK_DEADLOCK FALSE
