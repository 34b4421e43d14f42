\* A broker, the founder's manual fills and an opening deposit, racing on one ledger.
SPECIFICATION FairSpec
CONSTANTS
    Brokers = {b1}
    Recorders = {m1}
    Depositors = {d1}
    Symbols = {AAPL}
    Portfolios = {growth}
    Coids = {c1, c2}
    Quantities = {2}
    Prices = {1}
    Fees = {0, 1}
    NoSymbol = NoSymbol
    NoPortfolio = NoPortfolio
    NoOne = NoOne
    NoCoid = NoCoid
    ClampWindow = 1
    OpeningCash = 10
    MaxCalls = 3
INVARIANTS
    TablesAgree
    NoPhantomShares
    LostAmountIsReported
PROPERTIES
    CommitsAreKept
    LockIsReleased
CHECK_DEADLOCK FALSE
