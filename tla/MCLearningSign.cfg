\* Trips that are sold in part and bought into again: is the sign that is kept the trip's?
SPECIFICATION LearningSpec
CONSTANTS
    Ticks = {t1, t2}
    Symbols = {SPUS}
    Strategies = {dca}
    Scale = 10
    Declared = 5
    MinSample = 1
    Gap = 2
    MaxRuns = 3
    MaxTrades = 2
    MaxUpsets = 2
    MaxProfit = 2
INVARIANTS
    SignIsTheTrips
CHECK_DEADLOCK FALSE
