------------------------------ MODULE TradeRules ------------------------------
(***************************************************************************)
(* The arithmetic between the market data and a trade, over the life of    *)
(* one name: macro signals make a regime, the regime and the closes make   *)
(* the strategies' proposals, the closes make the edge proof, and the exit *)
(* rules close what the buys opened.  A tick runs the exits, then the buys *)
(* of a name that was not just sold, then the mechanical DCA into a core   *)
(* ETF.  What the governed tick adds (rails, budget, approval, brokers) is *)
(* GovernedTick's; every proposal is taken here as filled at the close.    *)
(*                                                                         *)
(* Returns are in millionths, weights of regime signals in tenths.         *)
(***************************************************************************)
EXTENDS Integers, Sequences, FiniteSets, FiniteSetsExt, SequencesExt

CONSTANTS
    Prices,                             \* closes a day can bring
    BenchmarkMedians,                   \* medians of the benchmark's forward returns, or "none"
    Horizon, MinWindows, MinRegimeSample,    \* of the edge proof
    Lookback, Skip, TrendMA, ShortMA, HighWindow,   \* of the strategies, in bars
    MaxHold,                            \* exit_time_stop_days
    Terms,                              \* what the caller tells the edge proof
    MaxDays, MaxLots, MaxScreens        \* bounds on behaviours

ASSUME RuleConstants ==
    /\ Prices \subseteq Nat \ {0} /\ BenchmarkMedians \subseteq Int
    /\ {Horizon, MinWindows, MinRegimeSample, Lookback, TrendMA, ShortMA, HighWindow, MaxHold} \subseteq Nat \ {0}
    /\ Terms \subseteq [tested : Nat \ {0}, small : BOOLEAN, split : BOOLEAN, quality : BOOLEAN,
                        mode : {"enforcing", "shadow"}]
    /\ Skip \in 1..Lookback /\ {MaxDays, MaxLots, MaxScreens} \subseteq Nat

VARIABLES
    stress,         \* the macro signals that fire
    kind,           \* "etf" of the core universe or "stock"
    closes,         \* the name's closes, oldest first
    current,        \* today's bar has arrived
    standing,       \* its whitelist row: compliant, doubtful, frozen or unlisted
    verdict,        \* its newest row of sharia_status: pass, doubtful or none
    bench, terms,   \* the edge proof's other inputs
    day, pos,       \* the position: qty lots that cost so much, opened on a day
    boughtOn,       \* the day of the last buy
    deal,           \* what the last tick did: [sold, bought, by] (history)
    screens

inputs == <<kind, bench, terms>>
book == <<pos, boughtOn>>
sharia == <<standing, verdict>>
ruleVars == <<stress, inputs, closes, current, sharia, day, book, deal, screens>>

Flat == [qty |-> 0, cost |-> 0, opened |-> 0]
NoDeal == [sold |-> "none", bought |-> "none", by |-> {}]
LastClose == Last(closes)
Newest(s, k) == SubSeq(s, Len(s) - k + 1, Len(s))
Sum(s) == FoldSeq(LAMBDA x, y : x + y, 0, s)

RulesInit ==
    /\ stress = {} /\ kind \in {"etf", "stock"} /\ closes = <<>> /\ current = FALSE
    /\ standing = "compliant" /\ verdict = "none" /\ bench \in BenchmarkMedians /\ terms \in Terms
    /\ day = 0 /\ pos = Flat /\ boughtOn = -1 /\ deal = NoDeal /\ screens = 0

-----------------------------------------------------------------------------
\* classify: each signal that fires votes for regimes; ties go to the riskier.
SignalVotes == {<<"cpi_high", "INFLATION_SHOCK", 10>>, <<"cpi_low", "DISINFLATION_GROWTH", 7>>,
          <<"curve_inverted", "RECESSION_RISK", 10>>, <<"hy_wide", "RECESSION_RISK", 10>>,
          <<"vix_high", "GEOPOLITICAL_RISK_OFF", 10>>, <<"vix_high", "RECESSION_RISK", 5>>,
          <<"funds_high", "LIQUIDITY_TIGHTENING", 10>>, <<"funds_low", "LIQUIDITY_EXPANSION", 10>>,
          <<"oil_up", "COMMODITY_SUPPLY_SHOCK", 10>>, <<"usd_strong", "USD_STRENGTH_EM_PRESSURE", 8>>,
          <<"unemployment_high", "RECESSION_RISK", 5>>, <<"gpr_high", "GEOPOLITICAL_RISK_OFF", 10>>,
          <<"peg_drift", "GEOPOLITICAL_RISK_OFF", 10>>, <<"peg_drift", "USD_STRENGTH_EM_PRESSURE", 5>>}

\* A copy of the peg's second vote under the geopolitical index.
VotesGprLikePeg == SignalVotes \cup {<<"gpr_high", "USD_STRENGTH_EM_PRESSURE", 5>>}

Votes == SignalVotes

Signals == {v[1] : v \in Votes}
Exclusive == {{"cpi_high", "cpi_low"}, {"funds_high", "funds_low"}}

TiePriority == <<"RECESSION_RISK", "GEOPOLITICAL_RISK_OFF", "INFLATION_SHOCK", "COMMODITY_SUPPLY_SHOCK",
    "LIQUIDITY_TIGHTENING", "USD_STRENGTH_EM_PRESSURE", "LIQUIDITY_EXPANSION", "DISINFLATION_GROWTH", "RECOVERY">>

Score(fired, r) == MapThenSumSet(LAMBDA v : v[3], {v \in Votes : v[1] \in fired /\ v[2] = r})

\* No signal at all is RECOVERY; that no series has data ("unknown") is UNKNOWN.
Regime(fired) ==
    LET score == [i \in DOMAIN TiePriority |-> Score(fired, TiePriority[i])]
        best == Max(ToSet(score))
        first == SelectInSeq(score, LAMBDA x : x = best)
    IN  IF fired = {"unknown"} THEN "UNKNOWN" ELSE IF best = 0 THEN "RECOVERY" ELSE TiePriority[first]

\* runs_in_regime: the regimes a strategy lists, and the cash regimes of the rotation.
Calm == {"LIQUIDITY_EXPANSION", "DISINFLATION_GROWTH", "RECOVERY", "UNKNOWN"}
AllRegimes == ToSet(TiePriority) \cup {"UNKNOWN"}
CashRegimes == {"GEOPOLITICAL_RISK_OFF", "RECESSION_RISK"}

RunsIn ==
    [s \in {"ts_momentum", "quality_momentum", "mean_reversion",
            "core_dca", "dca_ladder", "dividend_growth", "etf_rotation"} |->
        IF s \in {"ts_momentum", "quality_momentum", "mean_reversion"} THEN Calm
        ELSE IF s = "etf_rotation" THEN AllRegimes \ CashRegimes ELSE AllRegimes]

Willing(fired) == LET r == Regime(fired) IN {s \in DOMAIN RunsIn : r \in RunsIn[s]}

-----------------------------------------------------------------------------
\* The strategies: the average of the newest bars, the trend, the dip, the trailing returns.
AboveTrend == Len(closes) >= TrendMA /\ LastClose * TrendMA > Sum(Newest(closes, TrendMA))

Dipped == Len(closes) >= ShortMA /\ 100 * LastClose * ShortMA <= 97 * Sum(Newest(closes, ShortMA))

OffTheHigh ==
    LET high == Max(ToSet(Newest(closes, Min({HighWindow, Len(closes)}))))
    IN  20 * (high - LastClose) >= high

\* 12-1 momentum of at least 5%, the newest month left out.
Momentum ==
    LET n == Len(closes) IN
    n > Lookback /\ 100 * closes[n - Skip + 1] >= 105 * closes[n - Lookback + 1]

TrailingReturn == Len(closes) > Lookback /\ LastClose > closes[Len(closes) - Lookback]

\* The rotation's target: the core ETF, one of its two sisters, or cash.
TargetETF(r) ==
    CASE r \in CashRegimes -> "CASH"
      [] r \in {"LIQUIDITY_TIGHTENING", "USD_STRENGTH_EM_PRESSURE"} -> "HLAL"
      [] r \in {"INFLATION_SHOCK", "COMMODITY_SUPPLY_SHOCK"} -> "MNZL"
      [] OTHER -> "SPUS"

\* What each proposes for the name, its Sharia status aside; an "etf" is the core, SPUS.
CoreDCA == kind = "etf"
ETFRegimeRotation == kind = "etf" /\ TargetETF(Regime(stress)) = "SPUS"
DCALadder == kind = "etf" /\ AboveTrend /\ OffTheHigh
MeanReversion == Dipped /\ AboveTrend
TimeSeriesMomentum == TrailingReturn /\ AboveTrend
QualityMomentum == Momentum
DividendGrowth == FALSE                             \* no candidates are curated yet

Speaks(s) ==
    CASE s = "core_dca" -> CoreDCA
      [] s = "etf_rotation" -> ETFRegimeRotation
      [] s = "dca_ladder" -> DCALadder
      [] s = "mean_reversion" -> MeanReversion
      [] s = "ts_momentum" -> TimeSeriesMomentum
      [] s = "quality_momentum" -> QualityMomentum
      [] s = "dividend_growth" -> DividendGrowth

\* _sharia_status: the newest verdict, or else what the whitelist row says (which a freeze
\* leaves as it was); the strategies and the edge proof ask it, the exits ask the row.
Clear == verdict = "pass" \/ (verdict = "none" /\ standing \in {"compliant", "frozen"})

\* _filter's floor of 0.3: quality_momentum's confidence, twice the momentum to three
\* places, is the only one that can miss its own.
Confident(s) ==
    s = "quality_momentum" =>
        LET n == Len(closes) IN 100000 * closes[n - Skip + 1] >= 114975 * closes[n - Lookback + 1]

\* signals_for: active, in its regime, confident, and never a name without a clear status.
Proposers == IF ~Clear \/ ~current THEN {}
             ELSE {s \in Willing(stress) : Speaks(s) /\ Confident(s)}

-----------------------------------------------------------------------------
\* The edge proof of the name: every window's forward return, not the signal's.
ForwardReturns == [i \in 1..Max({0, Len(closes) - Horizon}) |->
                      (closes[i + Horizon] * 1000000) \div closes[i] - 1000000]

\* The k-th smallest of a sequence of numbers.
KthSmallest(s, k) ==
    CHOOSE x \in ToSet(s) : /\ Cardinality({i \in DOMAIN s : s[i] < x}) < k
                            /\ Cardinality({i \in DOMAIN s : s[i] <= x}) >= k

\* Twice the median, so that it stays whole: the two in the middle, or the one twice.
Median2(s) == KthSmallest(s, (Len(s) + 1) \div 2) + KthSmallest(s, Len(s) \div 2 + 1)

\* fwd[:k] for fwd[-k:]: the decay test looks at the oldest quarter.
DecayWindow(n) == Min({n, Max({MinRegimeSample, n \div 4})})

RecentFirst(s) == SubSeq(s, 1, DecayWindow(Len(s)))

Recent(s) == Newest(s, DecayWindow(Len(s)))

ExcessBar == 2500 * (10 + Min({10, terms.tested - 1}))
WorstFloor == -250000
Cost == 2000

WouldAllow ==
    LET rs == ForwardReturns
        excess2 == Median2(rs) - 2 * bench
        decayed == Median2(rs) > 0 /\ 2 * Median2(Recent(rs)) < Median2(rs)
    IN  /\ rs # <<>> /\ Len(rs) >= MinWindows /\ Len(rs) >= MinRegimeSample
        /\ excess2 >= 2 * ExcessBar /\ excess2 > 2 * Cost
        /\ \/ Min(ToSet(rs)) >= WorstFloor \/ terms.small
        /\ ~decayed
        /\ Clear /\ terms.quality /\ ~terms.split

TradeAllowed == WouldAllow \/ terms.mode = "shadow"

-----------------------------------------------------------------------------
\* Broker: a lot at the last close; a buy into a flat row begins a new round trip.
BuyKeepingClock(p) == [qty |-> p.qty + 1, cost |-> p.cost + LastClose,
                       opened |-> IF p.qty = 0 /\ p.opened = 0 THEN day ELSE p.opened]

Buy(p) == [qty |-> p.qty + 1, cost |-> p.cost + LastClose,
           opened |-> IF p.qty = 0 THEN day ELSE p.opened]

Sell(p) == [p EXCEPT !.qty = 0, !.cost = 0]

\* evaluate_exits: the first rule that applies; an unlisted holding is proposed and refused.
ExitRule ==
    LET value == 100 * LastClose * pos.qty IN
    IF pos.qty = 0 \/ closes = <<>> THEN "none"
    ELSE IF standing = "unlisted" THEN "unlisted_holding"
    ELSE IF standing # "compliant" THEN "sharia_exit"
    ELSE IF value <= 92 * pos.cost THEN "stop_loss"
    ELSE IF value >= 115 * pos.cost THEN "profit_take"
    ELSE IF day - pos.opened >= MaxHold THEN "time_stop"
    ELSE "none"

Sells == ExitRule \notin {"none", "unlisted_holding"}

\* What the tick buys by, given who proposes: the proof, or else the DCA leg
\* into a core ETF, once a day.  A name sold in this tick is no candidate, and the
\* Constitution refuses one whose whitelist row is not clear.
Bought(proposers) ==
    CASE Sells \/ proposers = {} \/ standing # "compliant" -> "none"
      [] ~Sells /\ proposers # {} /\ standing = "compliant" /\ TradeAllowed -> "edge"
      [] ~Sells /\ "core_dca" \in proposers /\ standing = "compliant" /\ boughtOn # day /\ ~TradeAllowed -> "dca"
      [] OTHER -> "none"

Tick ==
    /\ pos.qty < MaxLots
    /\ LET by == Proposers
           leg == Bought(by)
           kept == IF Sells THEN Sell(pos) ELSE pos
       IN  /\ pos' = IF leg = "none" THEN kept ELSE Buy(kept)
           /\ boughtOn' = IF leg = "none" THEN boughtOn ELSE day
           /\ deal' = [sold |-> ExitRule, bought |-> leg, by |-> by]
    /\ UNCHANGED <<stress, inputs, closes, current, sharia, day, screens>>

\* The world between two ticks: a day with or without a bar, a screening, a macro release.
NewDay ==
    /\ day < MaxDays /\ day' = day + 1 /\ deal' = NoDeal
    /\ \/ \E p \in Prices : closes' = Append(closes, p) /\ current' = TRUE
       \/ current' = FALSE /\ UNCHANGED closes
    /\ UNCHANGED <<stress, inputs, sharia, book, screens>>

\* A screening or a founder's act: it may move the row, the verdict or both.
Screen(s, v) ==
    /\ screens < MaxScreens /\ <<s, v>> # sharia
    /\ standing' = s /\ verdict' = v /\ screens' = screens + 1 /\ deal' = NoDeal
    /\ UNCHANGED <<stress, inputs, closes, current, day, book>>

Release(s) ==
    /\ stress' = IF s \in stress THEN stress \ {s} ELSE stress \cup {s}
    /\ \A e \in Exclusive : ~(e \subseteq stress')
    /\ deal' = NoDeal
    /\ UNCHANGED <<inputs, closes, current, sharia, day, book, screens>>

RulesNext ==
    \/ Tick \/ NewDay
    \/ \E s \in {"compliant", "doubtful", "frozen", "unlisted"}, v \in {"none", "pass", "doubtful"} : Screen(s, v)
    \/ \E s \in Signals : Release(s)

RulesSpec == RulesInit /\ [][RulesNext]_ruleVars

-----------------------------------------------------------------------------
\* After a tick nothing that may be sold is held past its stop, its target or
\* its time, and nothing whose standing is in doubt is held at all: whatever the
\* tick bought, sold and bought again, each rule counts from the lots and the
\* round trip it should.
NothingOutstays ==
    deal # NoDeal /\ pos.qty > 0 /\ closes # <<>> /\ standing # "unlisted" =>
        /\ standing = "compliant" /\ day - pos.opened < MaxHold
        /\ 100 * LastClose * pos.qty \in (92 * pos.cost + 1)..(115 * pos.cost - 1)

\* A buy on proof had it: at least half of enough past windows beat the
\* benchmark by the margin (raised for every further signal tried), at least
\* half of the newest ones (the quarter, or the sample, that the decay test takes)
\* kept half of that gain, and no window lost a quarter unless the position is small.
BuysAreBacked ==
    deal.bought = "edge" /\ terms.mode = "enforcing" =>
        LET rs == ForwardReturns
            newest == DecayWindow(Len(rs))
            beat == {i \in DOMAIN rs : rs[i] - bench >= ExcessBar}
            kept == {i \in 0..newest - 1 : 4 * rs[Len(rs) - i] >= Median2(rs)}
            lost == {i \in DOMAIN rs : rs[i] < WorstFloor}
        IN  /\ Len(rs) >= MinWindows /\ 2 * Cardinality(beat) >= Len(rs)
            /\ Median2(rs) > 0 => 2 * Cardinality(kept) >= newest
            /\ terms.small \/ lost = {}

\* One more sign of fear never makes a strategy speak that was silent: votes,
\* ties and the strategies' regime lists together only ever step aside.  (A
\* drifting peg is not such a sign: it also votes for a regime of a strong dollar.)
FearNeverBuysMore ==
    [][\A s \in {"curve_inverted", "hy_wide", "vix_high", "unemployment_high", "gpr_high"} \ stress :
           stress' = stress \cup {s} => Willing(stress') \subseteq Willing(stress)]_stress
=============================================================================
