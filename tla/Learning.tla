------------------------------ MODULE Learning ------------------------------
(***************************************************************************)
(* Measure and Learn, the back half of a tick: what was bought is written  *)
(* down as an open decision, a decision whose position has gone flat is    *)
(* resolved, a round trip's result is added to the base rates of the       *)
(* strategies behind it, and a strategy that falls behind what it declares *)
(* is proposed for cooldown.  Every read and write is a connection of its  *)
(* own, on two databases, so ticks that overlap and ticks that stop half   *)
(* way are seen at each of them.                                           *)
(*                                                                         *)
(* Rates are in units of 1/Scale.  Realised profit is a small integer:     *)
(* what the code asks of it is its sign, since a baseline noted at a buy.  *)
(* A sell realises part of it and may leave some of the position.          *)
(***************************************************************************)
EXTENDS Integers, Sequences, FiniteSets, FiniteSetsExt, Functions

CONSTANTS
    Ticks, Symbols, Strategies,
    Scale, Declared,        \* the rate a strategy's metadata declares
    MinSample, Gap,         \* MIN_SAMPLE and DEFAULT_GAP of the anomaly detector
    MaxRuns, MaxTrades,     \* bounds on behaviours
    MaxUpsets,              \* bound on fills by hand and learning stages that raise
    MaxProfit               \* bound on what is realised of a name, either way

ASSUME LearningConstants ==
    /\ IsFiniteSet(Ticks)
    /\ Scale \in Nat \ {0} /\ Declared \in 0..Scale /\ Gap \in 1..Scale
    /\ {MinSample, MaxRuns, MaxTrades, MaxUpsets, MaxProfit} \subseteq Nat

VARIABLES
    held, realized,     \* positions: open or flat, cumulative realised profit
    decisions,          \* learning_ledger: a sequence, its ids are its indices
    rates,              \* strategy_base_rates
    proposals,          \* learning_proposals
    pc, work,           \* where each tick is and the local variables it holds
    trip, since,        \* what really happened: strategies of the open trip, profit at its first buy,
    lowered,            \* whether it was bought into again below that;
    ended, scaled,      \* results of the trips that ended, how many of them had been lowered
    overlap,            \* two were at work at once, ticks or the founder
    blurred,            \* a trade went unrecorded, a tally was lost, trips were merged
    runs, upsets

portfolio == <<held, realized, trip, since, lowered, ended, scaled>>
learning == <<decisions, rates, proposals>>
learningVars == <<portfolio, learning, pc, work, overlap, blurred, runs, upsets>>

NoTally == [s \in Strategies |-> [wins |-> 0, losses |-> 0, evens |-> 0]]
NoRate == [rate |-> Declared, n |-> 0, wins |-> 0, losses |-> 0]
NoWork == [bought |-> <<>>, sold |-> {}, sid |-> "none", base |-> 0, open |-> {},
           todo |-> {}, tally |-> NoTally, cur |-> NoRate]

LearningInit ==
    /\ held = [y \in Symbols |-> FALSE] /\ realized = [y \in Symbols |-> 0]
    /\ decisions = <<>> /\ proposals = {}
    /\ rates = [s \in Strategies |-> NoRate]
    /\ pc = [t \in Ticks |-> "idle"] /\ work = [t \in Ticks |-> NoWork]
    /\ trip = [y \in Symbols |-> {}] /\ since = [y \in Symbols |-> 0] /\ lowered = [y \in Symbols |-> FALSE]
    /\ ended = NoTally /\ scaled = [s \in Strategies |-> 0]
    /\ overlap = FALSE /\ blurred = FALSE /\ runs = 0 /\ upsets = 0

Goto(t, place, w) == pc' = [pc EXCEPT ![t] = place] /\ work' = [work EXCEPT ![t] = w]

OpenOf(y) == {i \in DOMAIN decisions : decisions[i].sym = y /\ decisions[i].outcome = "open"}

(***************************************************************************)
(* The tick's own trading, one fill a step, and the fills the founder      *)
(* records by hand, of either side.                                        *)
(***************************************************************************)
Upset == upsets < MaxUpsets /\ upsets' = upsets + 1

Busy == \E u \in Ticks : pc[u] # "idle"

Begin(t) ==
    /\ pc[t] = "idle" /\ runs < MaxRuns
    /\ Goto(t, "trade", NoWork)
    /\ runs' = runs + 1
    /\ overlap' = (overlap \/ Busy)
    /\ UNCHANGED <<portfolio, learning, blurred, upsets>>

Counted(tally, ss, pnl) ==
    [s \in Strategies |->
        IF s \in ss /\ pnl > 0 THEN [tally[s] EXCEPT !.wins = @ + 1]
        ELSE IF s \in ss /\ pnl < 0 THEN [tally[s] EXCEPT !.losses = @ + 1]
        ELSE IF s \in ss THEN [tally[s] EXCEPT !.evens = @ + 1]
        ELSE tally[s]]

\* A fill of the sell side realises its share; the position stays open as long as anything is left.
Realise(y, pnl) ==
    /\ held[y] /\ realized[y] + pnl \in -MaxProfit..MaxProfit
    /\ realized' = [realized EXCEPT ![y] = @ + pnl]

PartSold(y, pnl) ==
    /\ Realise(y, pnl)
    /\ UNCHANGED <<held, trip, since, lowered, ended, scaled>>

GoneFlat(y, pnl) ==
    /\ Realise(y, pnl)
    /\ held' = [held EXCEPT ![y] = FALSE]
    /\ trip' = [trip EXCEPT ![y] = {}]
    /\ since' = [since EXCEPT ![y] = 0] /\ lowered' = [lowered EXCEPT ![y] = FALSE]
    /\ ended' = Counted(ended, trip[y], realized[y] + pnl - since[y])
    /\ scaled' = [s \in Strategies |-> scaled[s] + IF lowered[y] /\ s \in trip[y] THEN 1 ELSE 0]

Sold(y, pnl) == PartSold(y, pnl) \/ GoneFlat(y, pnl)

\* An exit means to close, but the broker may fill a part of it only.
TickExits(t, y, pnl) ==
    /\ pc[t] = "trade" /\ work[t].bought = <<>>
    /\ Sold(y, pnl)
    /\ Goto(t, "trade", [work[t] EXCEPT !.sold = @ \cup {y}])
    /\ UNCHANGED <<learning, overlap, blurred, runs, upsets>>

\* record_fill: the founder sells any quantity, or buys what no strategy asked for.
ManualSells(y, pnl) ==
    /\ Sold(y, pnl) /\ Upset
    /\ overlap' = (overlap \/ Busy)
    /\ UNCHANGED <<learning, pc, work, blurred, runs>>

\* A trip that begins before the last one is resolved is one with it in the resolver's eyes.
Merges(y) == ~held[y] /\ OpenOf(y) # {}

ManualBuys(y) ==
    /\ held' = [held EXCEPT ![y] = TRUE] /\ Upset
    /\ overlap' = (overlap \/ Busy)
    /\ blurred' = (blurred \/ Merges(y))
    /\ UNCHANGED <<realized, trip, since, lowered, ended, scaled, learning, pc, work, runs>>

TickBuys(t, y, ss) ==
    /\ pc[t] = "trade" /\ y \notin work[t].sold
    /\ \A i \in DOMAIN work[t].bought : work[t].bought[i].sym # y
    /\ held' = [held EXCEPT ![y] = TRUE]
    /\ trip' = [trip EXCEPT ![y] = @ \cup ss]
    /\ since' = [since EXCEPT ![y] = IF trip[y] = {} THEN realized[y] ELSE @]
    /\ lowered' = [lowered EXCEPT ![y] = @ \/ (trip[y] # {} /\ realized[y] < since[y])]
    /\ blurred' = (blurred \/ Merges(y))
    /\ Goto(t, "trade", [work[t] EXCEPT !.bought = Append(@, [sym |-> y, strats |-> ss])])
    /\ UNCHANGED <<realized, ended, scaled, learning, overlap, runs, upsets>>

\* Halted, an exit refused, an exception: the run ends and learns nothing.
EndUnlearned(t) ==
    /\ pc[t] = "trade"
    /\ Goto(t, "idle", NoWork)
    /\ blurred' = (blurred \/ work[t].bought # <<>>)
    /\ UNCHANGED <<portfolio, learning, overlap, runs, upsets>>

\* What the run has bought is written down trade by trade; then it looks back.
Recording(t) == pc[t] \in {"trade", "record"}

(***************************************************************************)
(* record_trade_decision: the position is read on one connection, the      *)
(* decision written on another.                                            *)
(***************************************************************************)
ReadBase(t) ==
    /\ Recording(t) /\ work[t].bought # <<>>
    /\ Goto(t, "insert", [work[t] EXCEPT !.sold = {},
                             !.base = realized[Head(work[t].bought).sym]])
    /\ UNCHANGED <<portfolio, learning, overlap, blurred, runs, upsets>>

RecordDecision(t) ==
    LET b == Head(work[t].bought) IN
    /\ pc[t] = "insert"
    /\ decisions' = Append(decisions, [sym |-> b.sym, strats |-> b.strats,
                                       base |-> work[t].base, outcome |-> "open"])
    /\ Goto(t, "record", [work[t] EXCEPT !.bought = Tail(@), !.base = 0])
    /\ UNCHANGED <<portfolio, rates, proposals, overlap, blurred, runs, upsets>>

(***************************************************************************)
(* resolve_and_learn: read the open decisions, look at the position of     *)
(* each symbol, close every decision of one that is flat.                  *)
(***************************************************************************)
ReadOpen(t) ==
    /\ Recording(t) /\ work[t].bought = <<>>
    /\ Goto(t, "resolve", [work[t] EXCEPT !.sold = {},
                !.open = {i \in DOMAIN decisions : decisions[i].outcome = "open"}])
    /\ UNCHANGED <<portfolio, learning, overlap, blurred, runs, upsets>>

TripBase(ids) == Min({decisions[i].base : i \in ids})

\* (Mutant: a close that moved nothing counts as lost.)
TallyEven(tally, ids, pnl) ==
    Counted(tally, UNION {decisions[i].strats : i \in ids}, IF pnl > 0 THEN 1 ELSE -1)

\* One result for each strategy behind the symbol's decisions, however many there
\* are; a close that moved nothing scores nothing.
Tally(tally, ids, pnl) == Counted(tally, UNION {decisions[i].strats : i \in ids}, pnl)

\* Only a symbol whose position is flat now is resolved.
IsClosed(y) == ~held[y]

ReadPosition(t) ==
    LET y == decisions[Min(work[t].open)].sym
        ids == {i \in work[t].open : decisions[i].sym = y}
        pnl == realized[y] - TripBase(ids)
        w == [work[t] EXCEPT !.open = @ \ ids]
    IN  /\ pc[t] = "resolve" /\ work[t].open # {}
        /\ IF IsClosed(y)
           THEN Goto(t, "outcome", [w EXCEPT !.todo = ids, !.tally = Tally(@, ids, pnl)])
           ELSE Goto(t, "resolve", w)
        /\ UNCHANGED <<portfolio, learning, overlap, blurred, runs, upsets>>

RecordOutcome(t) ==
    LET i == Min(work[t].todo)
        left == work[t].todo \ {i}
    IN  /\ pc[t] = "outcome"
        /\ decisions' = [decisions EXCEPT ![i].outcome = "closed"]
        /\ Goto(t, IF left = {} THEN "resolve" ELSE "outcome", [work[t] EXCEPT !.todo = left])
        /\ UNCHANGED <<portfolio, rates, proposals, overlap, blurred, runs, upsets>>

(***************************************************************************)
(* The L1 update: read the row, weigh it with what was tallied, write it   *)
(* back; then look for an anomaly and, if there is one, propose.           *)
(***************************************************************************)
Tallied(t) == {s \in Strategies : work[t].tally[s].wins + work[t].tally[s].losses > 0}

Rounded(num, den) == (2 * num + den) \div (2 * den)
UpdateBaseRateOverN(cur, won, lost) ==
    Rounded(cur.rate * (cur.n + won + lost) + Scale * won, cur.n + 2 * (won + lost))
UpdateBaseRate(cur, won, lost) ==
    Rounded(cur.rate * cur.n + Scale * won, cur.n + won + lost)

DetectUnderperformance(row) ==
    row.n >= MinSample /\ Declared - Rounded(Scale * row.wins, row.n) >= Gap

ReadRate(t, s) ==
    /\ pc[t] = "resolve" /\ work[t].open = {} /\ s \in Tallied(t)
    /\ Goto(t, "write", [work[t] EXCEPT !.sid = s, !.cur = rates[s]])
    /\ UNCHANGED <<portfolio, learning, overlap, blurred, runs, upsets>>

WriteRate(t) ==
    LET s == work[t].sid
        cur == work[t].cur
        new == work[t].tally[s]
        row == [rate |-> UpdateBaseRate(cur, new.wins, new.losses),
                n |-> cur.n + new.wins + new.losses,
                wins |-> cur.wins + new.wins, losses |-> cur.losses + new.losses]
        w == [work[t] EXCEPT !.tally[s] = NoTally[s], !.cur = row]
    IN  /\ pc[t] = "write"
        /\ rates' = [rates EXCEPT ![s] = row]
        /\ IF DetectUnderperformance(row)
           THEN Goto(t, "propose", w)
           ELSE Goto(t, "resolve", [w EXCEPT !.sid = "none", !.cur = NoRate])
        /\ UNCHANGED <<portfolio, decisions, proposals, overlap, blurred, runs, upsets>>

ProposeCooldown(t) ==
    /\ pc[t] = "propose"
    /\ proposals' = proposals \cup {[strategy |-> work[t].sid, n |-> work[t].cur.n, wins |-> work[t].cur.wins]}
    /\ Goto(t, "resolve", [work[t] EXCEPT !.sid = "none", !.cur = NoRate])
    /\ UNCHANGED <<portfolio, decisions, rates, overlap, blurred, runs, upsets>>

EndRun(t) ==
    /\ pc[t] = "resolve" /\ work[t].open = {} /\ Tallied(t) = {}
    /\ Goto(t, "idle", NoWork)
    /\ UNCHANGED <<portfolio, learning, overlap, blurred, runs, upsets>>

\* The learning stage raises (a busy database) or the process dies: what was
\* written stays, what was tallied is gone.
Abandon(t) ==
    /\ pc[t] \notin {"idle", "trade"} /\ Upset
    /\ Goto(t, "idle", NoWork)
    /\ blurred' = TRUE
    /\ UNCHANGED <<portfolio, learning, overlap, runs>>

LearnStep(t) ==
    \/ ReadBase(t) \/ RecordDecision(t) \/ ReadOpen(t) \/ ReadPosition(t) \/ RecordOutcome(t)
    \/ (\E s \in Strategies : ReadRate(t, s)) \/ WriteRate(t) \/ ProposeCooldown(t) \/ EndRun(t)

\* Trades written down or about to be: what MaxTrades bounds.
Trades == Len(decisions) + FoldSet(LAMBDA t, n : n + Len(work[t].bought), 0, Ticks)

LearningNext ==
    \/ \E t \in Ticks :
        \/ Begin(t) \/ EndUnlearned(t) \/ LearnStep(t) \/ Abandon(t)
        \/ \E y \in Symbols, pnl \in -1..1 : TickExits(t, y, pnl)
        \/ \E y \in Symbols, ss \in (SUBSET Strategies) \ {{}} : Trades < MaxTrades /\ TickBuys(t, y, ss)
    \/ \E y \in Symbols : ManualBuys(y) \/ \E pnl \in -1..1 : ManualSells(y, pnl)

LearningSpec == LearningInit /\ [][LearningNext]_learningVars

-----------------------------------------------------------------------------
Outcomes(s) == ended[s].wins + ended[s].losses + ended[s].evens
Resolved(s) == {i \in DOMAIN decisions : s \in decisions[i].strats /\ decisions[i].outcome = "closed"}

\* Whatever races on a row of strategy_base_rates, the row it leaves is one history
\* of wins and losses: its rate is its own hit rate, up to the rounding of each update.
RateIsHitRate ==
    \A s \in Strategies :
        LET r == rates[s]
            off == r.rate * r.n - Scale * r.wins
        IN  /\ r.n = r.wins + r.losses
            /\ 4 * (IF off < 0 THEN -off ELSE off) <= r.n * (r.n + 1)

\* measure.py's "one outcome per economic close": ticks that do not overlap never count
\* more outcomes than closes, through crashes, re-entries and lost records; ticks that
\* do overlap count a decision once each at the most.
AtMostOncePerClose ==
    \A s \in Strategies :
        rates[s].n <= IF overlap THEN Cardinality(Ticks) * Cardinality(Resolved(s)) ELSE Outcomes(s)

\* As long as ticks do not overlap, record what they buy, end what they tally and do not buy a
\* name again before its close is resolved, every round trip is counted exactly once, with
\* its own sign, as soon as the resolver has been over it - through partial sells, buys into
\* an open trip and the founder's fills - but for one kind of trip: of one that was bought
\* into below a loss it had realised, the lowest baseline forgets that loss, and a trip that
\* lost may count as won.  No trip that won is ever counted as lost.
Quiet == (\A t \in Ticks : pc[t] = "idle") /\ (\A y \in Symbols : held[y] \/ OpenOf(y) = {})

EveryCloseCounts ==
    ~overlap /\ ~blurred /\ Quiet =>
        \A s \in Strategies :
            /\ ended[s].wins <= rates[s].wins /\ rates[s].wins <= ended[s].wins + scaled[s]
            /\ rates[s].losses <= ended[s].losses /\ ended[s].losses <= rates[s].losses + scaled[s]

\* measure.py's "win/loss is the sign of the ROUND-TRIP P&L": of trips that were all recorded
\* and resolved one by one, what is counted is what they won and lost.  (False of the code.)
SignIsTheTrips ==
    ~overlap /\ ~blurred /\ Quiet =>
        \A s \in Strategies : rates[s].wins = ended[s].wins /\ rates[s].losses = ended[s].losses

\* A proposal to cool a strategy down rests on as many round trips that really lost.
ProposalsAreEarned ==
    ~overlap /\ ~blurred => \A p \in proposals : ended[p.strategy].losses >= p.n - p.wins

\* The three together: what overlapping ticks, crashes and lost records leave in a row,
\* and in a proposal made of it, is a history that claims no more than happened.
RatesAreHonest == RateIsHitRate /\ AtMostOncePerClose /\ ProposalsAreEarned
=============================================================================
