---------------------------- MODULE GovernedTick ----------------------------
(***************************************************************************)
(* The governed trading tick: loop/jobs.py run_trading_tick, with the code *)
(* it drives - loop/driver.py run_strategy_tick, loop/assembled.py         *)
(* run_exits, run_tick and run_dca, capital/allocator.py,                  *)
(* guardrail/constitution.py, capital/budget_kernel.py - and the people    *)
(* and jobs around it: the kill switch (ops/kill_switch.py), the whitelist *)
(* freeze (sharia/whitelist.py), the approvals (governance/approval.py)    *)
(* and the weekly kill-switch self-test (ops/kill_switch_test.py).         *)
(*                                                                         *)
(* A tick works on a PortfolioState it read at its start, in several       *)
(* reads; the flag, the approvals and the books are shared and move        *)
(* meanwhile, and a second tick may run beside it (the command poller's    *)
(* run_tick during the scheduled one).  A step of a tick is the stretch    *)
(* from one shared read or write to the next; local work joins the read    *)
(* before it, and so does the flag, the approval or the price that is read *)
(* right after it.                                                         *)
(*                                                                         *)
(* Fills are atomic here: Books.tla shows that they are.  Money is whole   *)
(* dollars and shares are whole, so the instances take closes that divide  *)
(* the values traded; every symbol is on the whitelist and has a price.    *)
(***************************************************************************)
EXTENDS Integers, FiniteSets, FiniteSetsExt

CONSTANTS Ticks,          \* the processes that may run a tick
          Symbols, NoSymbol,
          Core,           \* the core_dca targets
          Notional,       \* notional_per_trade
          Prices, OpeningCash,
          PositionPct, SectorPct, BufferPct,   \* limits.yaml, in percent
          SmallFund,      \* up to this fund no cash buffer is asked for
          MaxOrdersPerDay,
          MaxCandidates,  \* the driver's cut of the ranked candidates
          Phase,          \* 0: paper; from 1 on every fill needs an approval
          SelfTest,       \* whether the weekly self-test is scheduled
          MaxRuns,        \* bound: ticks begun in one behaviour
          MaxMoves        \* bound: moves of the people and jobs around the tick

ASSUME TickConstants ==
    /\ IsFiniteSet(Ticks) /\ IsFiniteSet(Symbols) /\ NoSymbol \notin Symbols /\ Core \subseteq Symbols
    /\ Notional \in Nat \ {0} /\ Prices \subseteq Nat \ {0}
    /\ \A p \in Prices : Notional % p = 0
    /\ OpeningCash \in Nat /\ SmallFund \in Nat
    /\ {PositionPct, SectorPct, BufferPct} \subseteq 0..100
    /\ MaxOrdersPerDay \in Nat \ {0} /\ MaxCandidates \in Nat \ {0}
    /\ Phase \in Nat /\ SelfTest \in BOOLEAN
    /\ MaxRuns \in Nat /\ MaxMoves \in Nat

VARIABLES
    cash,       \* the balance of the ledger's last row
    shares,     \* shares[s]: the quantity held
    value,      \* value[s]: the position's market_value, at its last fill's price
    price,      \* price[s]: the last close
    open,       \* bound: whether closes come in during this behaviour
    frozen,     \* the frozen names of the whitelist
    halted,     \* the HALT flag
    approved,   \* the names whose latest approval row says approved
    today,      \* the names bought within the DCA cadence window
    pc,         \* pc[t]: what tick process t does next
    tick,       \* tick[t]: the local state of its run
    outcome,    \* outcome[t]: its runs row
    runs,       \* ticks begun
    selfTest    \* where the weekly self-test is

\* What only the properties look at.
VARIABLES
    word,       \* the founder's last word on the kill switch
    late,       \* fills since the flag was last raised
    uses,       \* uses[s]: fills of s since its approval last changed
    strays,     \* strays[s]: buys of s since it was frozen
    orders,     \* buys since the day began
    dcas,       \* dcas[s]: DCA fills of s since the day began
    filled,     \* filled[t]: whether the run of t has filled anything
    steady,     \* the ticks since whose start no close came in
    moves       \* moves made

book == <<cash, shares, value>>
world == <<price, open, frozen, halted, approved>>
day == <<today, orders, dcas>>   \* what a new day clears
seen == <<late, uses, strays, orders, dcas, filled, steady>>
vars == <<book, world, day, pc, tick, outcome, runs, selfTest, word, late, uses,
          strays, filled, steady, moves>>

----------------------------------------------------------------------------
Zero == [s \in Symbols |-> 0]

\* The PortfolioState of a run, what is left to propose, and what it has done.
Runs == [cash : Int, worth : [Symbols -> Nat], frozen : SUBSET Symbols,
         marks : [Symbols -> Nat],    \* qty x close of the positions open at the start
         opening : Int,               \* the fund before it was marked to market
         spent : Nat,                 \* BudgetState.spent_today, new in every run
         leg : {"exit", "trader", "dca"},
         todo : SUBSET Symbols, edge : SUBSET Symbols, core : SUBSET Symbols,
         now : Symbols \cup {NoSymbol},
         sold : SUBSET Symbols, bought : SUBSET Symbols,
         blocked : SUBSET Symbols,    \* exits the Constitution refused
         refused : BOOLEAN,           \* the broker refused an exit
         halted : BOOLEAN]            \* TickResult.halted

NoRun == [cash |-> 0, worth |-> Zero, frozen |-> {}, marks |-> Zero, opening |-> 0,
          spent |-> 0, leg |-> "exit", todo |-> {}, edge |-> {}, core |-> {},
          now |-> NoSymbol, sold |-> {}, bought |-> {}, blocked |-> {},
          refused |-> FALSE, halted |-> FALSE]

Larger(a, b) == IF a > b THEN a ELSE b

FundOf(money, worth) == money + MapThenSumSet(LAMBDA s : worth[s], Symbols)

Fund(k) == FundOf(k.cash, k.worth)

\* _budget_kernel: the caps it derives when limits.yaml has no budget block.  The
\* weekly and monthly caps are multiples of the daily one, and nothing is ever
\* added to what was spent in a week or a month, so they never decide.
MaxPerAction(k) == Larger(Notional, (k.opening * PositionPct) \div 100)
MaxDailySpend(k) == Larger(k.opening, 3 * MaxPerAction(k))

WithinBudget(k) ==
    /\ Notional <= MaxPerAction(k)
    /\ k.spent + Notional <= MaxDailySpend(k)

MinCashPct(fund) == IF fund <= SmallFund THEN 0 ELSE BufferPct

\* The position and the sector the order makes.  sector_values is never filled in:
\* a sector holds this order alone.
WithinConcentration(k, s) ==
    Fund(k) > 0 => /\ 100 * (k.worth[s] + Notional) <= PositionPct * Fund(k)
                   /\ 100 * Notional <= SectorPct * Fund(k)

WithinDeployableCash(k) ==
    100 * Notional <= 100 * k.cash - MinCashPct(Fund(k)) * Fund(k)

\* (Mutant: the kill switch is read where a leg starts, not in the gate.)
AllowsBuyHalted(k, s) ==
    /\ s \notin k.frozen
    /\ 0 < MaxOrdersPerDay
    /\ WithinConcentration(k, s)
    /\ WithinDeployableCash(k)

\* (Mutant: a frozen name may be increased.)
AllowsBuyFrozen(k, s) ==
    /\ ~halted
    /\ 0 < MaxOrdersPerDay
    /\ WithinConcentration(k, s)
    /\ WithinDeployableCash(k)

\* Constitution.evaluate on a buy of s with a complete thesis.  The state a tick
\* builds has no order count and no P&L: orders_today is 0 whatever was placed, and
\* the loss stops never bite.
AllowsBuy(k, s) ==
    /\ ~halted
    /\ s \notin k.frozen
    /\ 0 < MaxOrdersPerDay
    /\ WithinConcentration(k, s)
    /\ WithinDeployableCash(k)

\* Constitution.evaluate on a sell: a frozen name may go, a name that is not held
\* or is worth less than the order may not.
AllowsSell(k, s) == ~halted /\ 0 < k.worth[s] /\ k.marks[s] <= k.worth[s]

\* Allocator.request, then the Budget Kernel: an exit needs neither an edge nor a
\* budget, a DCA buy no edge.
Allows(k, s) ==
    CASE k.leg = "exit" -> AllowsSell(k, s)
      [] k.leg = "trader" -> s \in k.edge /\ AllowsBuy(k, s) /\ WithinBudget(k)
      [] k.leg = "dca" -> AllowsBuy(k, s) /\ WithinBudget(k)

----------------------------------------------------------------------------
\* The cash, and what earlier days left: one trade of each name that is held, at the
\* close of its day, and in a live phase the founder's approvals.
Start ==
    /\ cash = OpeningCash
    /\ price \in [Symbols -> Prices] /\ open \in BOOLEAN
    /\ open => \E p, q \in Prices : p # q
    /\ \E held \in SUBSET Symbols : \E at \in [held -> Prices] :
          /\ shares = [s \in Symbols |-> IF s \in held THEN Notional \div at[s] ELSE 0]
          /\ value = [s \in Symbols |-> IF s \in held THEN Notional ELSE 0]
    /\ approved = IF Phase >= 1 THEN Symbols ELSE {}
    /\ frozen = {} /\ halted = FALSE /\ today = {}
    /\ pc = [t \in Ticks |-> "idle"]
    /\ tick = [t \in Ticks |-> NoRun]
    /\ outcome = [t \in Ticks |-> "none"]
    /\ selfTest = "off" /\ word = "run"
    /\ late = 0 /\ uses = Zero /\ strays = Zero /\ orders = 0 /\ dcas = Zero
    /\ filled = [t \in Ticks |-> FALSE] /\ steady = {}

Init == Start /\ runs = 0 /\ moves = 0

\* Tick process t goes to `next' with its local state k.
Goto(t, next, k) ==
    /\ pc' = [pc EXCEPT ![t] = next]
    /\ tick' = [tick EXCEPT ![t] = k]

\* All a local step leaves alone.
Local == UNCHANGED <<book, world, today, runs, selfTest, word, seen, moves>>

----------------------------------------------------------------------------
\* One tick.

Begin(t) ==
    /\ pc[t] = "idle" /\ runs < MaxRuns
    /\ Goto(t, "cash", NoRun)
    /\ runs' = runs + 1
    /\ outcome' = [outcome EXCEPT ![t] = "none"]
    /\ filled' = [filled EXCEPT ![t] = FALSE]
    /\ steady' = steady \cup {t}
    /\ UNCHANGED <<book, world, selfTest, word, late, uses, strays, moves, day>>

\* _build_portfolio_state reads the cash on one connection ...
ReadCash(t) ==
    /\ pc[t] = "cash"
    /\ Goto(t, "positions", [tick[t] EXCEPT !.cash = cash])
    /\ Local /\ UNCHANGED outcome

\* (Mutant: after an exit the book is read again and not marked to market again.)
ReadPositionsUnmarked(t) ==
    /\ pc[t] = "positions"
    /\ LET again == tick[t].sold # {}
       IN  /\ Goto(t, IF again THEN "signals" ELSE "exits",
                   [tick[t] EXCEPT !.worth = value, !.frozen = frozen,
                        !.opening = IF again THEN @ ELSE FundOf(tick[t].cash, value)])
           /\ outcome' = IF again THEN outcome ELSE [outcome EXCEPT ![t] = "running"]
    /\ Local

\* ... and the positions and the whitelist on others.  The first time the Budget
\* Kernel is built and the runs row begun; after an exit, what is still open of the
\* positions marked before is marked again.
ReadPositions(t) ==
    /\ pc[t] = "positions"
    /\ LET k == tick[t]
           again == k.sold # {}
           marked == [s \in Symbols |-> IF value[s] > 0 /\ k.marks[s] > 0 THEN k.marks[s]
                                                                         ELSE value[s]]
       IN  /\ Goto(t, IF again THEN "signals" ELSE "exits",
                   [k EXCEPT !.worth = marked, !.frozen = frozen,
                        !.opening = IF again THEN @ ELSE FundOf(k.cash, marked)])
           /\ outcome' = IF again THEN outcome ELSE [outcome EXCEPT ![t] = "running"]
    /\ Local

\* The open positions at the last close, and the exits due by the rules: every
\* frozen name, and whatever a stop, a profit target or an age asks to close.
ExitsDue(k, held) == {due \in SUBSET held : k.frozen \cap held \subseteq due}

\* build_exit_proposals, _apply_mtm, and run_exits up to its loop.
BuildExits(t) ==
    /\ pc[t] = "exits"
    /\ LET k == tick[t]
           held == {s \in Symbols : shares[s] > 0}
           marks == [s \in Symbols |-> shares[s] * price[s]]
           worth == [s \in Symbols |-> IF s \in held /\ k.worth[s] > 0 THEN marks[s]
                                                                      ELSE k.worth[s]]
       IN  \E due \in ExitsDue(k, held) :
              Goto(t, "gate", [k EXCEPT !.marks = marks, !.worth = worth,
                                        !.todo = IF halted THEN {} ELSE due])
    /\ Local /\ UNCHANGED outcome

\* (Mutant: a withheld action is asked again, in this run.)
GateAgain(t) ==
    /\ pc[t] = "gate"
    /\ \E s \in tick[t].todo :
          LET ok == Allows(tick[t], s) /\ (Phase >= 1 => s \in approved)
          IN  Goto(t, IF ok THEN "fill" ELSE "gate",
                   [tick[t] EXCEPT !.todo = IF ok THEN @ \ {s} ELSE @,
                                   !.now = IF ok THEN s ELSE NoSymbol])
    /\ Local /\ UNCHANGED outcome

\* (Mutant: no human is asked.)
GateUnapproved(t) ==
    /\ pc[t] = "gate"
    /\ \E s \in tick[t].todo :
          Goto(t, IF Allows(tick[t], s) THEN "fill" ELSE "gate",
               [tick[t] EXCEPT !.todo = @ \ {s},
                               !.now = IF Allows(tick[t], s) THEN s ELSE NoSymbol])
    /\ Local /\ UNCHANGED outcome

\* The authority chain for the next proposal of the leg, up to the broker: Edge
\* Proof, Constitution, Budget Kernel and, from phase 1 on, the approval.
Gate(t) ==
    /\ pc[t] = "gate"
    /\ \E s \in tick[t].todo :
          LET k == tick[t]
              ok == Allows(k, s) /\ (Phase >= 1 => s \in approved)
          IN  Goto(t, IF ok THEN "fill" ELSE "gate",
                   [k EXCEPT !.todo = @ \ {s}, !.now = IF ok THEN s ELSE NoSymbol,
                             !.blocked = IF k.leg = "exit" /\ ~halted /\ ~Allows(k, s)
                                           THEN @ \cup {s} ELSE @])
    /\ Local /\ UNCHANGED outcome

----------------------------------------------------------------------------
\* broker.submit on the symbol in hand: it refuses, or the books move by one fill.

Refuse(t) ==
    /\ Goto(t, "gate", [tick[t] EXCEPT !.now = NoSymbol,
                             !.refused = @ \/ tick[t].leg = "exit"])
    /\ Local /\ UNCHANGED outcome

Remember(t, s) ==
    /\ late' = IF halted THEN late + 1 ELSE late
    /\ uses' = [uses EXCEPT ![s] = @ + 1]
    /\ filled' = [filled EXCEPT ![t] = TRUE]
    /\ UNCHANGED <<world, runs, selfTest, word, steady, moves, outcome>>

\* The value at the close it was proposed at is this many shares at today's: fewer
\* than are held if the close has risen since, more, and refused, if it has fallen.
Sell(t) ==
    LET k == tick[t]
        s == k.now
        qty == k.marks[s] \div price[s]
    IN  /\ qty <= shares[s]
        /\ Goto(t, "gate", [k EXCEPT !.now = NoSymbol, !.sold = @ \cup {s}])
        /\ cash' = cash + qty * price[s]
        /\ shares' = [shares EXCEPT ![s] = @ - qty]
        /\ value' = [value EXCEPT ![s] = (shares[s] - qty) * price[s]]
        /\ Remember(t, s)
        /\ UNCHANGED <<strays, day>>

\* The broker does not look at the cash.
Buy(t) ==
    LET k == tick[t]
        s == k.now
        held == shares[s] + Notional \div price[s]
    IN  /\ Goto(t, "gate", [k EXCEPT !.now = NoSymbol, !.bought = @ \cup {s},
                                     !.spent = @ + Notional])
        /\ cash' = cash - Notional
        /\ shares' = [shares EXCEPT ![s] = held]
        /\ value' = [value EXCEPT ![s] = held * price[s]]
        /\ today' = today \cup {s}
        /\ strays' = IF s \in frozen THEN [strays EXCEPT ![s] = @ + 1] ELSE strays
        /\ orders' = orders + 1
        /\ dcas' = IF k.leg = "dca" THEN [dcas EXCEPT ![s] = @ + 1] ELSE dcas
        /\ Remember(t, s)

Fill(t) ==
    /\ pc[t] = "fill"
    /\ \/ Refuse(t)
       \/ tick[t].leg = "exit" /\ Sell(t)
       \/ tick[t].leg # "exit" /\ Buy(t)

----------------------------------------------------------------------------
\* The end of a leg.

\* (Mutant: a refused exit does not stop the tick.)
EndExitsRegardless(t) ==
    /\ pc[t] = "gate" /\ tick[t].leg = "exit" /\ tick[t].todo = {}
    /\ Goto(t, IF tick[t].sold # {} THEN "cash" ELSE "signals", tick[t])
    /\ Local /\ UNCHANGED outcome

\* A refused exit grades the run `error'; exits that filled have the state rebuilt.
EndExits(t) ==
    /\ pc[t] = "gate" /\ tick[t].leg = "exit" /\ tick[t].todo = {}
    /\ Goto(t, CASE tick[t].refused -> "finish"
                 [] ~tick[t].refused /\ tick[t].sold # {} -> "cash"
                 [] OTHER -> "signals", tick[t])
    /\ Local /\ UNCHANGED outcome

\* A path that was taken has no fallback after it.
EndBuys(t) ==
    /\ pc[t] = "gate" /\ tick[t].leg # "exit" /\ tick[t].todo = {}
    /\ Goto(t, "finish", tick[t])
    /\ Local /\ UNCHANGED outcome

\* What the strategies may propose: any names, the MaxCandidates ranked first of
\* them, the ones among those that prove an edge, and the ones core_dca named.
Signals(names) ==
    {sig \in [ranked : SUBSET names, edge : SUBSET names, core : SUBSET (names \cap Core)] :
        /\ Cardinality(sig.ranked) <= MaxCandidates
        /\ sig.edge \subseteq sig.ranked
        /\ sig.core \subseteq sig.ranked \/ Cardinality(sig.ranked) = MaxCandidates}

\* The Opportunity Router takes the trader's path on cash and a proven edge, else
\* resolve_no_edge takes the core's on cash.
Route(t, sig) ==
    LET k == tick[t]
    IN  CASE k.cash > 0 /\ sig.edge # {} ->
               Goto(t, "gate", [k EXCEPT !.leg = "trader", !.todo = sig.ranked,
                                         !.edge = sig.edge])
          [] k.cash > 0 /\ sig.edge = {} -> Goto(t, "dca", [k EXCEPT !.core = sig.core])
          [] OTHER -> Goto(t, "finish", k)

\* (Mutant: the names exited in this tick are candidates again.)
RunTickChurns(t) ==
    /\ pc[t] = "signals"
    /\ \E sig \in Signals(Symbols) : Route(t, sig)
    /\ Local /\ UNCHANGED outcome

\* run_strategy_tick up to run_tick's loop: the kill switch, then the route.
RunTick(t) ==
    /\ pc[t] = "signals"
    /\ IF halted
         THEN Goto(t, "finish", [tick[t] EXCEPT !.halted = TRUE])
         ELSE \E sig \in Signals(Symbols \ tick[t].sold) : Route(t, sig)
    /\ Local /\ UNCHANGED outcome

\* (Mutant: no cadence.)
StartDcaAlways(t) ==
    /\ pc[t] = "dca"
    /\ Goto(t, "gate", [tick[t] EXCEPT !.leg = "dca",
                             !.todo = IF halted THEN {} ELSE tick[t].core])
    /\ Local /\ UNCHANGED outcome

\* The core names not bought within the cadence window, and run_dca up to its loop.
StartDca(t) ==
    /\ pc[t] = "dca"
    /\ Goto(t, "gate", [tick[t] EXCEPT !.leg = "dca",
                             !.todo = IF halted THEN {} ELSE tick[t].core \ today])
    /\ Local /\ UNCHANGED outcome

\* (Mutant: a run that took a path is complete, filled or not.)
GradeByPath(k) ==
    CASE k.refused -> "error"
      [] ~k.refused /\ k.halted -> "halted"
      [] OTHER -> IF k.leg = "trader" \/ k.bought \cup k.sold # {} THEN "complete"
                                                                 ELSE "no_action"

\* Only real fills make a run complete.
Grade(k) ==
    CASE k.refused -> "error"
      [] ~k.refused /\ k.halted -> "halted"
      [] OTHER -> IF k.bought \cup k.sold # {} THEN "complete" ELSE "no_action"

Finish(t) ==
    /\ pc[t] = "finish"
    /\ outcome' = [outcome EXCEPT ![t] = Grade(tick[t])]
    /\ Goto(t, "idle", NoRun)
    /\ Local

\* Anything in the governed body raises, but for the broker, whose exceptions are
\* caught: the run, if it was begun, is graded `error' and nothing is undone.
Raise(t) ==
    /\ pc[t] \notin {"idle", "fill"}
    /\ outcome' = [outcome EXCEPT ![t] = IF @ = "running" THEN "error" ELSE @]
    /\ Goto(t, "idle", NoRun)
    /\ Local

\* The process dies: the runs row stays `running'.
Crash(t) ==
    /\ pc[t] # "idle"
    /\ Goto(t, "idle", NoRun)
    /\ Local /\ UNCHANGED outcome

----------------------------------------------------------------------------
\* The people and the jobs around the tick.

Move ==
    /\ moves < MaxMoves
    /\ moves' = moves + 1
    /\ UNCHANGED <<book, pc, tick, outcome, runs, filled>>

Calm == UNCHANGED <<price, open, steady>>

Halt ==
    /\ ~halted \/ word = "run"
    /\ halted' = TRUE /\ word' = "halt"
    /\ late' = IF halted THEN late ELSE 0
    /\ Move /\ Calm
    /\ UNCHANGED <<frozen, approved, selfTest, uses, strays, day>>

Resume ==
    /\ halted \/ word = "halt"
    /\ halted' = FALSE /\ word' = "run" /\ late' = 0
    /\ Move /\ Calm
    /\ UNCHANGED <<frozen, approved, selfTest, uses, strays, day>>

\* A re-screen freezes a name, or clears it again.
Freeze(s) ==
    /\ s \notin frozen /\ frozen' = frozen \cup {s} /\ strays' = [strays EXCEPT ![s] = 0]
    /\ Move
    /\ Calm /\ UNCHANGED <<halted, approved, selfTest, word, late, uses, day>>

Unfreeze(s) ==
    /\ s \in frozen /\ frozen' = frozen \ {s}
    /\ Move
    /\ Calm /\ UNCHANGED <<halted, approved, selfTest, word, late, uses, strays, day>>

\* request_approval: the latest row of s is pending.
RequestApproval(s) ==
    /\ Phase >= 1 /\ s \in approved
    /\ approved' = approved \ {s} /\ uses' = [uses EXCEPT ![s] = 0]
    /\ Move
    /\ Calm /\ UNCHANGED <<frozen, halted, selfTest, word, late, strays, day>>

\* decide: the founder approves or vetoes s.
Decide(s) ==
    /\ Phase >= 1
    /\ \E yes \in {approved \cup {s}, approved \ {s}} : approved' = yes
    /\ uses' = [uses EXCEPT ![s] = 0]
    /\ Move
    /\ Calm /\ UNCHANGED <<frozen, halted, selfTest, word, late, strays, day>>

\* A new close: the data job is a process of its own.
NewClose(s, p) ==
    /\ open /\ p # price[s] /\ price' = [price EXCEPT ![s] = p]
    /\ steady' = {}
    /\ Move
    /\ UNCHANGED <<open, frozen, halted, approved, selfTest, word, late, uses, strays, day>>

NewDay ==
    /\ orders > 0
    /\ today' = {} /\ orders' = 0 /\ dcas' = Zero
    /\ Move
    /\ Calm /\ UNCHANGED <<frozen, halted, approved, selfTest, word, late, uses, strays>>

\* run_kill_switch_test: resume(); halt(); a loop run is refused; resume(); a loop
\* run of no-op stages completes.
TestStep(from, to, flag) ==
    /\ selfTest = from /\ selfTest' = to
    /\ halted' = flag /\ late' = IF flag /\ halted THEN late ELSE 0
    /\ Calm /\ UNCHANGED <<frozen, approved, word, uses, strays, day>>

Unmoved == UNCHANGED <<book, pc, tick, outcome, runs, filled, moves>>

TestStart == SelfTest /\ TestStep("off", "clean", FALSE) /\ Move
TestHalt == TestStep("clean", "halting", TRUE) /\ Unmoved
TestResume == TestStep("halting", "off", FALSE) /\ Unmoved

----------------------------------------------------------------------------
TickStep(t) ==
    \/ ReadCash(t) \/ ReadPositions(t) \/ BuildExits(t) \/ Gate(t) \/ Fill(t)
    \/ EndExits(t) \/ EndBuys(t) \/ RunTick(t) \/ StartDca(t) \/ Finish(t)

Founder ==
    \/ Halt \/ Resume
    \/ \E s \in Symbols : RequestApproval(s) \/ Decide(s)

Jobs ==
    \/ \E s \in Symbols : Freeze(s) \/ Unfreeze(s)
    \/ \E s \in Symbols, p \in Prices : NewClose(s, p)
    \/ NewDay \/ TestStart \/ TestHalt \/ TestResume

Next ==
    \/ \E t \in Ticks : Begin(t) \/ TickStep(t) \/ Raise(t) \/ Crash(t)
    \/ Founder
    \/ Jobs

Spec == Init /\ [][Next]_vars

\* A tick that was begun goes on: run_trading_tick waits for nobody.
FairSpec == Spec /\ \A t \in Ticks : WF_vars(TickStep(t))

----------------------------------------------------------------------------
\* Properties.

TypeOK ==
    /\ cash \in Int /\ shares \in [Symbols -> Nat] /\ value \in [Symbols -> Nat]
    /\ \A s \in Symbols : shares[s] > 0 <=> value[s] > 0
    /\ price \in [Symbols -> Prices] /\ open \in BOOLEAN
    /\ frozen \subseteq Symbols /\ approved \subseteq Symbols /\ today \subseteq Symbols
    /\ halted \in BOOLEAN
    /\ pc \in [Ticks -> {"idle", "cash", "positions", "exits", "gate", "fill", "signals",
                         "dca", "finish"}]
    /\ tick \in [Ticks -> Runs]
    /\ \A t \in Ticks : pc[t] = "fill" => tick[t].now \in Symbols
    /\ outcome \in [Ticks -> {"none", "running", "complete", "no_action", "halted",
                              "error"}]
    /\ runs \in 0..MaxRuns /\ moves \in 0..MaxMoves
    /\ selfTest \in {"off", "clean", "halting"} /\ word \in {"run", "halt"}
    /\ late \in Nat /\ uses \in [Symbols -> Nat] /\ strays \in [Symbols -> Nat]
    /\ orders \in Nat /\ dcas \in [Symbols -> Nat] /\ filled \in [Ticks -> BOOLEAN]
    /\ steady \subseteq Ticks

\* The kill switch: once the flag is up, a tick fills at most the one action whose
\* gate it had passed, however many it has left.
HaltStopsFills == halted => late <= Cardinality(Ticks)

\* A withdrawn approval: as many fills of the name can follow as there are ticks
\* that had just been told yes.
VetoStopsFills ==
    Phase >= 1 => \A s \in Symbols : s \notin approved => uses[s] <= Cardinality(Ticks)

\* A frozen name is close-only for every run that starts after the freeze; a run
\* already under way works on the whitelist it read and may still buy it once.
FreezeStopsBuys == \A s \in frozen : strays[s] <= Cardinality(Ticks)

\* Frozen or stopped out, a name that is held can always be sold by a tick that has
\* the book to itself: the marks the exits are sized by are the values the
\* Constitution compares them with.
ExitsNeverBlocked == \A t \in Ticks : tick[t].blocked = {}

\* What a tick sells it does not buy back in the same tick.
NoChurn == \A t \in Ticks : tick[t].sold \cap tick[t].bought = {}

\* After an exit the broker refused, the run adds no risk.
NoRiskOnBrokenExit == \A t \in Ticks : tick[t].refused => tick[t].bought = {}

\* A run that counts towards live readiness has filled something, and a run that
\* says it did nothing has filled nothing.
OutcomeIsHonest ==
    \A t \in Ticks : /\ outcome[t] = "complete" => filled[t]
                     /\ outcome[t] = "no_action" => ~filled[t]

\* The concentration limit holds of the books themselves after a buy, though it was
\* checked on a state read before the other buys and marked before the exits, as
\* long as no close came in since the run began.
PositionCapHolds ==
    \A t \in steady : \A s \in tick[t].bought :
        100 * shares[s] * price[s] <=
            PositionPct * FundOf(cash, [q \in Symbols |-> shares[q] * price[q]])

\* The cash of the state is not reduced between the buys of one tick, so a tick can
\* overdraw; by no more than all its buys but the first.
OverdraftBounded ==
    cash >= - Notional * (Larger(MaxCandidates, Cardinality(Core)) - 1)

\* What a tick decides on is old, and the limits hold of the books all the same: the
\* state is of its type, no exit of a held name is refused by the Constitution, no buy
\* passes the concentration limit, no leg overdraws by more than its buys but one.
LimitsHold == TypeOK /\ ExitsNeverBlocked /\ PositionCapHolds /\ OverdraftBounded

\* The core is bought at most once in the cadence window by each tick process,
\* however often it runs.
DcaOncePerWindow == \A s \in Symbols : dcas[s] <= Cardinality(Ticks)

\* A tick ends, graded or dead.
RunsEnd == \A t \in Ticks : pc[t] # "idle" ~> pc[t] = "idle"

\* "no actions will execute until a human resumes".
HaltStandsUntilResumed == word = "halt" => halted

----------------------------------------------------------------------------
\* Four more sentences of the sources and the docs.  The code keeps none of them; no
\* run checks them, and each fails as the README tells in section 4.

\* exits.py: "Full-position closes only".
ExitsCloseWhole == \A t \in Ticks : \A s \in tick[t].sold : shares[s] = 0

\* "live DCA still needs a human, every time": one approval, one trade.
OneApprovalPerTrade == Phase >= 1 => \A s \in Symbols : uses[s] <= 1

\* No leverage: the fund buys with cash it has.
CashCoversBuys == cash >= 0

\* "count of orders already placed today": the runaway-loop backstop.
OrdersPerDay == orders <= MaxOrdersPerDay

=============================================================================
