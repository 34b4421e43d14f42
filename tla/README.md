# The Camel in TLA+

A verification development for The Camel, the governed paper-trading operator in
this repository. Two things can ruin a fund that is run by a program: the books
stop agreeing with what was done, and something is done that a person or a limit
had forbidden. The modules here are about those two, statement by statement where
the code's own statement order is what matters.

- [1 The system](#1-the-system)
- [2 The modules](#2-the-modules)
- [3 The runs](#3-the-runs)
- [4 What the code does that its text does not say](#4-findings)
- [5 The proofs](#5-the-proofs)
- [6 What is not modelled](#6-what-is-not-modelled)
- [7 The plan](#7-the-plan)

## 1 The system

The Camel is a set of Python processes on one machine that share seven SQLite
databases and one flag file. There is no server: a scheduler starts the trading
tick, the daily and weekly jobs and the command poller; the founder starts things
by hand. So two processes may well be in the same code at the same time, and any
of them may die anywhere.

| component | state it keeps | operations | what is hard |
|---|---|---|---|
| Books (`broker/`, `ledger/`, `trader/portfolios/holdings.py`, `db/sqlite.py`) | `orders`, `ledger` (running balance, hash chain), `positions`, `portfolio_holdings` | `submit` of the last-close and the realistic broker, `record_fill`, `ensure_opening_balance` | writers race on one file; reads before the transaction go stale; a raise or a crash between two statements; retries of one intent |
| Governed tick (`loop/jobs.py`, `loop/driver.py`, `loop/assembled.py`, `capital/`, `guardrail/`, `trader/execution/exits.py`) | the `PortfolioState` and budget of one run; the `runs` row | exits, trader leg, core DCA leg, each through Edge Proof, Constitution, Budget, Approval, broker | decisions on a state read earlier; two ticks at once; the flag, a freeze or a veto in the middle; a refused exit; a raise after fills |
| Kill switch (`ops/kill_switch.py`, `ops/kill_switch_test.py`) | the HALT flag | halt, resume, weekly self-test | the self-test moves the flag under everybody |
| Approvals (`governance/approval.py`) | `approvals` rows | request, decide, look up | when a yes stops being one |
| Heartbeat (`loop/runner.py`, `loop/scheduler.py`, `loop/state.py`) | a row of `runs` | six steps, each saved; retry by the scheduler | a row that cannot be written; a step that raises; what counts as complete |
| Sharia governance (`sharia/`) | `whitelist`, `sharia_status`, `sanctions`, events | seed, add, freeze, unfreeze, quarterly re-screen, cross-check, sanctions refresh | two jobs and the founder on one row; status and freeze in two transactions; screens that disagree |
| Command poller (`ops/command_poller.py`, `web/app/api/command/route.ts`) | a remote `commands` table | insert, fetch, process, mark | processed and not marked: done again; overlapping pollers reorder |
| Opportunity Board (`loop/opportunity_board.py`, `loop/proposal_check.py`, `research/skeptic.py`) | `opportunity_proposals` | build, decide, prioritize | a new board while the founder decides on the old one; overlapping builds |
| Measure and Learn (`learning/`, `operator_os/learning_ledger.py`) | open decisions, base rates, proposals | record, resolve, update, propose | outcome recorded before the rate is written; lost updates; double counts |
| Research workforce (`research/`, `governance/desk_control.py`) | `desk_runs`, `research_evidence`, `desk_control`, a supervisor's quarantine | plain, DAG, supervised and evidence cycles; pause, resume | a run that raises after some of its notes; retries; a cap that sees part of the cost |
| Market data (`data/`) | `prices`, `macro_observations` | an ingestion pass of several feeds; freshness, quality, point-in-time reads | passes that break off; upserts that restate; what a replay may see |
| Strategies, edge, regime (`trader/`) | the strategy registry; no state in the rules | classify, propose, prove, exit; promote, demote | ties and boundaries of rules that were tuned apart |
| Operator OS (`operator_os/`) | state machine, task queue, op log | transitions, pause, kill, restart | pause while paused; the way to acting |
| Safety operations (`ops/`) | backups, heartbeat, weekly checks, readiness | readiness checks, backup, verify, restore | checks that cannot fail; copies of live databases |
| Entrepreneur arm (`entrepreneur/`) | a pipeline's stage | product gate, stages, launch | stage order |
| Reporting (`alerts/`, `dashboard/`, `web/`), tools (`founder_tools/`, `security/`) | none of their own | format, look up | - |

How they interact. A tick reads cash, positions and whitelist, proposes exits,
then buys, and each action that passes the gates becomes one `submit`, which is one
transaction on the books. Founder and jobs meet the tick only through shared
state: the flag file, the whitelist, the approvals, the prices. Nothing locks
anything between a gate and the fill behind it; the only lock in the system is
SQLite's write lock.

What makes each component correct, in a line. Books: they move by whole fills and
agree with each other. Tick: it does nothing that was forbidden when its gate was
passed, little more once it is forbidden, and its grade tells what it did. Sharia: a
name may be bought only on two sources or the founder's word. Poller: the founder's
words are done in his order, by nobody else, and end. Board: what is live is one build,
what is decided stays. Learning: a close counts once. Workforce: a failure stays where
it is, a meter claims no more than happened. Data and rules: a replay sees the past, a
gate sees the present, a rule counts from the right trade. Ladders and clocks: nothing
that leads to real money opens by itself.

## 2 The modules

| module | what it is | checked in |
|---|---|---|
| `AtomicBooks` | the promise: orders, ledger, positions and holdings move together, one fill at a time. No connection, no lock, no statement | `MCBooks` |
| `Books` | the same tables with the processes that write them, statement by statement, under SQLite's lock | `MCBooks` |
| `BooksProofs` | the theorems about `Books`, checked by TLAPS | - |
| `GovernedTick` | the trading tick, the people and jobs around it | `MCGovernedTick`, `MCTickAlone` |
| `TickProofs` | the theorems about `GovernedTick` | - |
| `OpportunityBoard` | board builds and the founder's decisions | `MCDecisions`, `MCCommandPoller` |
| `CommandPoller` | the command queue and its pollers; EXTENDS `OpportunityBoard`, on which its commands act | `MCCommandPoller` |
| `CommandQueue` | the promise of the queue: begun in the order sent, answered for only after a run, run again a bounded number of times. No poller, no page, no fault | `MCCommandPoller` |
| `PollerProofs` | the theorems about `OpportunityBoard` and `CommandPoller`, the board first, for what it does under the commands | - |
| `Workforce` | the research desks and the four kinds of cycle | `MCWorkforce` |
| `WorkforceProofs` | the theorems about `Workforce` | - |
| `ShariaScreen` | the screens and how their answers combine: operators only | `MCGovernance` |
| `ShariaGovernance` | the whitelist, its jobs and the founder; EXTENDS `ShariaScreen` | `MCGovernance` |
| `Autonomy` | the operator's states, the promotion ladder, the product pipeline | `MCGovernance` |
| `LoopRunner` | the heartbeat, the runs table, the readiness clock | `MCGovernance` |
| `Backup` | the weekly backup beside programs that write | `MCGovernance` |
| `GovernanceProofs` | the theorems about `ShariaScreen`, `ShariaGovernance`, `Autonomy`, `LoopRunner` and `Backup` | - |
| `MarketData` | ingestion passes and the reads that judge them | `MCDecisions` |
| `TradeRules` | regime, strategies, edge proof and exits over the life of one name | `MCDecisions` |
| `DecisionProofs` | the theorems about `MarketData` and `TradeRules` | - |
| `Learning` | decisions, outcomes, base rates | `MCDecisions` |
| `LearningProofs` | the theorems about `Learning` | - |
| `NumberLemmas` | least and greatest numbers, counting, finite sums: what the proofs share | - |

How they compose. `Books` and `GovernedTick` meet in one fact: a fill is atomic. `Books`
shows it (`PromiseKept`), `GovernedTick` uses it, its `Sell` and `Buy` being one step
each. `GovernedTick` in turn leaves open what is proposed and which exits are due;
`TradeRules` fills that in for one name and takes every proposal as filled.
`CommandPoller` and `OpportunityBoard` share the board. `Learning` takes the tick's
exits and buys and the founder's fills as steps and models what follows them. `MCGovernance` and
`MCDecisions` put modules together that share no variable: a variable `focus` says
which of them moves in a behaviour, so their states add up. Nothing is lost by that,
since no property speaks of two of them and no action of one reads or writes a variable
of another.

### Books

| TLA+ | code |
|---|---|
| `db` | the committed tables of `camel_portfolio.db` |
| `view`, `lock` | the open transaction and who holds the write lock: `db/sqlite.py connection()` |
| `pc[w]`, `call[w]` | the next statement and the arguments of the call writer `w` serves |
| `tail[w]` | the last row read by `append_entry` before an INSERT opened its transaction |
| `Submit`, `PreFlight`, `Snapshot`, `Quote` | `submit` up to its transaction; `Snapshot` is the realistic engine's |
| `InsertOrder`, `AppendEntry`, `ApplyFill`, `ApplyPortfolioFill`, `Commit` | its transaction |
| `RecordFill`, `CheckEmpty`, `ReadTail`, `InsertEntry` | `record_fill` and `ensure_opening_balance` |
| `Busy`, `Crash`, `Rollback` | busy timeout, process death, any exception |

Under Python's `sqlite3` a transaction opens at the first INSERT, not at a SELECT.
That is why a broker, whose first statement is an INSERT, reads the last ledger row
under the lock, and why `record_fill`, whose first statement is `append_entry`'s
SELECT, does not. A hash is modelled by the number of the row it identifies, since
all a hash is used for is whether it is the one of the row before. Quantities are
whole units, which makes the `1e-9` tolerances vanish; `ClampWindow` keeps the one
tolerance that is more than rounding, the full-close clamp.

### GovernedTick

| TLA+ | code |
|---|---|
| `cash`, `shares`, `value` | ledger balance, `positions.qty`, `positions.market_value` |
| `tick[t]` | the `PortfolioState`, the `BudgetState` and the local lists of one run |
| `pc[t]` | where `run_trading_tick` is; a step goes from one shared read or write to the next |
| `outcome[t]` | the `runs` row |
| `ReadCash`, `ReadPositions` | `_build_portfolio_state`: one connection each, so another tick's fill may fall between |
| `BuildExits` | `build_exit_proposals`, `_apply_mtm`, the flag at the top of `run_exits` |
| `Gate` | the chain for one proposal, of any leg: Edge Proof, `Constitution.evaluate`, `BudgetKernel.check`, `approval_fn` |
| `Fill` | `broker.submit`, refused or done |
| `RunTick`, `Route`, `StartDca` | the signals, `route`, `resolve_no_edge`, the DCA cadence |
| `EndExits`, `EndBuys`, `Finish`, `Raise`, `Crash` | the ends of a leg and of a run |
| `Halt`, `Resume`, `TestStart`, `TestHalt`, `TestResume` | the founder and the weekly self-test on the flag |
| `Freeze`, `Unfreeze`, `RequestApproval`, `Decide`, `NewClose`, `NewDay` | whitelist, approvals, data job, the cadence window |

`late`, `uses`, `strays`, `orders`, `dcas`, `filled` and `word` are only looked at by
properties. What the strategies propose is left open: any names in any ranking, any
of them with a proven edge. The exits that are due are any held names, the frozen
ones always among them. Closes may move at any moment: the ingest job is a process of
its own. Abstractions to know of: shares are whole, so the instances choose closes
that divide every value traded; an approval is per symbol, because the
actions a tick builds carry no `approval_id`; the flag and the approval of one gate,
and the book and its closes, are read in one step; every symbol is whitelisted and has a price; a broker may
refuse any fill.

### CommandPoller and OpportunityBoard

| TLA+ | code |
|---|---|
| `commands[c]` | a row of the remote table: the request, its status |
| `queue[p]` | the page a `poll_once` fetched, the current command first |
| `Enqueue` | `route.ts`: the types the web may insert, the signed-in address with them |
| `Fetch`, `Process`, `Mark`, `Remark`, `NextCommand` | `poll_once`, one HTTP call or one brain transaction each |
| `MarkFails`, `RemarkFails`, `PollerCrash` | an answer that is lost after or before the PATCH took effect, a death |
| `RequestApproval`, `Decide`, `Reply` | `governance/approval.py` and the reply of an approval channel |
| `StartBuild`, `Propose`, `Persist`, `AbandonBuild` | `build_board`: its reads, one connection each, and the one transaction that expires and inserts |
| `DecideProposal`, `PrioritizeProposal` | the guarded UPDATEs, which say whether they took |

### Workforce

`mode` is the cycle under way and `todo` the desks still to come; `Skip`, `RunUnknown`,
`RunPaused`, `StartDesk`, `WriteNote`, `Finish` and `Raise` are what `run_desk` can do
with the first of them. A run writes each note in a transaction of its own, so a raise
falls between two of them. `TopologicalOrder` is `topological_order`, ranks and
alphabetical order included. The desks of the roster differ in how many notes a run may find
(`Finds`) and in what they report (`Reports`); what a note says is left out. The quarantine is
a set of the supervisor object: `Crash` empties it, so `StoppedDesksStayStopped` speaks of one
supervisor's cycles, and what a document says beyond that is `QuarantineStands`, which is false (section 4).

### ShariaScreen and ShariaGovernance

`Screen` is AAOIFI's screen on a company's books, amounts over denominators that may be
missing, with the doubtful band below each limit. `Compact` is what `_to_aaoifi` makes of
the same books in the quarterly job: the market cap of the day for the average, no cash among the
receivables, a share of income over a revenue of 1.0, and a figure of its own for every optional
field that was not given (`given`). The adapter that fills the snapshot in is not in the
repository, so any of its fields may be missing. `Combine` and `ApplyAuthority` are the cross-check's. A job holds (`holds[j]`) the
name it has screened until its next transaction: `Evaluate`, `Persist`,
`FreezeInstrument` for the cross-check, `ScreenQuarterly`, `MarkDoubtful` for the
quarterly one, with a fetch that fails and a `Crash` between any two. `Turn` moves the
world: books, the second source, the local board, the sanctions list. `vouched` and
`dropped` are history: the founder's word on a name, a freeze that died with its job.

### Autonomy, LoopRunner, Backup

`Autonomy` has three objects side by side: `Transition`, `Pause`, `Kill`, `Restart` of
the operator; `Promote`, `Demote`, `SetStatus` of a strategy; `StartPipeline`, `Advance`
of a product. A refused call changes nothing, so refusals are guards. `LoopRunner` is
`run_once` step by step with the write after each, the rows ticks add, and
`check_live_readiness` as two reads. `Backup` has pages: a commit goes to a database's
log, the last connection to close copies the log into the file page by page, the job
copies the files page by page in between. `moment`, `atRest`, `committed`, `trail`,
`climb`, `passed` and `track` are history.

### MarketData and TradeRules

A pass runs the jobs in order; Stooq and FRED fetch with retries and store in one
transaction that ignores what is there, Alpaca stores bar by bar and overwrites. Time
runs in half days, so a bar is provisional in its first half; `Sessions` are the days the name
trades on, and a vendor's answer may end at any of them (`Bars(upto)`): it is late, the name
is halted, or gone. The stamp of a row is when it was last stored, whatever its date, and
freshness goes by the stamp: `heard` remembers how far each feed's last answer reached, and
`past` what each day's reader saw.

`TradeRules` follows one name through days: `Tick` is exits, then a buy
on proof or the core's DCA; `NewDay` moves the close or leaves the bar out; `Screen` and
`Release` are the outside. A screen, a freeze or the founder's word may move the whitelist row
(`standing`), the newest verdict, or both: the exits ask the row, the strategies and the edge proof
ask `Clear`, the Constitution refuses a buy without a clear row. The regime's votes are the
set of pairs (signal, regime) with their weights, the strategies are one operator each (the rotation
with its target for the regime), `Confident` is the floor of their shared filter, and the edge proof is its list of
conjuncts. The name is a stock or the core ETF, `SPUS`; the two other ETFs of the rotation and of the ladder
are left out. Returns are in millionths.

### Learning

`Begin`, `TickExits`, `TickBuys` are the trading, `ManualSells` and `ManualBuys` the founder's
fills, of any quantity: a sell realises a profit or a loss (`Realise`) and leaves the position
open (`PartSold`) or flat (`GoneFlat`). `ReadBase` and `RecordDecision` are the
two connections of `record_trade_decision`; `ReadOpen`, `ReadPosition`, `RecordOutcome`,
`ReadRate`, `WriteRate`, `ProposeCooldown`, `EndRun` those of `resolve_and_learn`. `Abandon`
is any end before that. `ended` counts what really happened, trip by trip; `scaled` counts the trips
that were bought into below a loss they had realised (`lowered`). `overlap` and `blurred`
remember that two were at work at once, and that a record was lost or two trips were merged: a
name was bought, by a tick or by hand, before its last close was resolved.

## 3 The runs

| run | checks | bounds | states |
|---|---|---|---|
| `books_brokers` | `TypeOK`, `IntentFilledOnce`, `BalanceRunsAndChains`, `PromiseKept` (refinement) | two brokers, three calls, two intents | 0.4 M |
| `books_race` | `TablesAgree`, `NoPhantomShares`, `LostAmountIsReported`, `CommitsAreKept`, `LockIsReleased` (liveness) | a broker, a manual recorder, an opening depositor, three calls | 0.1 M |
| `tick_pair` | `HaltStopsFills`, `NoChurn`, `OutcomeIsHonest` | two ticks at once, two names, one outside move beside the self-test | 1.2 M |
| `tick_alone` | `VetoStopsFills`, `FreezeStopsBuys`, `DcaOncePerWindow`, `LimitsHold`, `NoRiskOnBrokenExit`, `RunsEnd` (liveness) | one process in two scenes: two runs and three outside moves at standing closes; one run, two prices, two outside moves | 1.3 M |
| `kitchen` | `FoundersWordStands`, `QueueKept` (refinement), `CommandsEnd` (liveness) | two pollers, two commands of seven kinds, one fault, a live board; three scenes: a build about to be written beside the commands, an approval asked for with the founder answering it himself, no founder configured | 0.65 M |
| `workforce` | `FailureIsContained`, `MetersAreHonest`, `StoppedDesksStayStopped`, `CycleEnds` (liveness) | two evidence desks, an operator desk, an unregistered one; two graphs, one of them a cycle; two cycles, one retry, two pauses or deaths | 1.3 M |
| `governance` | `BuyableIsCleared`, `NonClearIsFrozen`, `ScreensAgree`, `AutonomyIsEarned`, `RunsAreHonest`, `VerifiedIsOneMoment` | one job of each kind run twice, two names whose books begin clean or in debt, one turn of the world, two acts of the founder, one fault; two strategies; one heartbeat and one tick, two rows, two mishaps; two databases of two pages, two programs, two commits, two openings | 1.1 M |
| `decisions` | `FreshMeansAnswered`, `ReplayTellsThePast`, `NothingOutstays`, `BuysAreBacked`, `LiveBoardIsSound`, `FearNeverBuysMore`, `DecisionsStand`, `RatesAreHonest`, `EveryCloseCounts` | two passes over three days, one of them without a session, answers that end anywhere, two outages; five days of a name at three closes and one screen or freeze; every consistent set of macro signals; two builders and two builds over two names, one clear and one not, one re-screen or new regime, any number of decisions; two learning ticks, three runs, two trades, two fills by hand or faults, partial sells | 2.3 M |

Four more are violation runs, one for each finding of section 4: `books_manual`,
`tick_weekly`, `workforce_quarantine` and `learning_sign`.

What a composite property says: `TablesAgree` is `BooksAgree`, `OrdersMatchLedger` and
`BrokerRowsChain`; `LimitsHold` the tick's type, `ExitsNeverBlocked`, `PositionCapHolds`
and `OverdraftBounded`; `FoundersWordStands`, `MetersAreHonest`,
`StoppedDesksStayStopped`, `LiveBoardIsSound`, `RatesAreHonest`, `AutonomyIsEarned` and
`RunsAreHonest` are conjunctions of the parts named above them in their modules.

What the bounds are enough for. A race on the ledger needs two writers and a row for
each, a lost amount a third call after them; the clamp needs a sell one unit away
from the position, which a partial realistic fill (one of two units) provides. In
the tick, each promise about "at most one more" needs one action past its gate and
one more to go, so two names and two candidates; a second run shows that nothing
leaks from the first (cadence, cash, freezes); a cap is crossed and not crossed with
a fund of two to four notionals. The percentages are scaled to those
small funds (50/60/10, and 58/60/10 where a name is to be bought twice, for those of `limits.yaml`): what the properties need is a cap
that can be reached by one buy and exceeded by two. In the kitchen a word can be
reordered by two pollers with one command each, and repeated by one fault. In the
workforce three ranks make an ancestor two edges away; a second cycle shows what a
quarantine and a pause outlive. In governance a second job finds what the first one
left, and a founder's two acts (a re-add, an unfreeze) may fall on either side of it; two
pages make a torn copy, two databases a backup of two moments. The windows of the rules
are shortened (a trend of three days, a hold of three, an edge over three windows) with
the thresholds kept: what is checked is how the rules meet, and with five days every
rule fires. In learning a third run resolves what two left, and two trades and two sells by hand make
a trip that is sold in part and bought into again.
`MaxCalls`, `MaxRuns`, `MaxMoves` and the other `Max...` constants bound behaviours and
are in guards; nothing else is cut.

Deadlock is not checked: callers, founder and jobs are bounded, and when everybody
is idle nothing more need happen.

Fairness. `Books!FairSpec`: a call that was made goes on (`busy_timeout` bounds the
wait for the lock, and `Busy` is its end); no fairness on making a call or on
crashing. `GovernedTick!FairSpec`: a tick that was begun goes on, for `run_trading_tick`
waits for nobody; nobody has to begin one, halt, resume or approve anything.
`CommandPoller!Spec`: `WF` on each poller's next step, fetching included, since a
timer starts it again; none on faults, whose number is bounded, on the web or on the
founder. `Workforce!Spec`: `WF` on the steps of a cycle that was begun, which waits for
nobody; none on beginning one. `Autonomy`, `LoopRunner`, `Backup`, `ShariaGovernance`,
`MarketData`, `TradeRules`, `OpportunityBoard` and `Learning` are checked for safety only:
their jobs are started by a timer or by hand and may die, and nothing of theirs waits.

## 4 Findings

Four are runs that TLC refutes, against a sentence of the repository.

1. **A manual fill can lose an amount from the balance** (`books_manual`).
   `record_fill` appends to the ledger first, so the last row is read before the
   transaction is open. What still holds, proved in section 5: the row is reported by
   `verify_hash_chain`, and the position is never wrong.
2. **The weekly self-test lifts the founder's halt** (`tick_weekly`).
3. **A restart forgets the quarantine** (`workforce_quarantine`). A quarantined desk is to stay so
   "until a human clears it" (`docs/CAMEL_S17_WORKFORCE.md:103`). The set is in memory
   (`research/supervisor.py:66`) and nothing clears it but the end of its process, after which the
   desk runs again. Within one supervisor it holds (`StoppedDesksStayStopped`).
4. **A trip that lost may count as none or as won** (`learning_sign`). The round trip's P&L is taken from
   the least baseline of its decisions (`learning/measure.py:189`). Buy, sell a part at a loss,
   buy into what is left: the second baseline lies below the loss, which is then forgotten, though
   `:187` says that no other realised event lies between. `record_fill` takes any quantity, and a paper exit
   that leaves a residue does the same. `EveryCloseCounts` says what still holds: only such trips
   (`scaled`) are miscounted, and only for the better.

The rest are observations, made while modelling: the models behave as described, and
the properties of section 3 are stated so that they hold beside them. The first
five, and the first on data, have sentences of their own, at the ends of `Books`, `GovernedTick` and `MarketData`.

Books and tick.
- Two processes on empty books both deposit the opening cash (`loop/jobs.py:122`).
- `orders_today`, `sector_values`, the P&L percentages and the cooldown of a tick's state
  are never filled in: those caps see zeros (`loop/jobs.py:77`). `BudgetState` is new in
  every run (`:197`).
- An approval is per symbol and never consumed: every later trade of it passes on the
  same yes (`governance/approval.py:53`).
- An exit is sized at the close it is proposed at and filled at the close of the moment, so
  a rise in between leaves a residue of a position reported closed (`broker/paper.py:139`).
- The buys of a leg are each checked against the cash before the first
  (`loop/assembled.py:206`); `OverdraftBounded` says by how much at most a tick overdraws.
- Core lots that carry "no profit target" as their thesis (`loop/driver.py:133`) are sold
  by the profit and time rules like any other.

Poller and board.
- `schema.sql` lets the table hold three types of command (`web/supabase/schema.sql:71`), the
  web sends nine, and the Kitchen was to need "no schema change"
  (`docs/CAMEL_S17_WORKFORCE.md:23`): by that schema the insert of a pause, a desk run or a board
  decision fails. `TableTypes` is the check; the proofs hold for any, the run for a widened one.
- A command whose mark was lost runs again, and two pollers may hold the same page: an
  approve can be repeated after the veto that followed it. `FoundersWordStands` speaks of
  commands that ran once; `QueueKept` bounds how often one runs.

Learning and data.
- Ticks that overlap may lose an update of a base rate or count a close twice; a name that a
  tick buys back in the run that closed it hides its close from the resolver. `overlap` and
  `blurred` mark both.
- A re-ingested bar gets a new `known_at` (`data/store.py:35`), so a replay sees fewer
  Alpaca bars than its day did - never others. Stooq's `INSERT OR IGNORE` keeps a provisional bar.
- `check_symbol_freshness` goes by the newest `ingested_at` (`data/freshness.py:48`), and the daily backfill
  stores up to 400 days of old bars anew (`data/ingest.py:107`). On a weekend, in a halt, after a delisting
  or when the vendor is late the stamp is new and the newest bar as old as it may be; so it is after a
  walk that broke off. "A name is INELIGIBLE ... when its latest price is STALE" (`data/quality.py:78`) is
  not so: `FreshMeansCurrent`, with a pass over `Sessions` that end early, fails in a few steps. What the gate does say is
  `FreshMeansAnswered`: a vendor has answered lately, and the table reaches as far as the answer.
- With bars of both feeds a series has two closes a date: the horizon halves and the sample
  doubles (`trader/engine/edge_proof_v0.py:105`).
- The edge proof tests every window of a name, not those its signal chose.
- `quality_momentum` proposes from 5% on (`trader/strategies/quality_momentum.py:16`), with twice the
  momentum as its confidence, and drops what is below a confidence of 0.3: it speaks from 15% on.
- A name the founder unfroze stays silent to the strategies while its newest verdict is not clear, and one he froze
  is proposed while it is: `_sharia_status` asks the verdict first (`trader/engine/edge_proof.py:224`). The
  Constitution refuses the second; the exits ask the whitelist row.
- A drifting peg, called a risk-off shock where it is read, also votes for a regime of a strong
  dollar (`trader/regime/classifier.py:79`); with no macro data at all the regime is `UNKNOWN`, in which
  the momentum strategies may run.

Gates.
- The quarterly screen with every optional field filled calls itself "full AAOIFI" (`sharia/screener.py:121`), but
  hands on no cash, so cash and receivables together (`sharia/aaoifi.py:9`) are never compared with 67%; and it
  puts the market cap of the day where the standard has the average of twelve months, so a fall of the
  price alone may freeze a name and a rise may hide its debt. Receivables given without total assets are
  divided by the market cap, though the text has that screen skipped (`:89`, `:123`). An income of `None` is 0,
  never missing. `ScreensAgree` states what the two screens still share.
- `verify_hash_chain` returns a list, so `ok is False` never blocks readiness and the label
  beside it is inverted (`ops/live_readiness.py:61`).
- `backup` copies the files of WAL databases without their logs: a verified copy may be older
  than the last commits, and `restore` leaves a log in place that is then read over the
  restored file (`ops/backup.py:36`, `:57`). `VerifiedIsOneMoment` is exact about both.
- The same record of 20 round trips advances a strategy two rungs, a demotion does not reset it,
  and a killed strategy can be set active (`trader/strategies/registry.py`).
- A launch context without a business model passes the haram screen; tests are not asked for
  again after staging (`entrepreneur/`).
- `pause` while paused overwrites `_paused_from`, which nothing reads.

## 5 The proofs

`BooksProofs` proves, for every set of processes, names, intents, quantities, prices
and fees, and any number of calls:

| theorem | property |
|---|---|
| `TypeCorrect` | `TypeOK` |
| `PhantomFree` | `NoPhantomShares` |
| `FilledOnce` | `IntentFilledOnce` |
| `LossReported` | `LostAmountIsReported` |
| `CommitsKept` | `CommitsAreKept` |
| `OneStory` | `TablesAgree` |
| `BrokersRunAndChain` | `BalanceRunsAndChains`, when only brokers write |
| `BrokersKeepPromise` | `PromiseKept`, when only brokers write: `Books` implements `AtomicBooks` |

The assumptions are the module's own, `BooksConstants` and `BooksProcesses`: positive
quantities and prices, 0 among the fees, the kinds of process disjoint.

The argument. None of these is inductive: that positions stay non-negative depends
on what an open transaction will commit, which depends on what its statements have
checked, which is only worth something while nobody else commits. `IInv` says that.
Its heart, `TransactionInv`: while a writer holds the lock, `view` is `db` plus exactly
what that writer's statements so far have written (`Written`), and what they have
checked is still so (`Checked`). `LockInv` ties the lock to the program counter, `CallInv`
says which statements each kind of writer runs, `TailInv` that a tail read early is at
least the number and balance of one row of the ledger - stale, never torn. From
`TailInv` follows `LossReported`: a row that chains to the row before it has read that
row's balance, and a row that does not is one the verifier names. `OneStory` is about
sums over a ledger of any length. `Total` is a recursive function, so its values are known
only where the function it is the last value of is known to exist (`TotalsExist`), and that is an
induction: of the lengths without one, take the least (`LeastNumber`). From there a row more is
its amount more (`TotalGrows`), and a commit moves both position books by the fill whose row it
appends (`CommitWrites`). The refinement uses
the same invariant: every step but `Commit` leaves `db` alone and maps to a stutter, and
`Commit` is one `AtomicBooks` fill.

`TickProofs` proves, for any number of tick processes, any names, prices and limits, any
phase, and any number of runs and moves:

| theorem | property |
|---|---|
| `RunShape` | `Shape`: what the state of a run is at each place of the tick |
| `TicksDoNotChurn` | `NoChurn` |
| `BrokenExitEndsRun` | `NoRiskOnBrokenExit` |
| `RowsAreHonest` | `OutcomeIsHonest` |
| `HaltHolds` | `HaltStopsFills` |
| `VetoHolds` | `VetoStopsFills` |
| `FreezeHolds` | `FreezeStopsBuys` |
| `CadenceHolds` | `DcaOncePerWindow` |
| `TickTyped` | `TypeOK`, the first conjunct of `LimitsHold` |
| `LimitsAlways` | `LimitsHold`, when there is one tick process (`OneTick`) |

The assumptions are `TickConstants`: ticks and names are finitely many, an order is positive and
every close divides it, the limits are percentages, a tick looks at one candidate at least.
`OneTick` is no convenience, and the run `tick_alone` has it too: of two ticks beside each other
the second may propose an exit of a position the first has just changed, and it is refused.

The argument. `Shape` is inductive and local: a run is on its exits until it has chosen
what to buy, what it may still buy is disjoint from what it sold and bought, a refused
exit is over after the exits. `ProcessStep` sums up the step of a tick process as one of
two: `Quiet`, which does not reach the broker, or `Filling`, which does. The four bounds
then share one argument. Take the fills counted since the flag went up (since the veto,
the freeze, the new day) and the set of ticks that can still add one: past the gate
(`AtBroker`), past it with that name (`AtBrokerWith`), working on a whitelist without the
freeze and not yet having bought the name (`MayBuy`), with the name left in a core leg
(`MayDca`). Together they are never more than the ticks (`Bounded`): a quiet step puts
nobody into the set, and a fill that counts takes its tick out of it. That is why the
bound is the number of ticks and not one, and why it does not depend on how many
proposals a tick has.

`LimitsHold` is about money, and what a run decides on is a copy of the books that is old by
then. `LimitsInv` says at each place how far apart the copy and the books may be: the cash is
what was read less what the run has spent, and the buys left fit into what a leg may buy
(`CashOK`, `MostBuys`); what is still to be sold is worth something, and no more than the run's
copy says (`ExitsOK`); while no close came in, the run's marks are the positions' worth but
for what it bought itself (`MarksOK`). The fund is a sum over the names. Nothing about a sum
can be proved by unfolding it, since it takes the names in an order nobody knows; `NumberLemmas`
shows by a smallest counterexample that any name may be taken first (`SumsTake`), and a fill,
which changes one name, then changes the fund by what that name changes (`FundMoves`).

`PollerProofs` begins with the board alone and proves, for any names, builders and reports, any
number of builds and any turns of the world:

| theorem | property |
|---|---|
| `LiveBoardSound` | `LiveBoardIsSound` |
| `DecidedStays` | `DecisionsStand` |

The assumption used is `BoardConstants`: finitely many names, and an edge that is allowed
has a sample and a hit rate. The invariant `BInv` says that a draft is a finite set of
proposals about different names and that every row of the board was one of a draft.
Which of them passes its checks is then a case analysis over one proposal
(`ProposalSound`), with nothing left to say about when the regime and the screens were
read; that the live rows are one build is the work of `Persist` alone (`PersistWrites`):
it makes no older row live, and its new rows are an injective listing of its draft.

It then proves, for any finite set of pollers, any commands from anyone, any faults,
builders and desks:

| theorem | property |
|---|---|
| `QueueShape` | the invariant `PInv`, below |
| `EveryRunIsExplained` | `RunsExplained`: the bound that `QueueKept` has as a guard, as an invariant |
| `FounderIsHeard` | `FoundersWordStands` |
| `PollersKeepQueue` | `QueueKept`: `CommandPoller` implements `CommandQueue` |
| `KitchenImplementsBoard` | the pollers' specification implements `BoardSpec` |

The assumptions are `PollerConstants` (finitely many pollers, commands are records of a type the
web may insert) and `BoardConstants`. Why a command may run more than once, and why that is all
that can go wrong, needs both halves of `PInv`. `CountInv` accounts for every run: a command's
runs, together with the pollers that will still run it, are never more than its lost marks and
the pollers; and while it is pending its runs are its lost marks and the pollers that have run
and not yet marked it. `OrderInv` says that commands begin in the order of their ids
whichever poller runs them: what a poller has fetched is an ascending part of the queue, and a
command it has passed over has run. So the first run of a command comes after the first run of every
older one, and if each ran once the last word is the newest one (`WordsInv`). `PollersKeepQueue`
says it without pollers: every step of theirs is an insert, a run in turn, an answer for a
command that has run, the loss of a run, or nothing to `CommandQueue`. That an abstract `Run`
may be taken is the part of `OrderInv` about pages (what is older than the command in hand and
not in the page has begun, and nothing in the page is older) and the part of `CountInv` about
the pollers to come, of which this one is one. That a `Lose` may be needs one more invariant,
`LostInv`: a command's lost runs, with the pollers still to mark it, are no more than its runs. `SteersInv` is
about the board: what a command asked for stays so once it took effect, because a decided row is never
changed again; that is the action property of the board, used here as a lemma about each
of its steps. `KitchenImplementsBoard` is the refinement: every step of a poller, the faults
included, is a step of the board or leaves it alone, so that what is proved of the board holds
of the composed system too.

`GovernanceProofs`, `WorkforceProofs` and `DecisionProofs` each prove the safety of a few modules or
of one:

| theorem | property | invariant |
|---|---|---|
| `OnlyClearedIsBuyable` | `BuyableIsCleared` | `ShInv` |
| `NonClearFreezes` | `NonClearIsFrozen` | `ShInv` |
| `ScreensNeverDisagree` | `ScreensAgree` | `ShInv` |
| `EarnedAutonomy` | `AutonomyIsEarned` | `AuInv` |
| `HonestRuns` | `RunsAreHonest` | `RnInv` |
| `VerifiedBackup` | `VerifiedIsOneMoment` | `BkInv` |
| `MetersStayHonest` | `MetersAreHonest` | `WfInv` |
| `StoppedStayStopped` | `StoppedDesksStayStopped` | `WfInv` |
| `FailureContained` | `FailureIsContained` | `WfInv` and `ChainInv` |
| `PastIsTold` | `ReplayTellsThePast` | `MkInv` |
| `EligibleIsAnswered` | `FreshMeansAnswered` | `MkInv` |
| `LimitsAreKept` | `NothingOutstays` | `RuInv` |
| `BuysRestOnProof` | `BuysAreBacked` | `DealInv` |
| `FearOnlyStepsAside` | `FearNeverBuysMore` | `OnlySignals` |

They hold for any sets of names, jobs, strategies, processes, pages, databases, desks and
graphs, any limits, costs and prices, and any number of faults; the assumptions are the
`...Constants` of the modules, which say that bounds are numbers, that the two kinds of process are
disjoint, that pages are finitely many, that horizons and prices are positive.

- `ShInv`: a job's verdict is written by two transactions, and between them another job or the
  founder may write. What a job may hold is a row that `Combine` and `ApplyAuthority` made, and a
  name whose row is not clear is frozen, is about to be by the job that holds it, or the duty
  was dropped by a death or the founder (`FreezePending`). `ScreensNeverDisagree` needs no more of it than that
  the books are what a vendor may state: it is arithmetic over the amounts and denominators of the
  screens, with fields that are missing.
- `AuInv`: each property speaks of the end of a way, so the invariant says of every stage on it what
  has been passed by then (`WayThere`, `RungsWon`, `GatesPassed`).
- `RnInv`: of each row, what its process has done when it is where it is (`RowTrue`, `Holds`); no two
  live processes share a row (`Alone`); the paper rows that count are the runs that were counted. The
  cardinalities are of sets of row numbers, so a row that changes moves one number in or out.
- `BkInv`: until something is restored the pages of a file only grow, a page being the number of
  the commit that wrote it (`PagesGrow`): copy, moment and file stand in this order, and a page that
  the verification finds equal was equal at the end of the copying as well (`SoFarTheSame`). That
  is how a job without a lock can vouch for one moment.
- `WfInv`: a run's notes exceed what it has reported by what it has in hand (`NotesInv`), and the
  retries of a supervised desk run on the licence its first try got (`LicenceInv`): let in under the
  cap and out of quarantine. Without it neither the cap nor the quarantine is inductive.
- `ChainInv`: in a cycle along a graph the desks without a result stand in a line where nobody waits
  for a desk behind (`LineInv`), so that a desk that runs has its own upstreams done and one that is
  skipped has one that went wrong (`UpstreamInv`). That `TopologicalOrder` makes such a line of every graph
  without a cycle is `OrderIsLine`; from upstreams to ancestors at any distance goes by induction over
  the distance (`AncestorsDone`) and over the ranks, which a chain of skipped desks can only descend
  (`SkipsAreCaused`).
- `MkInv`: a row's date is never later than the day of its stamp; a job under way began in this half
  day or the one before it, and what it fetched reaches no further than the day it stores it
  (`JobInv`). `heard` is the ghost of the last answer that each feed stored: no row is stamped later
  than it, and the rows of the feed reach as far as it does (`HeardInv`), unless the walk bar by bar is
  under way or broke off - and then the pass does not say that it stored (`ResultsInv`). `past` and
  `Replay` are compared entry by entry: every write stamps its rows `now`, after the end of every day
  on record.
- `RuInv`: a flat row costs nothing, so a lot's average and its age start again with a new round trip.
  With that a tick is a case analysis over its exits and its buy; the prices cancel out of the
  percentages, multiplied out.
- `DealInv`: nothing but a tick makes a buy, so the work is in what the proof allows
  (`AllowedIsBacked`). A median is two elements by rank (`KthSmallest`), and a rank is about how many are
  below: a median that reaches a level is reached by half of the numbers (`MedianIsBacked`), for the
  excess over all windows and for the decay test over the newest ones alike.
- `OnlySignals`: what fires is in the table of votes. A sign of fear raises only the scores of the
  two cash regimes (`ScoresMove`), and the regime is the first in the priority among the best
  scores (`RegimeIs`): it becomes a cash regime, or stays what it was.

`LearningProofs` proves, for any finite set of ticks, any names and strategies, any declared rate,
sample and gap, and any number of runs, trades and faults:

| theorem | property |
|---|---|
| `LedgersAlways` | the invariant `AllInv`, below |
| `RatesHonest` | `RatesAreHonest` |
| `ClosesCount` | `EveryCloseCounts` |

The assumption is `LearningConstants`: finitely many ticks, a rate in units of a positive `Scale`.
A base rate is a count, so each part of `AllInv` is a ledger that bounds what a row may still
become, by the cardinality of a set, and each step moves a member from one of them to another:

- `RowInv`: every row, in the table or in the hands of a tick about to write it, is one history.
  Each rounding moves the rate times its sample by half a sample at most, which sums to `n(n+1)/4`
  (`HonestGrows`). It needs nothing of who else writes, so it survives lost updates.
- `ShareInv`: however ticks overlap, what has been counted and what ticks have tallied stands
  against pairs of a tick and a closed decision that this tick has let go of (`Spent`), and
  against ticks that are about to close one (`Due`). A tick that is overtaken counts a decision again, and that
  is why the bound is once for each tick.
- `SoloInv`: while nobody overlaps, the tick at work is the only one, what it has bought is held, and the
  decisions it has read of a name are all that are open. `CountInv` then counts closes: rows, tallies and
  names that wait for a result that is there (`Pending`) are never more than the closes.
- `TripInv`: when also no trade went unrecorded and no trips were merged, the strategies of an
  open trip are those of the open decisions and of the trades in the tick's hands (`TripKnown`); one
  of these has the profit the trip began with for its base (`OneStarts`) and, unless the trip was
  bought into below a loss it had realised (`lowered`), none has less (`NoneBelow`). So the lowest
  base, which is what the resolver takes, gives the trip's own sign, and a lowered trip can err in one
  direction only. `SignInv` then bounds wins and losses apart, from both sides: what is counted,
  tallied and waiting is what happened, but for the trips in `scaled`, of which a loss may stand among the
  wins. When all is quiet nothing is tallied and nothing waits, which is `EveryCloseCounts`. `EarnedInv`,
  about proposals, follows from it because losses are never forgotten and none is invented.

What these proofs share is in `NumberLemmas`: the least-number principle (`LeastNumber`, `MinIs`,
`Greatest`), taken from the well-foundedness of `<` on the naturals; a smallest set of a family
(`Smallest`), from that of inclusion on finite sets; the largest and the smallest of a sequence
(`MostAndLeast`); and sums.

Only model-checked, and why:

- Liveness (`LockIsReleased`, `RunsEnd`, `CommandsEnd`, `CycleEnds`): fairness and ENABLED are out of
  the prover's reach.
- What a recursive operator computes for every input is not proved anywhere: the theorems that
  speak of sums, medians and orders reason about the values from their equations.

Every safety property and every action property that a passing run checks is the subject of a theorem.

## 6 What is not modelled

Average cost, realised P&L and fees beyond their effect on cash; ticket parsing;
corporate actions; the mixer's weights, backtests, the sandbox and the event studies, which
are numeric code over historical series; the parsing of the sanctions list and of the haram
word lists; the connectors for filings, news and ETF holdings, triangulation and provenance;
reports, alerts, dashboards and the web beyond the one route that inserts commands;
`mode="live"` actions, which nothing in the code builds and whose broker refuses everything;
the task queue and the operation log, which have no production callers. `StateMachine`,
`BuildPipeline` and `check_live_readiness` have none either, but they are gates, and are
modelled as their tests use them. `PROJECT.json` lists every component with its reasons.

Abstractions that matter are named where they are made, in the head of each module.

## 7 The plan

In order of what could hurt most:

1. An abstract `Whitelist` (cleared, vouched, frozen) that `ShariaGovernance` implements.
2. `simulate_fill` and the quality score against reference definitions; triangulation.
3. Tickets, average cost and realised P&L in `Books`, which would join it to `Learning`.
