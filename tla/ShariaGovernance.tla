-------------------------- MODULE ShariaGovernance --------------------------
(***************************************************************************)
(* Who may be bought: the whitelist (sharia/whitelist.py), the founder's   *)
(* seeding of it behind the sanctions screen (sharia/universe.py,          *)
(* sanctions.py), and the two jobs that re-screen it, each a process of    *)
(* its own that may die between two of its transactions: the quarterly     *)
(* drift screen (sharia/screener.py) and the cross-check                   *)
(* (sharia/cross_check.py).  Meanwhile the companies' books move.          *)
(***************************************************************************)
EXTENDS ShariaScreen, FiniteSets

CONSTANTS Names,
          DefaultUniverse,   \* the names whose seed is the founder's attestation
          Snapshots,         \* books a company may have
          CrossChecks,       \* answers of the second source
          Locals,            \* what a local board says of a name
          Quarterly,         \* processes that run the quarterly screen
          Crossers,          \* processes that run the cross-check
          MaxJobs,           \* bound: jobs begun
          MaxTurns,          \* bound: new books, listings of sanctions
          MaxActs,           \* bound: acts of the founder
          MaxFaults          \* bound: fetch errors and crashes

Jobs == Quarterly \cup Crossers
Amounts == {"debt", "deposits", "invested", "receivables", "impure"}
Denominators == {"average",   \* of the market cap over twelve months
                 "spot",      \* the market cap of the day
                 "assets", "revenue"}
Books == [debt : Nat, deposits : Nat, invested : Nat, receivables : Nat, impure : Nat,
          average : Nat, spot : Nat, assets : Nat, revenue : Nat, banned : BOOLEAN]

ASSUME ShariaConstants ==
    /\ DefaultUniverse \subseteq Names /\ Snapshots \subseteq Books /\ Snapshots # {}
    /\ CrossChecks \subseteq {"pass", "doubtful", "fail", "none"}
    /\ Locals \subseteq {"none", "pass", "fail"} /\ Quarterly \cap Crossers = {}
    /\ {MaxJobs, MaxTurns, MaxActs, MaxFaults} \subseteq Nat

VARIABLES
    books,       \* books[s]: what a financials adapter would fetch of s
    sanctioned,  \* the names on the SDN snapshot
    whitelist,   \* whitelist[s]: [status, frozen], or Absent
    screened,    \* screened[s]: the newest row of sharia_status, or NoScreen
    seeding,     \* names past the sanctions screen and the gate, not yet added
    todo,        \* todo[j]: the names job j has still to screen
    holds,       \* holds[j]: the verdict it has reached and not finished writing, or Nothing
    jobs, turns, acts, faults,
    vouched,     \* history: names the founder has cleared since their newest screen
    dropped      \* history: names whose freeze a crash has swallowed

Absent == [status |-> "absent", frozen |-> FALSE]
NoScreen == [inHouse |-> "none", second |-> "none", local |-> "none", final |-> "none"]
Nothing == [name |-> "none", step |-> "none", row |-> NoScreen]

shariaVars == <<books, sanctioned, whitelist, screened, seeding, todo, holds, jobs, turns, acts,
                faults, vouched, dropped>>

Listed == {s \in Names : whitelist[s] # Absent}
Idle(j) == todo[j] = {} /\ holds[j] = Nothing

Init ==
    /\ books \in [Names -> Snapshots] /\ sanctioned = {}
    /\ whitelist = [s \in Names |-> Absent] /\ screened = [s \in Names |-> NoScreen]
    /\ seeding = {} /\ todo = [j \in Jobs |-> {}] /\ holds = [j \in Jobs |-> Nothing]
    /\ jobs = 0 /\ turns = 0 /\ acts = 0 /\ faults = 0 /\ vouched = {} /\ dropped = {}

----------------------------------------------------------------------------
\* The founder.

Acts == acts < MaxActs /\ acts' = acts + 1

\* seed_universe up to the write: the sanctions screen, which needs the legal name,
\* and the Constitution's gate.
Seed(s) ==
    /\ Acts /\ s \notin seeding
    /\ \E named \in BOOLEAN : ~(named /\ s \in sanctioned)
    /\ seeding' = seeding \cup {s}
    /\ UNCHANGED <<books, sanctioned, whitelist, screened, todo, holds, jobs, turns, faults,
                   vouched, dropped>>

\* A seed is not a screen: only the default universe lands compliant.
SeedStatus(s) == IF s \in DefaultUniverse THEN "compliant" ELSE "pending_review"

\* add_instrument: an upsert that clears a freeze, whatever froze the name.
AddInstrument(s) ==
    /\ s \in seeding /\ seeding' = seeding \ {s}
    /\ whitelist' = [whitelist EXCEPT ![s] = [status |-> SeedStatus(s), frozen |-> FALSE]]
    /\ vouched' = IF s \in DefaultUniverse THEN vouched \cup {s} ELSE vouched
    /\ dropped' = dropped \cup {s}
    /\ UNCHANGED <<books, sanctioned, screened, todo, holds, jobs, turns, acts, faults>>

\* unfreeze_instrument: the founder's word after a manual re-screen; it does not ask
\* whether the name is frozen.
Unfreeze(s) ==
    /\ Acts /\ s \in Listed
    /\ whitelist' = [whitelist EXCEPT ![s] = [status |-> "compliant", frozen |-> FALSE]]
    /\ vouched' = vouched \cup {s} /\ dropped' = dropped \cup {s}
    /\ UNCHANGED <<books, sanctioned, screened, seeding, todo, holds, jobs, turns, faults>>

----------------------------------------------------------------------------
\* The jobs.

\* load_whitelist: the quarterly screen leaves out what is frozen now.
StartJob(j) ==
    /\ Idle(j) /\ jobs < MaxJobs /\ jobs' = jobs + 1
    /\ todo' = [todo EXCEPT ![j] = IF j \in Quarterly THEN {s \in Listed : ~whitelist[s].frozen}
                                                     ELSE Listed]
    /\ UNCHANGED <<books, sanctioned, whitelist, screened, seeding, holds, turns, acts, faults,
                   vouched, dropped>>

Next1(j, s) == /\ holds[j] = Nothing /\ s \in todo[j] /\ todo' = [todo EXCEPT ![j] = @ \ {s}]
Hold(j, s, step, row) == holds' = [holds EXCEPT ![j] = [name |-> s, step |-> step, row |-> row]]
Let(j) == holds' = [holds EXCEPT ![j] = Nothing]
Freeze(s) == whitelist' = [whitelist EXCEPT ![s].frozen = TRUE]

\* screen_instrument on a compact snapshot with some of the optional fields, or all of
\* them: a fail will be frozen, a doubtful name marked, a pass left as it is.
ScreenQuarterly(j, s) ==
    /\ j \in Quarterly /\ Next1(j, s)
    /\ \E given \in SUBSET Optional :
          LET verdict == Screen(Compact(books[s], given))
          IN  CASE verdict = "fail" -> Hold(j, s, "freeze", NoScreen)
                [] verdict = "doubtful" -> Hold(j, s, "mark", NoScreen)
                [] OTHER -> UNCHANGED holds
    /\ UNCHANGED <<books, sanctioned, whitelist, screened, seeding, jobs, turns, acts, faults,
                   vouched, dropped>>

\* _mark_doubtful.
MarkDoubtful(j) ==
    /\ holds[j].step = "mark" /\ Let(j)
    /\ whitelist' = [whitelist EXCEPT ![holds[j].name].status = "doubtful"]
    /\ UNCHANGED <<books, sanctioned, screened, seeding, todo, jobs, turns, acts, faults, vouched,
                   dropped>>

\* The financials cannot be fetched: the quarterly screen goes on to the next name.
QuarterlyFetchFails(j, s) ==
    /\ j \in Quarterly /\ Next1(j, s) /\ faults < MaxFaults /\ faults' = faults + 1
    /\ UNCHANGED <<books, sanctioned, whitelist, screened, seeding, holds, jobs, turns, acts,
                   vouched, dropped>>

\* ... and the cross-check freezes it.
CrossFetchFails(j, s) ==
    /\ j \in Crossers /\ Next1(j, s) /\ faults < MaxFaults /\ faults' = faults + 1
    /\ Freeze(s)
    /\ UNCHANGED <<books, sanctioned, screened, seeding, holds, jobs, turns, acts, vouched, dropped>>

\* evaluate_symbol.
Evaluate(j, s) ==
    /\ j \in Crossers /\ Next1(j, s)
    /\ \E second \in CrossChecks, local \in Locals :
          Hold(j, s, "persist",
               [inHouse |-> Screen(books[s]), second |-> second, local |-> local,
                final |-> ApplyAuthority(Combine(Screen(books[s]), second), local)])
    /\ UNCHANGED <<books, sanctioned, whitelist, screened, seeding, jobs, turns, acts, faults,
                   vouched, dropped>>

\* _persist: the row and the whitelist's status in one transaction; a non-clear name is
\* frozen in the next.
Persist(j) ==
    /\ holds[j].step = "persist"
    /\ LET s == holds[j].name  row == holds[j].row
       IN  /\ screened' = [screened EXCEPT ![s] = row]
           /\ whitelist' = [whitelist EXCEPT ![s].status = WhitelistStatus[row.final]]
           /\ vouched' = vouched \ {s} /\ dropped' = dropped \ {s}
           /\ IF row.final \in NonClear THEN Hold(j, s, "freeze", row) ELSE Let(j)
    /\ UNCHANGED <<books, sanctioned, seeding, todo, jobs, turns, acts, faults>>

\* (Mutant: a doubtful name is marked and not frozen.)
FreezeFailsOnly(j) ==
    /\ holds[j].step = "freeze" /\ Let(j)
    /\ IF holds[j].row.final = "doubtful" THEN UNCHANGED whitelist ELSE Freeze(holds[j].name)
    /\ UNCHANGED <<books, sanctioned, screened, seeding, todo, jobs, turns, acts, faults, vouched,
                   dropped>>

\* freeze_instrument.
FreezeInstrument(j) ==
    /\ holds[j].step = "freeze" /\ Let(j) /\ Freeze(holds[j].name)
    /\ UNCHANGED <<books, sanctioned, screened, seeding, todo, jobs, turns, acts, faults, vouched,
                   dropped>>

Crash(j) ==
    /\ ~Idle(j) /\ faults < MaxFaults /\ faults' = faults + 1
    /\ todo' = [todo EXCEPT ![j] = {}] /\ Let(j)
    /\ dropped' = IF holds[j].step = "freeze" THEN dropped \cup {holds[j].name} ELSE dropped
    /\ UNCHANGED <<books, sanctioned, whitelist, screened, seeding, jobs, turns, acts, vouched>>

----------------------------------------------------------------------------
Turn ==
    /\ turns < MaxTurns /\ turns' = turns + 1
    /\ \/ \E s \in Names, f \in Snapshots : (books' = [books EXCEPT ![s] = f] /\ UNCHANGED sanctioned)
       \/ \E S \in (SUBSET Names) \ {sanctioned} : sanctioned' = S /\ UNCHANGED books
    /\ UNCHANGED <<whitelist, screened, seeding, todo, holds, jobs, acts, faults, vouched, dropped>>

Step(j) ==
    \/ \E s \in Names : \/ ScreenQuarterly(j, s) \/ QuarterlyFetchFails(j, s)
                        \/ CrossFetchFails(j, s) \/ Evaluate(j, s)
    \/ MarkDoubtful(j) \/ Persist(j) \/ FreezeInstrument(j)

Next ==
    \/ \E s \in Names : Seed(s) \/ AddInstrument(s) \/ Unfreeze(s)
    \/ \E j \in Jobs : StartJob(j) \/ Step(j) \/ Crash(j)
    \/ Turn

Spec == Init /\ [][Next]_shariaVars

----------------------------------------------------------------------------
\* What the Constitution lets a buy through for.
Buyable(s) == whitelist[s].status = "compliant" /\ ~whitelist[s].frozen

\* A name that may be bought has been cleared: its newest screen is a pass of two
\* sources or of the local board, or the founder has vouched for it since, by an unfreeze
\* or by seeding a name of the default universe.  No order of jobs, crashes and seeds
\* makes a name buyable on one source.
BuyableIsCleared ==
    \A s \in Names :
        Buyable(s) => \/ s \in vouched
                      \/ /\ screened[s].final = "pass"
                         /\ \/ screened[s].local = "pass"
                            \/ screened[s].inHouse = "pass" /\ screened[s].second = "pass"

\* Once no job has it in hand, a name whose newest screen is not clear is frozen, unless
\* a crash swallowed the freeze or the founder has acted on the name since; and even
\* then, without the founder's word, it may not be bought.
NonClearIsFrozen ==
    \A s \in Names :
        screened[s].final \in NonClear /\ (\A j \in Jobs : holds[j].name # s) =>
            /\ s \notin dropped => whitelist[s].frozen
            /\ s \notin vouched => ~Buyable(s)

Rank == [pass |-> 0, doubtful |-> 1, fail |-> 2]
Milder(f, g) == Rank[Screen(f)] <= Rank[Screen(g)]

\* The quarterly screen is no stricter than the screen of the full books, whatever
\* optional fields its snapshot had: a name is not frozen for what its books do not say.
\* Two things are asked for: a market cap that has not fallen below its average, since the
\* job divides by the cap of the day; and receivables that come with the assets they are a
\* share of, since without them the job divides by the market cap.
NeverStricter(f) ==
    f.spot = f.average \/ (0 < f.average /\ f.average < f.spot) =>
        \A given \in SUBSET Optional :
            ("receivables" \in given => "total_assets" \in given) =>
                Milder(Compact(f, given), f)

\* What the quarterly screen calls full (every optional field filled) misses nothing of
\* the full screen on a cap that has not risen, but for what it cannot see: the cash
\* among the receivables, and an income that is not reported.
MissesOnlyCash(f) ==
    f.spot <= f.average /\ (f.spot = 0 => f.average = 0) =>
        \/ Milder(f, Compact(f, Optional))
        \/ Breach(f.deposits + f.receivables, f.assets, 67)
        \/ f.revenue = 0

\* g's books are worse than f's: more of what is bad over less of what it is measured by,
\* and the same figures missing.
Worse(g, f) ==
    /\ \A k \in Amounts : g[k] >= f[k]
    /\ \A k \in Denominators : g[k] <= f[k] /\ (g[k] = 0 <=> f[k] = 0)
    /\ f.banned => g.banned

\* The books whose screens are in order, next to all the others.
InOrder ==
    {f \in Snapshots :
        /\ NeverStricter(f) /\ MissesOnlyCash(f)
        /\ \A g \in Snapshots : Worse(g, f) =>
              /\ Milder(f, g)
              /\ Milder(Compact(f, Optional), Compact(g, Optional))
        /\ Screen(f) = "pass" => f.average > 0 /\ f.assets > 0 /\ f.revenue > 0}

\* The two screens of a company do not contradict each other beyond what the compact
\* snapshot has lost; worse books never screen better, on the full figures or on the
\* compact ones; and nothing passes the full screen with a denominator missing.
ScreensAgree == \A s \in Names : books[s] \in InOrder
=============================================================================
