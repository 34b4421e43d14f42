------------------------------ MODULE MarketData ------------------------------
(***************************************************************************)
(* Ingestion into the market and macro databases and the reads that judge  *)
(* it.  One pass runs its jobs in order, each best effort: Stooq and FRED  *)
(* through the connector pipeline (a fetch retried on transient failures,  *)
(* one transaction that ignores what is already there), Alpaca through its *)
(* backfill (one fetch, then one transaction for each bar, oldest first,   *)
(* overwriting).  The readers are the freshness gate of a buy and the      *)
(* point-in-time loaders of a replay.                                      *)
(*                                                                         *)
(* Time runs in half days: a session's bar is provisional in its first     *)
(* half and closed from the second on; a macro value is revised a day      *)
(* later.  A price vendor answers with what it has, which may end at any   *)
(* day: it is late, the name is halted or it is gone.                      *)
(***************************************************************************)
EXTENDS Integers, Sequences, FiniteSets, FiniteSetsExt, SequencesExt

CONSTANTS
    Sessions,               \* the days the name trades on
    Retries,                \* attempts of a fetch through with_retries
    MaxAge,                 \* how old the newest row may be, in half days
    MaxNow, MaxPasses, MaxOutages    \* bounds on behaviours

ASSUME MarketConstants ==
    Sessions \subseteq Nat /\ {Retries, MaxAge, MaxNow, MaxPasses, MaxOutages} \subseteq Nat

Jobs == <<"stooq", "fred", "alpaca">>
Feeds == {"stooq", "alpaca"}

VARIABLES
    now,
    prices,             \* feed -> the rows [date, close, at] of one symbol; at is ingested_at and known_at
    macro,              \* the vintages [event, reported, value, at] of one series
    job,                \* the pass: its job, where it is, attempt, when it began, what it fetched
    results,            \* what run_ingestion returns for each job
    torn,               \* the last Alpaca walk broke off (history)
    heard,              \* feed -> when it was last stored from, and how far its answer reached (history)
    past,               \* day -> what a replay as of that day saw as the day ended (history)
    passes, outagesLeft

tables == <<prices, macro>>
marketVars == <<now, tables, job, results, torn, heard, past, passes, outagesLeft>>

Day(t) == t \div 2
Today == Day(now)

\* The vendors: bars up to some day and the observations of a series, each as it is known by now.
Bars(upto) == {[date |-> d, close |-> IF now = 2 * d THEN "provisional" ELSE "closed"] :
                  d \in {x \in Sessions : x <= upto}}
Observations == {[event |-> e, reported |-> Today, value |-> IF e = Today THEN "first" ELSE "revised"] :
                    e \in 0..Today}

NoJob == [n |-> 0, at |-> "idle", attempt |-> 0, began |-> 0, page |-> {}]

\* A replay as of the start of day d: known_at is a moment, so it lies before d on earlier days only.
KnownBy(row, d) == Day(row.at) < d
Replay(d) == UNION {{[feed |-> f, date |-> r.date, close |-> r.close] :
                         r \in {x \in prices[f] : x.date <= d /\ KnownBy(x, d)}} : f \in Feeds}

Visible(d) == {r \in macro : r.event <= d /\ r.reported <= d /\ KnownBy(r, d)}
Points(d) == {[event |-> r.event, value |-> r.value] :
                 r \in {x \in Visible(d) : \A y \in Visible(d) : y.event = x.event => y.reported <= x.reported}}

MarketInit ==
    /\ now = 0 /\ prices = [f \in Feeds |-> {}] /\ macro = {}
    /\ job = NoJob /\ results = [j \in ToSet(Jobs) |-> "none"] /\ torn = FALSE
    /\ heard = [f \in Feeds |-> [at |-> 0, upto |-> -1]]
    /\ past = <<>> /\ passes = 0 /\ outagesLeft = MaxOutages

-----------------------------------------------------------------------------
\* A fetch and its store take far less than half a day: they meet one boundary at most.
Later ==
    /\ now < MaxNow /\ (job.at # "idle" => job.began = now)
    /\ now' = now + 1
    /\ past' = IF Day(now') = Today THEN past
               ELSE Append(past, [prices |-> Replay(Today), macro |-> Points(Today)])
    /\ UNCHANGED <<tables, job, results, torn, heard, passes, outagesLeft>>

\* run_ingestion and the Alpaca leg after it.
StartPass ==
    /\ job.at = "idle" /\ passes < MaxPasses
    /\ job' = [NoJob EXCEPT !.n = 1, !.at = "fetch", !.attempt = 1, !.began = now]
    /\ results' = [j \in ToSet(Jobs) |-> "none"] /\ passes' = passes + 1
    /\ UNCHANGED <<now, tables, torn, heard, past, outagesLeft>>

Current == Jobs[job.n]

\* The job ends with its result and the next one begins, whatever the result.
EndJob(result) ==
    /\ results' = [results EXCEPT ![Current] = result]
    /\ job' = IF job.n = Len(Jobs) THEN NoJob
              ELSE [NoJob EXCEPT !.n = job.n + 1, !.at = "fetch", !.attempt = 1, !.began = now]

FetchSucceeds ==
    /\ job.at = "fetch"
    /\ \E page \in IF Current = "fred" THEN {{}, Observations} ELSE {Bars(upto) : upto \in -1..Today} :
          job' = [job EXCEPT !.at = "store", !.page = page]
    /\ UNCHANGED <<now, tables, results, torn, heard, past, passes, outagesLeft>>

\* Only the connectors retry, only what may pass, and only so often; the backfill does not.
FetchFails(transient) ==
    /\ job.at = "fetch" /\ outagesLeft > 0
    /\ outagesLeft' = outagesLeft - 1
    /\ IF transient /\ Current # "alpaca" /\ job.attempt < Retries
       THEN job' = [job EXCEPT !.attempt = @ + 1] /\ UNCHANGED results
       ELSE EndJob("error")
    /\ UNCHANGED <<now, tables, torn, heard, past, passes>>

Stored == IF job.page = {} THEN "empty" ELSE "stored"

\* A feed's answer goes into the table.
Hear(f) == heard' = [heard EXCEPT ![f] = [at |-> now, upto |-> Max({b.date : b \in job.page})]]

\* INSERT OR IGNORE, the whole page in one transaction, stamped with the start of the run.
StoreStooq ==
    LET unknown == {b \in job.page : \A r \in prices["stooq"] : r.date # b.date}
    IN  /\ job.at = "store" /\ Current = "stooq"
        /\ prices' = [prices EXCEPT !["stooq"] = @ \cup
               {[date |-> b.date, close |-> b.close, at |-> job.began] : b \in unknown}]
        /\ IF job.page = {} THEN UNCHANGED heard ELSE Hear("stooq")
        /\ EndJob(Stored)
        /\ UNCHANGED <<now, macro, torn, past, passes, outagesLeft>>

\* The same for macro: a vintage already there is ignored, a new one is a row of its own.
VintageStore(rows, page, began) ==
    rows \cup {[event |-> o.event, reported |-> o.reported, value |-> o.value, at |-> began] :
                  o \in {p \in page : \A r \in rows : <<r.event, r.reported>> # <<p.event, p.reported>>}}

StoreFred ==
    /\ job.at = "store" /\ Current = "fred"
    /\ macro' = VintageStore(macro, job.page, job.began)
    /\ EndJob(Stored)
    /\ UNCHANGED <<now, prices, torn, heard, past, passes, outagesLeft>>

\* ON CONFLICT DO UPDATE without known_at: a re-ingested bar keeps its old stamp.
StorePriceKeepingKnown(rows, bar, t) ==
    LET old == {r \in rows : r.date = bar.date}
    IN  (rows \ old) \cup {[date |-> bar.date, close |-> bar.close,
                            at |-> IF old = {} THEN t ELSE Min({r.at : r \in old})]}

\* store_price: one bar, overwritten with everything known of it now.
StorePrice(rows, bar, t) ==
    {r \in rows : r.date # bar.date} \cup {[date |-> bar.date, close |-> bar.close, at |-> t]}

\* The walk over the answer, oldest bar first: an old bar that comes again is stamped anew.
StoreAlpaca ==
    /\ job.at = "store" /\ Current = "alpaca"
    /\ \E bar \in job.page :
          /\ \A b \in job.page : bar.date <= b.date
          /\ prices' = [prices EXCEPT !["alpaca"] = StorePrice(@, bar, now)]
          /\ IF job.page = {bar} THEN EndJob("stored") /\ torn' = FALSE
             ELSE job' = [job EXCEPT !.page = @ \ {bar}] /\ UNCHANGED <<results, torn>>
    /\ Hear("alpaca")
    /\ UNCHANGED <<now, macro, past, passes, outagesLeft>>

\* An answer without a bar.
AlpacaHasNone ==
    /\ job.at = "store" /\ Current = "alpaca" /\ job.page = {}
    /\ EndJob("empty")
    /\ UNCHANGED <<now, tables, torn, heard, past, passes, outagesLeft>>

\* The database refuses a write: a transaction rolls back, a walk stays where it is.
StoreFails ==
    /\ job.at = "store" /\ job.page # {} /\ outagesLeft > 0
    /\ outagesLeft' = outagesLeft - 1
    /\ torn' = (torn \/ Current = "alpaca")
    /\ EndJob("error")
    /\ UNCHANGED <<now, tables, heard, past, passes>>

\* A walk that has bars left to store.
Walking == job.at = "store" /\ Current = "alpaca" /\ job.page # {}

\* The process dies between two transactions: no result at all, and no later job.
PassDies ==
    /\ job.at # "idle" /\ outagesLeft > 0
    /\ outagesLeft' = outagesLeft - 1
    /\ torn' = (torn \/ Walking)
    /\ job' = NoJob
    /\ UNCHANGED <<now, tables, results, heard, past, passes>>

MarketNext ==
    \/ Later \/ StartPass \/ FetchSucceeds
    \/ \E transient \in BOOLEAN : FetchFails(transient)
    \/ StoreStooq \/ StoreFred \/ StoreAlpaca \/ AlpacaHasNone \/ StoreFails \/ PassDies

MarketSpec == MarketInit /\ [][MarketNext]_marketVars

-----------------------------------------------------------------------------
\* A difference in whole days held against a limit in hours.
IsFreshInDays(age) == age >= 0 /\ Day(age) <= MaxAge

\* check_symbol_freshness and data_eligible: the newest stamp of any row decides.
IsFresh(age) == age >= 0 /\ age <= MaxAge

Rows == UNION {prices[f] : f \in Feeds}
Eligible == Rows # {} /\ IsFresh(now - Max({r.at : r \in Rows}))

-----------------------------------------------------------------------------
NewestBar == Max({r.date : r \in Rows})

\* The freshness gate looks at stamps, and an old bar that comes again has a new stamp: so
\* what `fresh' says is not that the newest bar is recent but that a vendor's answer is.
\* Within MaxAge some feed has been stored from, and the table reaches as far as that
\* answer did - unless the walk over it is under way or broke off, and then the results of
\* its pass do not say that it was stored.
FreshMeansAnswered ==
    Eligible =>
        \E f \in Feeds :
            /\ heard[f].upto >= 0 /\ heard[f].at >= now - MaxAge
            /\ \/ NewestBar >= heard[f].upto
               \/ f = "alpaca" /\ (Walking \/ (torn /\ results["alpaca"] # "stored"))

\* "no action on stale data": a name that is fresh enough to be bought has, of every session
\* that closed longer ago than the data may be old, that bar or a later one.
FreshMeansCurrent ==
    Eligible => \A d \in Sessions : 2 * d + 1 < now - MaxAge => NewestBar >= d

\* What a replay of an earlier day is shown never holds a price the system did
\* not have then, and of the macro series exactly what it showed then: no
\* later ingestion, revision or retry changes a decision that is replayed.
ReplayTellsThePast ==
    \A i \in DOMAIN past : /\ Replay(i - 1) \subseteq past[i].prices
                           /\ Points(i - 1) = past[i].macro
=============================================================================
