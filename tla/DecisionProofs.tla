---------------------------- MODULE DecisionProofs ----------------------------
(***************************************************************************)
(* Theorems about what a decision rests on and what it leads to: the       *)
(* ingested data and the reads that judge it (MarketData.tla), and the     *)
(* rules that open and close a position (TradeRules.tla); for any limits,  *)
(* any sessions, any number of passes and outages, any prices and          *)
(* horizons.                                                               *)
(***************************************************************************)
EXTENDS MarketData, TradeRules, NumberLemmas

Bar == [date : Nat, close : {"provisional", "closed"}]
PriceRow == [date : Nat, close : {"provisional", "closed"}, at : Nat]
Observation == [event : Nat, reported : Nat, value : {"first", "revised"}]
Vintage == [event : Nat, reported : Nat, value : {"first", "revised"}, at : Nat]
View == [prices : SUBSET [feed : Feeds, date : Nat, close : {"provisional", "closed"}],
         macro : SUBSET [event : Nat, value : {"first", "revised"}]]
Outcome == {"none", "empty", "stored", "error"}

MarketType ==
    /\ now \in Nat /\ torn \in BOOLEAN
    /\ prices \in [Feeds -> SUBSET PriceRow] /\ heard \in [Feeds -> [at : Nat, upto : Int]]
    /\ macro \subseteq Vintage
    /\ \A f \in Feeds : heard[f].at <= now
    /\ \A f \in Feeds : \A r \in prices[f] : r.at <= now /\ r.date <= Today

\* A job that is under way began in this half day or the one before; what a price feed
\* has fetched does not reach past today.
JobInv ==
    /\ job \in [n : Nat, at : {"idle", "fetch", "store"}, attempt : Nat, began : Nat, page : {job.page}]
    /\ job.at # "idle" =>
          /\ job.n \in DOMAIN Jobs /\ job.began <= now /\ now <= job.began + 1
          /\ job.at = "store" /\ Current # "fred" =>
                job.page \subseteq Bar /\ \A b \in job.page : b.date <= Today
          /\ job.at = "store" /\ Current = "fred" => job.page \subseteq Observation

\* A walk that broke off is not said to have been stored.
ResultsInv ==
    /\ results \in [ToSet(Jobs) -> Outcome]
    /\ torn => results["alpaca"] # "stored"
    /\ job.at # "idle" => results["alpaca"] = "none"

\* No row is newer than what was last heard of its feed, and the rows of a feed reach as
\* far as that, or a walk over it is not done.
Broken == Walking \/ torn
Reached(f) == \E r \in prices[f] : r.date >= heard[f].upto
HeardInv ==
    \A f \in Feeds :
        /\ \A r \in prices[f] : r.at <= heard[f].at
        /\ prices[f] # {} => heard[f].upto >= 0 /\ (Reached(f) \/ (f = "alpaca" /\ Broken))

\* The history has one entry for each day that has ended.
PastInv == past \in Seq(View) /\ Len(past) = Today

MkInv == MarketType /\ JobInv /\ ResultsInv /\ HeardInv /\ PastInv /\ ReplayTellsThePast

----------------------------------------------------------------------------
LEMMA DayIs ==
    ASSUME NEW a \in Int, NEW b \in Int, a <= b
    PROVE  /\ Day(a) \in Int /\ Day(b) \in Int /\ Day(a) <= Day(b)
           /\ 0 <= a => Day(a) \in Nat
           /\ Day(a) <= Day(a + 1) /\ Day(a + 1) <= Day(a) + 1
BY DEF Day

LEMMA TheJobs ==
    /\ DOMAIN Jobs = 1..3 /\ Len(Jobs) = 3
    /\ Jobs[1] = "stooq" /\ Jobs[2] = "fred" /\ Jobs[3] = "alpaca"
    /\ ToSet(Jobs) = {"stooq", "fred", "alpaca"}
<1>1. DOMAIN Jobs = 1..3 /\ Len(Jobs) = 3 /\ Jobs[1] = "stooq" /\ Jobs[2] = "fred" /\ Jobs[3] = "alpaca"
  BY DEF Jobs
<1>2. ToSet(Jobs) = {Jobs[1], Jobs[2], Jobs[3]}
  BY <1>1 DEF ToSet
<1> QED BY <1>1, <1>2

LEMMA MkInvInit == MarketInit => MkInv
<1> SUFFICES ASSUME MarketInit PROVE MkInv
  OBVIOUS
<1>1. Today = 0
  BY DEF MarketInit, Today, Day
<1>2. MarketType
  <2>1. -1 \in Int /\ 0 \in Nat
    OBVIOUS
  <2>2. heard \in [Feeds -> [at : Nat, upto : Int]] /\ \A f \in Feeds : heard[f].at = 0
    BY <2>1 DEF MarketInit
  <2>3. prices \in [Feeds -> SUBSET PriceRow] /\ \A f \in Feeds : prices[f] = {}
    BY DEF MarketInit
  <2>4. now = 0 /\ torn = FALSE /\ macro = {}
    BY DEF MarketInit
  <2>5. \A f \in Feeds : heard[f].at <= now
    BY <2>2, <2>4
  <2> QED BY <2>2, <2>3, <2>4, <2>5 DEF MarketType
<1>3. JobInv /\ job.at = "idle"
  BY DEF MarketInit, JobInv, NoJob
<1>4. PastInv
  BY <1>1 DEF MarketInit, PastInv
<1>5. ReplayTellsThePast
  BY DEF MarketInit, ReplayTellsThePast
<1>6. HeardInv
  BY DEF MarketInit, HeardInv
<1>7. ResultsInv
  BY <1>3, TheJobs DEF MarketInit, ResultsInv, Outcome
<1> QED BY <1>2, <1>3, <1>4, <1>5, <1>6, <1>7 DEF MkInv

----------------------------------------------------------------------------
\* What the steps that leave the data alone keep.
LEMMA SameData ==
    ASSUME MkInv, UNCHANGED <<now, tables, heard, past>>, torn' \in BOOLEAN, JobInv', ResultsInv',
           Broken => Broken'
    PROVE  MkInv'
<1>1. UNCHANGED <<now, prices, macro, heard, past>> /\ Today' = Today
  BY DEF tables, Today
<1>2. MarketType'
  BY <1>1 DEF MkInv, MarketType
<1>3. PastInv'
  BY <1>1 DEF MkInv, PastInv
<1>4. ASSUME NEW d PROVE Replay(d)' = Replay(d) /\ Points(d)' = Points(d)
  BY <1>1 DEF Replay, Points, Visible, KnownBy
<1>5. ReplayTellsThePast'
  BY <1>1, <1>4 DEF MkInv, ReplayTellsThePast
<1>6. HeardInv'
  <2> HIDE DEF Broken
  <2> QED BY <1>1 DEF MkInv, HeardInv, Reached
<1> QED BY <1>2, <1>3, <1>5, <1>6 DEF MkInv

\* The job ends: the next begins, or the pass is over.
LEMMA EndJobDoes ==
    ASSUME JobInv, ResultsInv, now \in Nat, now' = now, job.at # "idle",
           NEW result \in Outcome, EndJob(result),
           torn' => (torn \/ Current = "alpaca"), torn' /\ Current = "alpaca" => result # "stored"
    PROVE  JobInv' /\ ResultsInv' /\ ~Walking'
<1>1. job.n \in 1..3 /\ job.began \in Nat /\ results' = [results EXCEPT ![Current] = result]
  BY TheJobs DEF JobInv, EndJob
<1>2. /\ Current \in {"stooq", "fred", "alpaca"} /\ results' \in [ToSet(Jobs) -> Outcome]
      /\ Current # "alpaca" => results'["alpaca"] = results["alpaca"]
      /\ Current = "alpaca" => results'["alpaca"] = result
  <2>1. Current \in {"stooq", "fred", "alpaca"}
    BY <1>1, TheJobs DEF Current
  <2> QED BY <1>1, <2>1, TheJobs DEF ResultsInv
<1>3. CASE job.n = Len(Jobs)
  <2>1. job' = NoJob /\ Current = "alpaca"
    BY <1>3, TheJobs DEF EndJob, Current
  <2>2. JobInv' /\ ~Walking' /\ job'.at = "idle"
    BY <2>1 DEF JobInv, NoJob, Walking
  <2> QED BY <1>2, <2>1, <2>2 DEF ResultsInv
<1>4. CASE job.n # Len(Jobs)
  <2>1. job' = [NoJob EXCEPT !.n = job.n + 1, !.at = "fetch", !.attempt = 1, !.began = now]
    BY <1>4 DEF EndJob
  <2>2. job' = [n |-> job.n + 1, at |-> "fetch", attempt |-> 1, began |-> now, page |-> {}]
    BY <2>1 DEF NoJob
  <2>3. job.n + 1 \in 1..3 /\ Current # "alpaca"
    BY <1>1, <1>4, TheJobs DEF Current
  <2>4. JobInv' /\ ~Walking'
    BY <2>2, <2>3, TheJobs DEF JobInv, Walking
  <2>5. results'["alpaca"] = "none"
    BY <1>2, <2>3 DEF ResultsInv
  <2> QED BY <1>2, <2>4, <2>5 DEF ResultsInv
<1> QED BY <1>3, <1>4

LEMMA MkInvStartPass == MkInv /\ StartPass => MkInv'
<1> SUFFICES ASSUME MkInv, StartPass PROVE MkInv'
  OBVIOUS
<1>1. /\ job.at = "idle" /\ UNCHANGED <<now, tables, torn, heard, past>>
      /\ job' = [NoJob EXCEPT !.n = 1, !.at = "fetch", !.attempt = 1, !.began = now]
      /\ results' = [j \in ToSet(Jobs) |-> "none"]
  BY DEF StartPass
<1>2. job' = [n |-> 1, at |-> "fetch", attempt |-> 1, began |-> now, page |-> {}]
  BY <1>1 DEF NoJob
<1>3. JobInv'
  <2>1. now \in Nat /\ now' = now /\ 1 \in DOMAIN Jobs
    BY <1>1, TheJobs DEF MkInv, MarketType
  <2> QED BY <1>2, <2>1 DEF JobInv
<1>4. ~Walking /\ torn' \in BOOLEAN
  BY <1>1 DEF Walking, MkInv, MarketType
<1>5. ResultsInv'
  BY <1>1, TheJobs DEF ResultsInv, Outcome
<1>6. Broken => Broken'
  BY <1>1, <1>4 DEF Broken
<1> QED BY <1>1, <1>3, <1>4, <1>5, <1>6, SameData

\* What the vendors have by now.
LEMMA TheVendors ==
    ASSUME now \in Nat, NEW upto \in Int, upto <= Today
    PROVE  /\ Bars(upto) \subseteq Bar /\ \A b \in Bars(upto) : b.date <= Today
           /\ Observations \subseteq Observation
<1>1. Today \in Nat
  BY DEF Today, Day
<1>2. \A d \in Sessions : d \in Nat
  BY MarketConstants
<1>3. Bars(upto) \subseteq Bar /\ \A b \in Bars(upto) : b.date <= Today
  BY <1>1, <1>2 DEF Bars, Bar
<1>4. Observations \subseteq Observation
  BY <1>1 DEF Observations, Observation
<1> QED BY <1>3, <1>4

LEMMA MkInvFetchSucceeds == MkInv /\ FetchSucceeds => MkInv'
<1> SUFFICES ASSUME MkInv, FetchSucceeds PROVE MkInv'
  OBVIOUS
<1>1. PICK page \in IF Current = "fred" THEN {{}, Observations} ELSE {Bars(upto) : upto \in -1..Today} :
         /\ job.at = "fetch" /\ UNCHANGED <<now, tables, results, torn, heard, past>>
         /\ job' = [job EXCEPT !.at = "store", !.page = page]
  BY DEF FetchSucceeds
<1>2. /\ job.n \in DOMAIN Jobs /\ job.began <= now /\ now <= job.began + 1
      /\ job.began \in Nat /\ now \in Nat
      /\ job \in [n : Nat, at : {"idle", "fetch", "store"}, attempt : Nat, began : Nat, page : {job.page}]
  BY <1>1 DEF MkInv, MarketType, JobInv
<1>3. /\ job'.at = "store" /\ job'.n = job.n /\ job'.began = job.began /\ job'.page = page
      /\ job' \in [n : Nat, at : {"idle", "fetch", "store"}, attempt : Nat, began : Nat, page : {job'.page}]
      /\ Current' = Current /\ Today' = Today
  BY <1>1, <1>2 DEF Current, Today
<1>4. Today \in Nat
  BY <1>2, DayIs DEF Today
<1>5. JobInv'
  <2>1. CASE Current = "fred"
    <3>1. page \subseteq Observation
      BY <1>1, <1>2, <1>4, <2>1, TheVendors
    <3> QED BY <1>1, <1>2, <1>3, <2>1, <3>1 DEF JobInv
  <2>2. CASE Current # "fred"
    <3>1. PICK upto \in -1..Today : page = Bars(upto)
      BY <1>1, <2>2
    <3>2. page \subseteq Bar /\ \A b \in page : b.date <= Today
      BY <1>2, <1>4, <3>1, TheVendors
    <3> QED BY <1>1, <1>2, <1>3, <2>2, <3>2 DEF JobInv
  <2> QED BY <2>1, <2>2
<1>6. ~Walking /\ torn' \in BOOLEAN
  BY <1>1 DEF Walking, MkInv, MarketType
<1>7. ResultsInv'
  BY <1>1, <1>3 DEF MkInv, ResultsInv
<1>8. Broken => Broken'
  BY <1>1, <1>6 DEF Broken
<1> QED BY <1>1, <1>5, <1>6, <1>7, <1>8, SameData

LEMMA MkInvFails ==
    ASSUME MkInv, AlpacaHasNone \/ StoreFails \/ PassDies \/ \E transient \in BOOLEAN : FetchFails(transient)
    PROVE  MkInv'
<1>1. JobInv /\ ResultsInv /\ now \in Nat /\ torn \in BOOLEAN /\ "empty" \in Outcome /\ "error" \in Outcome
  BY DEF MkInv, MarketType, Outcome
<1>2. CASE StoreFails
  <2>1. /\ job.at = "store" /\ torn' = (torn \/ Current = "alpaca")
        /\ EndJob("error") /\ UNCHANGED <<now, tables, heard, past>>
    BY <1>2 DEF StoreFails
  <2>2. JobInv' /\ ResultsInv' /\ torn' \in BOOLEAN
    BY <1>1, <2>1, EndJobDoes
  <2>3. Broken => Broken'
    BY <2>1 DEF Broken, Walking
  <2> QED BY <2>1, <2>2, <2>3, SameData
<1>3. CASE PassDies
  <2>1. /\ job.at # "idle" /\ torn' = (torn \/ Walking) /\ job' = NoJob
        /\ UNCHANGED <<now, tables, results, heard, past>>
    BY <1>3 DEF PassDies
  <2>2. JobInv' /\ torn' \in BOOLEAN /\ job'.at = "idle"
    BY <1>1, <2>1 DEF JobInv, NoJob, Walking
  <2>3. Broken => Broken'
    BY <2>1 DEF Broken
  <2>4. ResultsInv'
    BY <1>1, <2>1, <2>2 DEF ResultsInv
  <2> QED BY <2>1, <2>2, <2>3, <2>4, SameData
<1>4. ASSUME NEW transient \in BOOLEAN, FetchFails(transient) PROVE MkInv'
  <2>1. job.at = "fetch" /\ UNCHANGED <<now, tables, torn, heard, past>>
    BY <1>4 DEF FetchFails
  <2>2. Broken => Broken'
    BY <2>1 DEF Broken, Walking
  <2>3. CASE job' = [job EXCEPT !.attempt = @ + 1] /\ UNCHANGED results
    <3>1. /\ job \in [n : Nat, at : {"idle", "fetch", "store"}, attempt : Nat, began : Nat, page : {job.page}]
          /\ job.n \in DOMAIN Jobs /\ job.began <= now /\ now <= job.began + 1
      BY <1>1, <2>1 DEF JobInv
    <3>2. /\ job' \in [n : Nat, at : {"idle", "fetch", "store"}, attempt : Nat, began : Nat, page : {job'.page}]
          /\ job'.n = job.n /\ job'.began = job.began /\ job'.at = "fetch"
      BY <2>1, <2>3, <3>1
    <3>3. JobInv'
      BY <2>1, <3>1, <3>2 DEF JobInv
    <3>4. ResultsInv'
      BY <1>1, <2>1, <2>3, <3>2 DEF ResultsInv
    <3> QED BY <1>1, <2>1, <2>2, <3>3, <3>4, SameData
  <2>4. CASE EndJob("error")
    <3>1. JobInv' /\ ResultsInv'
      BY <1>1, <2>1, <2>4, EndJobDoes
    <3> QED BY <1>1, <2>1, <2>2, <3>1, SameData
  <2> QED BY <1>4, <2>3, <2>4 DEF FetchFails
<1>5. CASE AlpacaHasNone
  <2>1. /\ job.at = "store" /\ Current = "alpaca" /\ job.page = {} /\ EndJob("empty")
        /\ UNCHANGED <<now, tables, torn, heard, past>>
    BY <1>5 DEF AlpacaHasNone
  <2>2. JobInv' /\ ResultsInv'
    BY <1>1, <2>1, EndJobDoes
  <2>3. Broken => Broken'
    BY <2>1 DEF Broken, Walking
  <2> QED BY <1>1, <2>1, <2>2, <2>3, SameData
<1> QED BY <1>2, <1>3, <1>4, <1>5

----------------------------------------------------------------------------
\* Whatever is stamped half a day ago or later cannot be seen by a replay of a day that
\* has ended: a step that adds such rows, and replaces any others, keeps the past.
LEMMA PastStands ==
    ASSUME MkInv, now' = now, UNCHANGED past, NEW t \in Nat, now <= t + 1,
           \A f \in Feeds : \A r \in prices'[f] \ prices[f] : r.at = t,
           macro \subseteq macro', \A r \in macro' \ macro : r.at = t
    PROVE  ReplayTellsThePast'
<1>1. now \in Nat /\ Today \in Nat /\ Len(past) = Today /\ DOMAIN past = 1..Today
  <2>1. now \in Nat /\ past \in Seq(View) /\ Len(past) = Today
    BY DEF MkInv, MarketType, PastInv
  <2> QED BY <2>1, DayIs DEF Today
<1>2. ASSUME NEW i \in DOMAIN past
      PROVE  Replay(i - 1)' \subseteq Replay(i - 1) /\ Points(i - 1)' = Points(i - 1)
  <2> DEFINE d == i - 1
  <2>1. d \in Int /\ d < Today
    BY <1>1
  <2>2. Today <= Day(t) + 1 /\ Day(t) \in Int
    <3>1. t \in Int /\ t <= t /\ t + 1 \in Int /\ now \in Int
      BY <1>1
    <3>2. Day(t + 1) <= Day(t) + 1 /\ Day(t) \in Int
      BY <3>1, DayIs
    <3>3. Day(now) <= Day(t + 1) /\ Day(t + 1) \in Int /\ Day(now) \in Int
      BY <3>1, DayIs
    <3> QED BY <3>2, <3>3 DEF Today
  <2>3. ASSUME NEW r, r.at = t PROVE ~KnownBy(r, d)
    <3>1. Day(r.at) = Day(t)
      BY <2>3
    <3>2. ~(Day(t) < d)
      BY <1>1, <2>1, <2>2
    <3> QED BY <3>1, <3>2 DEF KnownBy
  <2>4. \A r : KnownBy(r, d)' <=> KnownBy(r, d)
    BY DEF KnownBy
  <2>5. \A f \in Feeds : {x \in prices'[f] : x.date <= d /\ KnownBy(x, d)}
                         \subseteq {x \in prices[f] : x.date <= d /\ KnownBy(x, d)}
    BY <2>3
  <2>6. Replay(d)' \subseteq Replay(d)
    BY <2>4, <2>5 DEF Replay
  <2>7. Visible(d)' = Visible(d)
    BY <2>3, <2>4 DEF Visible
  <2>8. Points(d)' = Points(d)
    BY <2>7 DEF Points
  <2> QED BY <2>6, <2>8
<1> QED BY <1>2 DEF ReplayTellsThePast, MkInv

LEMMA MkInvStoreFred == MkInv /\ StoreFred => MkInv'
<1> SUFFICES ASSUME MkInv, StoreFred PROVE MkInv'
  OBVIOUS
<1>1. /\ job.at = "store" /\ Current = "fred" /\ EndJob(Stored)
      /\ macro' = VintageStore(macro, job.page, job.began)
      /\ UNCHANGED <<now, prices, torn, heard, past>>
  BY DEF StoreFred
<1>2. /\ now \in Nat /\ JobInv /\ ResultsInv /\ job.page \subseteq Observation
      /\ job.began \in Nat /\ now <= job.began + 1 /\ Stored \in Outcome
  BY <1>1 DEF MkInv, MarketType, JobInv, Stored, Outcome
<1>3. JobInv' /\ ResultsInv' /\ ~Walking'
  BY <1>1, <1>2, EndJobDoes
<1>4. macro \subseteq macro' /\ \A r \in macro' \ macro : r.at = job.began
  BY <1>1 DEF VintageStore
<1>5. macro' \subseteq Vintage
  BY <1>1, <1>2 DEF VintageStore, Vintage, Observation, MkInv, MarketType
<1>6. Today' = Today
  BY <1>1 DEF Today
<1>7. MarketType'
  BY <1>1, <1>5, <1>6 DEF MkInv, MarketType
<1>8. ReplayTellsThePast'
  BY <1>1, <1>2, <1>4, PastStands
<1>9. PastInv'
  BY <1>1, <1>6 DEF MkInv, PastInv
<1>10. HeardInv'
  <2>1. Broken => Broken'
    BY <1>1 DEF Broken, Walking
  <2> QED BY <1>1, <2>1 DEF MkInv, HeardInv, Reached
<1> QED BY <1>3, <1>7, <1>8, <1>9, <1>10 DEF MkInv

\* The last day that a page of bars reaches is the day of one of them.
LEMMA PageReaches ==
    ASSUME MkInv, job.at = "store", Current # "fred", job.page # {}
    PROVE  LET upto == Max({b.date : b \in job.page})
           IN  upto \in Nat /\ \E b \in job.page : b.date = upto
<1> DEFINE Dates == {b.date : b \in job.page}
<1>1. job.page \subseteq Bar /\ (\A b \in job.page : b.date <= Today) /\ Today \in Nat
  <2>1. now \in Nat /\ now <= now
    BY DEF MkInv, MarketType
  <2>2. Today \in Nat
    BY <2>1, DayIs DEF Today
  <2> QED BY <2>2 DEF MkInv, JobInv
<1>2. Dates \subseteq Nat /\ Dates # {} /\ \A x \in Dates : x <= Today
  BY <1>1 DEF Bar
<1>3. Max(Dates) \in Dates
  <2> HIDE DEF Dates
  <2> QED BY <1>1, <1>2, Greatest
<1> QED BY <1>2, <1>3

LEMMA MkInvStoreStooq == MkInv /\ StoreStooq => MkInv'
<1> SUFFICES ASSUME MkInv, StoreStooq PROVE MkInv'
  OBVIOUS
<1> DEFINE unknown == {b \in job.page : \A r \in prices["stooq"] : r.date # b.date}
           new == {[date |-> b.date, close |-> b.close, at |-> job.began] : b \in unknown}
           upto == Max({b.date : b \in job.page})
<1>1. /\ job.at = "store" /\ Current = "stooq" /\ EndJob(Stored)
      /\ prices' = [prices EXCEPT !["stooq"] = @ \cup new]
      /\ IF job.page = {} THEN UNCHANGED heard
         ELSE heard' = [heard EXCEPT !["stooq"] = [at |-> now, upto |-> upto]]
      /\ UNCHANGED <<now, macro, torn, past>>
  BY DEF StoreStooq, Hear
<1>2. /\ now \in Nat /\ JobInv /\ ResultsInv /\ job.began \in Nat /\ job.began <= now /\ now <= job.began + 1
      /\ job.page \subseteq Bar /\ \A b \in job.page : b.date <= Today
      /\ prices \in [Feeds -> SUBSET PriceRow] /\ "stooq" \in Feeds /\ "alpaca" \in Feeds
      /\ heard \in [Feeds -> [at : Nat, upto : Int]] /\ Stored \in Outcome
  BY <1>1 DEF MkInv, MarketType, JobInv, Feeds, Stored, Outcome
<1>3. JobInv' /\ ResultsInv' /\ ~Walking'
  BY <1>1, <1>2, EndJobDoes
<1>4. new \subseteq PriceRow /\ \A r \in new : r.at = job.began /\ r.date <= Today
  BY <1>2 DEF PriceRow, Bar
<1>5. /\ prices' \in [Feeds -> SUBSET PriceRow] /\ prices'["stooq"] = prices["stooq"] \cup new
      /\ \A f \in Feeds : f # "stooq" => prices'[f] = prices[f]
  BY <1>1, <1>2, <1>4
<1>6. \A f \in Feeds : \A r \in prices'[f] \ prices[f] : r.at = job.began /\ r.date <= Today
  BY <1>4, <1>5
<1>7. Today' = Today
  BY <1>1 DEF Today
<1>8. job.page # {} => upto \in Nat /\ \E b \in job.page : b.date = upto
  BY <1>1, PageReaches
<1>9. /\ heard' \in [Feeds -> [at : Nat, upto : Int]]
      /\ \A f \in Feeds : heard'[f].at <= now
      /\ \A f \in Feeds : f # "stooq" => heard'[f] = heard[f]
      /\ job.page # {} => heard'["stooq"].at = now /\ heard'["stooq"].upto = upto
  <2> HIDE DEF upto
  <2>1. \A f \in Feeds : heard[f].at <= now
    BY DEF MkInv, MarketType
  <2>2. CASE job.page = {}
    BY <1>1, <1>2, <2>1, <2>2
  <2>3. CASE job.page # {}
    BY <1>1, <1>2, <1>8, <2>1, <2>3
  <2> QED BY <2>2, <2>3
<1>10. MarketType'
  <2>1. \A f \in Feeds : \A r \in prices'[f] : r.at <= now /\ r.date <= Today
    BY <1>2, <1>6 DEF MkInv, MarketType
  <2> QED BY <1>1, <1>5, <1>7, <1>9, <2>1 DEF MkInv, MarketType
<1>11. ReplayTellsThePast'
  BY <1>1, <1>2, <1>6, PastStands
<1>12. PastInv'
  BY <1>1, <1>7 DEF MkInv, PastInv
<1>13. HeardInv'
  <2>1. ~Walking
    BY <1>1 DEF Walking
  <2>2. Broken => Broken'
    BY <1>1, <2>1 DEF Broken
  <2> HIDE DEF upto, unknown, new
  <2>3. ASSUME NEW f \in Feeds, f # "stooq"
        PROVE  /\ \A r \in prices'[f] : r.at <= heard'[f].at
               /\ prices'[f] # {} => heard'[f].upto >= 0 /\ (Reached(f)' \/ (f = "alpaca" /\ Broken'))
    BY <1>5, <1>9, <2>2, <2>3 DEF MkInv, HeardInv, Reached
  <2>4. CASE job.page = {}
    <3>1. new = {}
      BY <2>4 DEF new, unknown
    <3>2. prices'["stooq"] = prices["stooq"] /\ heard' = heard
      BY <1>1, <1>5, <2>4, <3>1
    <3> QED BY <1>2, <2>2, <2>3, <3>2 DEF MkInv, HeardInv, Reached
  <2>5. CASE job.page # {}
    <3>1. PICK b \in job.page : b.date = upto
      BY <1>8, <2>5
    <3>2. PICK q \in prices'["stooq"] : q.date = upto
      <4>1. CASE \E r \in prices["stooq"] : r.date = b.date
        BY <1>5, <3>1, <4>1
      <4>2. CASE ~ \E r \in prices["stooq"] : r.date = b.date
        <5>1. b \in unknown
          BY <3>1, <4>2 DEF unknown
        <5>2. [date |-> b.date, close |-> b.close, at |-> job.began] \in new
          BY <5>1 DEF new
        <5> QED BY <1>5, <3>1, <5>2
      <4> QED BY <4>1, <4>2
    <3>3. upto \in Nat /\ heard'["stooq"].upto = upto /\ heard'["stooq"].at = now
      BY <1>8, <1>9, <2>5
    <3>4. Reached("stooq")'
      <4>1. q.date >= heard'["stooq"].upto
        BY <3>2, <3>3
      <4> QED BY <4>1 DEF Reached
    <3>5. \A r \in prices'["stooq"] : r.at <= heard'["stooq"].at
      BY <1>1, <1>2, <1>10, <3>3 DEF MarketType
    <3>6. heard'["stooq"].upto >= 0
      BY <3>3
    <3> QED BY <2>3, <3>4, <3>5, <3>6 DEF HeardInv
  <2> QED BY <2>4, <2>5
<1> QED BY <1>3, <1>10, <1>11, <1>12, <1>13 DEF MkInv

\* The walk stamps each bar with the moment it stores it, and its last bar is the newest one.
LEMMA MkInvStoreAlpaca == MkInv /\ StoreAlpaca => MkInv'
<1> SUFFICES ASSUME MkInv, StoreAlpaca PROVE MkInv'
  OBVIOUS
<1> DEFINE upto == Max({b.date : b \in job.page})
<1>1. PICK bar \in job.page :
         /\ prices' = [prices EXCEPT !["alpaca"] = StorePrice(@, bar, now)]
         /\ IF job.page = {bar} THEN EndJob("stored") /\ torn' = FALSE
            ELSE job' = [job EXCEPT !.page = @ \ {bar}] /\ UNCHANGED <<results, torn>>
  BY DEF StoreAlpaca
<1>2. /\ job.at = "store" /\ Current = "alpaca" /\ UNCHANGED <<now, macro, past>>
      /\ heard' = [heard EXCEPT !["alpaca"] = [at |-> now, upto |-> upto]]
  BY DEF StoreAlpaca, Hear
<1> DEFINE row == [date |-> bar.date, close |-> bar.close, at |-> now]
<1>3. /\ now \in Nat /\ JobInv /\ ResultsInv /\ job.began \in Nat /\ job.began <= now /\ now <= job.began + 1
      /\ job.page \subseteq Bar /\ \A b \in job.page : b.date <= Today
      /\ prices \in [Feeds -> SUBSET PriceRow] /\ "alpaca" \in Feeds /\ job.n \in DOMAIN Jobs
      /\ heard \in [Feeds -> [at : Nat, upto : Int]] /\ torn \in BOOLEAN
      /\ job \in [n : Nat, at : {"idle", "fetch", "store"}, attempt : Nat, began : Nat, page : {job.page}]
  BY <1>2 DEF MkInv, MarketType, JobInv, Feeds
<1>4. row \in PriceRow /\ row.at = now /\ row.date = bar.date /\ bar.date <= Today
  BY <1>3 DEF PriceRow, Bar
<1>5. /\ prices' \in [Feeds -> SUBSET PriceRow]
      /\ prices'["alpaca"] = {r \in prices["alpaca"] : r.date # bar.date} \cup {row}
      /\ \A f \in Feeds : f # "alpaca" => prices'[f] = prices[f]
  <2>1. prices' = [prices EXCEPT !["alpaca"] = {r \in @ : r.date # bar.date} \cup {row}]
    BY <1>1 DEF StorePrice
  <2> HIDE DEF row
  <2> QED BY <1>3, <1>4, <2>1
<1>6. \A f \in Feeds : \A r \in prices'[f] \ prices[f] : r = row
  <2> HIDE DEF row
  <2> QED BY <1>5
<1>7. Today' = Today
  BY <1>2 DEF Today
<1>8. upto \in Nat /\ \E b \in job.page : b.date = upto
  BY <1>2, PageReaches
<1>9. /\ heard' \in [Feeds -> [at : Nat, upto : Int]]
      /\ \A f \in Feeds : heard'[f].at <= now
      /\ \A f \in Feeds : f # "alpaca" => heard'[f] = heard[f]
      /\ heard'["alpaca"].at = now /\ heard'["alpaca"].upto = upto
  <2> HIDE DEF upto
  <2>1. \A f \in Feeds : heard[f].at <= now
    BY DEF MkInv, MarketType
  <2> QED BY <1>2, <1>3, <1>8, <2>1
<1>10. torn' \in BOOLEAN
  BY <1>1, <1>3
<1>11. MarketType'
  <2>1. \A f \in Feeds : \A r \in prices'[f] : r.at <= now /\ r.date <= Today
    <3> HIDE DEF row
    <3> QED BY <1>3, <1>4, <1>6 DEF MkInv, MarketType
  <2> QED BY <1>2, <1>5, <1>7, <1>9, <1>10, <2>1 DEF MkInv, MarketType
<1>12. ReplayTellsThePast'
  <2>1. \A f \in Feeds : \A r \in prices'[f] \ prices[f] : r.at = now
    <3> HIDE DEF row
    <3> QED BY <1>4, <1>6
  <2>2. now <= now + 1
    BY <1>3
  <2> QED BY <1>2, <1>3, <2>1, <2>2, PastStands
<1>13. PastInv'
  BY <1>2, <1>7 DEF MkInv, PastInv
<1>14. Reached("alpaca")' \/ Broken' => HeardInv'
  <2> SUFFICES ASSUME Reached("alpaca")' \/ Broken' PROVE HeardInv'
    OBVIOUS
  <2> HIDE DEF upto, row
  <2>1. ASSUME NEW f \in Feeds, f # "alpaca"
        PROVE  /\ \A r \in prices'[f] : r.at <= heard'[f].at
               /\ prices'[f] # {} => heard'[f].upto >= 0 /\ Reached(f)'
    BY <1>5, <1>9, <2>1 DEF MkInv, HeardInv, Reached
  <2>2. \A r \in prices'["alpaca"] : r.at <= heard'["alpaca"].at
    BY <1>2, <1>3, <1>9, <1>11 DEF MarketType
  <2>3. heard'["alpaca"].upto >= 0
    BY <1>8, <1>9
  <2> HIDE DEF Broken
  <2> QED BY <2>1, <2>2, <2>3 DEF HeardInv
<1>15. CASE job.page = {bar}
  <2>1. EndJob("stored") /\ torn' = FALSE /\ "stored" \in Outcome
    BY <1>1, <1>15 DEF Outcome
  <2>2. JobInv' /\ ResultsInv'
    BY <1>2, <1>3, <2>1, EndJobDoes
  <2>3. bar.date = upto
    BY <1>8, <1>15
  <2>4. Reached("alpaca")'
    <3> HIDE DEF upto, row
    <3>1. row \in prices'["alpaca"] /\ row.date = heard'["alpaca"].upto /\ row.date \in Nat
      BY <1>4, <1>5, <1>8, <1>9, <2>3
    <3>2. row.date >= heard'["alpaca"].upto
      BY <3>1
    <3> QED BY <3>1, <3>2 DEF Reached
  <2> QED BY <1>11, <1>12, <1>13, <1>14, <2>2, <2>4 DEF MkInv
<1>16. CASE job.page # {bar}
  <2> DEFINE rest == job.page \ {bar}
  <2>1. job' = [job EXCEPT !.page = rest] /\ UNCHANGED <<results, torn>>
    BY <1>1, <1>16
  <2>2. /\ job'.at = "store" /\ job'.n = job.n /\ job'.began = job.began /\ job'.page = rest
        /\ job' \in [n : Nat, at : {"idle", "fetch", "store"}, attempt : Nat, began : Nat, page : {job'.page}]
        /\ Current' = Current
    BY <1>2, <1>3, <2>1 DEF Current
  <2>3. rest \subseteq job.page /\ rest # {}
    BY <1>1, <1>16
  <2>4. JobInv'
    <3> HIDE DEF rest
    <3> QED BY <1>2, <1>3, <1>7, <2>2, <2>3 DEF JobInv
  <2>5. Broken'
    BY <1>2, <2>2, <2>3 DEF Broken, Walking
  <2>6. ResultsInv'
    BY <1>2, <1>3, <2>1, <2>2 DEF ResultsInv
  <2> QED BY <1>11, <1>12, <1>13, <1>14, <2>4, <2>5, <2>6 DEF MkInv
<1> QED BY <1>15, <1>16

\* Half a day passes; a day that ends is written down as a replay sees it then.
LEMMA MkInvLater == MkInv /\ Later => MkInv'
<1> SUFFICES ASSUME MkInv, Later PROVE MkInv'
  OBVIOUS
<1>1. /\ now' = now + 1 /\ (job.at # "idle" => job.began = now)
      /\ past' = IF Day(now') = Today THEN past
                 ELSE Append(past, [prices |-> Replay(Today), macro |-> Points(Today)])
      /\ UNCHANGED <<prices, macro, job, results, torn, heard>>
  BY DEF Later, tables
<1>2. /\ now \in Nat /\ past \in Seq(View) /\ Len(past) = Today /\ JobInv
      /\ prices \in [Feeds -> SUBSET PriceRow] /\ macro \subseteq Vintage
      /\ heard \in [Feeds -> [at : Nat, upto : Int]] /\ \A f \in Feeds : heard[f].at <= now
  BY DEF MkInv, MarketType, PastInv
<1>3. /\ Today \in Nat /\ Today' \in Nat /\ Today <= Today' /\ Today' <= Today + 1 /\ Today' = Day(now')
  BY <1>1, <1>2 DEF Today, Day
<1>4. MarketType'
  <2>1. \A f \in Feeds : \A r \in prices[f] : r.at \in Nat /\ r.date \in Nat /\ r.at <= now /\ r.date <= Today
    BY <1>2 DEF MkInv, MarketType, PriceRow
  <2>2. \A f \in Feeds : \A r \in prices[f] : r.at <= now' /\ r.date <= Today'
    BY <1>1, <1>2, <1>3, <2>1
  <2>3. \A f \in Feeds : heard[f].at <= now'
    BY <1>1, <1>2
  <2> QED BY <1>1, <1>2, <2>2, <2>3 DEF MkInv, MarketType
<1>5. JobInv'
  <2>1. Current' = Current
    BY <1>1 DEF Current
  <2>2. ASSUME job.at = "store", Current # "fred"
        PROVE  job.page \subseteq Bar /\ \A b \in job.page : b.date <= Today'
    <3>1. job.page \subseteq Bar /\ \A b \in job.page : b.date \in Nat /\ b.date <= Today
      BY <1>2, <2>2 DEF JobInv, Bar
    <3> QED BY <1>3, <3>1
  <2>3. job.at # "idle" => job.began <= now' /\ now' <= job.began + 1
    BY <1>1, <1>2
  <2> QED BY <1>1, <1>2, <2>1, <2>2, <2>3 DEF JobInv, Day
<1>6. Replay(Today) \in SUBSET [feed : Feeds, date : Nat, close : {"provisional", "closed"}]
  BY <1>2 DEF Replay, PriceRow
<1>7. Points(Today) \in SUBSET [event : Nat, value : {"first", "revised"}]
  BY <1>2 DEF Points, Visible, Vintage
<1>8. ASSUME NEW d PROVE Replay(d)' = Replay(d) /\ Points(d)' = Points(d)
  BY <1>1 DEF Replay, Points, Visible, KnownBy
<1>9. PastInv' /\ ReplayTellsThePast'
  <2>1. CASE Today' = Today
    <3>1. past' = past
      BY <1>1, <1>3, <2>1
    <3> QED BY <1>2, <1>8, <2>1, <3>1 DEF PastInv, ReplayTellsThePast, MkInv
  <2>2. CASE Today' # Today
    <3> DEFINE v == [prices |-> Replay(Today), macro |-> Points(Today)]
    <3>1. v \in View /\ v.prices = Replay(Today) /\ v.macro = Points(Today)
      BY <1>6, <1>7 DEF View
    <3>2. past' = Append(past, v)
      BY <1>1, <1>3, <2>2
    <3> HIDE DEF v
    <3>3. /\ past' \in Seq(View) /\ Len(past') = Today + 1 /\ DOMAIN past' = 1..Today + 1
          /\ DOMAIN past = 1..Today
          /\ \A i \in 1..Today : past'[i] = past[i]
          /\ past'[Today + 1] = v
      BY <1>2, <1>3, <3>1, <3>2
    <3>4. PastInv'
      BY <1>3, <2>2, <3>3 DEF PastInv
    <3>5. ASSUME NEW i \in DOMAIN past'
          PROVE  Replay(i - 1) \subseteq past'[i].prices /\ Points(i - 1) = past'[i].macro
      <4>1. CASE i \in 1..Today
        BY <3>3, <4>1 DEF MkInv, ReplayTellsThePast
      <4>2. CASE i = Today + 1
        <5>1. i - 1 = Today
          BY <1>3, <4>2
        <5> QED BY <3>1, <3>3, <4>2, <5>1
      <4> QED BY <1>3, <3>3, <4>1, <4>2
    <3>6. ReplayTellsThePast'
      BY <1>8, <3>5 DEF ReplayTellsThePast
    <3> QED BY <3>4, <3>6
  <2> QED BY <2>1, <2>2
<1>10. HeardInv'
  <2>1. Broken' <=> Broken
    BY <1>1 DEF Broken, Walking, Current
  <2> QED BY <1>1, <2>1 DEF MkInv, HeardInv, Reached
<1>11. ResultsInv'
  BY <1>1 DEF MkInv, ResultsInv
<1> QED BY <1>4, <1>5, <1>9, <1>10, <1>11 DEF MkInv

LEMMA MkInvNext == MkInv /\ [MarketNext]_marketVars => MkInv'
<1> SUFFICES ASSUME MkInv, [MarketNext]_marketVars PROVE MkInv'
  OBVIOUS
<1>1. CASE UNCHANGED marketVars
  <2>1. UNCHANGED <<now, tables, past, job, results, torn, heard>>
    BY <1>1 DEF marketVars
  <2>2. JobInv' /\ torn' \in BOOLEAN
    BY <2>1 DEF MkInv, MarketType, JobInv, Current, Today, Day
  <2>3. ResultsInv' /\ (Broken => Broken')
    BY <2>1 DEF MkInv, ResultsInv, Broken, Walking, Current
  <2> QED BY <2>1, <2>2, <2>3, SameData
<1> QED
  BY <1>1, MkInvLater, MkInvStartPass, MkInvFetchSucceeds, MkInvFails, MkInvStoreStooq,
     MkInvStoreFred, MkInvStoreAlpaca DEF MarketNext

\* What every reachable state of the two databases has, and what each step keeps.
THEOREM MarketShape == MarketSpec => []MkInv
<1> QED BY MkInvInit, MkInvNext, PTL DEF MarketSpec

\* No later ingestion, revision or retry changes what a replay of an earlier day is shown,
\* however passes fail, tear or die (store_price, upsert_macro, replay_prices, point_in_time).
THEOREM PastIsTold == MarketSpec => []ReplayTellsThePast
<1> QED BY MarketShape, PTL DEF MkInv

----------------------------------------------------------------------------
\* A name is called fresh on a vendor's answer within the limit, and the table reaches as far
\* as that answer did, although the gate looks at stamps only: unless a walk over the answer
\* is under way or broke off, and then its pass does not say that it was stored
\* (check_symbol_freshness, data_eligible, store_price, run_ingestion).
THEOREM EligibleIsAnswered == MarketSpec => []FreshMeansAnswered
<1>1. MkInv => FreshMeansAnswered
  <2> SUFFICES ASSUME MkInv, Eligible
               PROVE  \E f \in Feeds :
                         /\ heard[f].upto >= 0 /\ heard[f].at >= now - MaxAge
                         /\ \/ NewestBar >= heard[f].upto
                            \/ f = "alpaca" /\ (Walking \/ (torn /\ results["alpaca"] # "stored"))
    BY DEF FreshMeansAnswered
  <2> DEFINE Stamps == {r.at : r \in Rows}
             Dates == {r.date : r \in Rows}
  <2>1. now \in Nat /\ Today \in Nat /\ MaxAge \in Nat
    <3>1. now \in Nat /\ MaxAge \in Nat
      BY MarketConstants DEF MkInv, MarketType
    <3>2. now \in Int /\ now <= now /\ 0 <= now
      BY <3>1
    <3> QED BY <3>1, <3>2, DayIs DEF Today
  <2>2. \A r \in Rows : r \in PriceRow /\ r.at <= now /\ r.date <= Today
    BY DEF Rows, MkInv, MarketType
  <2>3. Rows # {} /\ IsFresh(now - Max(Stamps))
    BY DEF Eligible
  <2>4. Stamps \subseteq Nat /\ Stamps # {} /\ \A x \in Stamps : x <= now
    BY <2>2, <2>3 DEF PriceRow
  <2>5. Dates \subseteq Nat /\ Dates # {} /\ \A x \in Dates : x <= Today
    BY <2>2, <2>3 DEF PriceRow
  <2>6. Max(Stamps) \in Stamps
    <3> HIDE DEF Stamps
    <3> QED BY <2>1, <2>4, Greatest
  <2>7. Max(Dates) \in Nat /\ \A y \in Dates : y <= Max(Dates)
    <3> HIDE DEF Dates
    <3> QED BY <2>1, <2>5, Greatest
  <2>8. PICK r \in Rows : r.at = Max(Stamps)
    BY <2>6
  <2>9. PICK f \in Feeds : r \in prices[f]
    BY <2>8 DEF Rows
  <2>10. r.at \in Nat /\ now - r.at <= MaxAge
    BY <2>2, <2>3, <2>8 DEF IsFresh, PriceRow
  <2>11. heard[f].at \in Nat /\ r.at <= heard[f].at /\ heard[f].upto \in Int /\ heard[f].upto >= 0
    BY <2>9 DEF MkInv, HeardInv, MarketType
  <2>12. heard[f].at >= now - MaxAge
    BY <2>1, <2>10, <2>11
  <2>13. CASE Reached(f)
    <3>1. PICK q \in prices[f] : q.date >= heard[f].upto
      BY <2>13 DEF Reached
    <3>2. q \in Rows
      BY DEF Rows
    <3>3. q.date \in Dates
      BY <3>2
    <3>4. q.date <= Max(Dates) /\ q.date \in Nat
      BY <2>5, <2>7, <3>3
    <3> HIDE DEF Dates
    <3>5. Max(Dates) >= heard[f].upto
      BY <2>7, <2>11, <3>1, <3>4
    <3> QED BY <2>11, <2>12, <3>5 DEF NewestBar, Dates
  <2>14. CASE f = "alpaca" /\ Broken
    BY <2>11, <2>12, <2>14 DEF MkInv, ResultsInv, Broken
  <2> QED BY <2>9, <2>13, <2>14 DEF MkInv, HeardInv
<1> QED BY <1>1, MarketShape, PTL

----------------------------------------------------------------------------
\* The life of one name.

RulesType ==
    /\ closes \in Seq(Prices) /\ day \in Nat /\ current \in BOOLEAN
    /\ pos \in [qty : Nat, cost : Nat, opened : Nat]

\* A flat row cost nothing: what a sale leaves, and what there was before the first buy.
FlatIsFree == pos.qty = 0 => pos.cost = 0

\* A bar of today is a bar.
RuInv ==
    /\ RulesType /\ FlatIsFree /\ NothingOutstays
    /\ current => closes # <<>>

LEMMA RuInvInit == RulesInit => RuInv
<1> SUFFICES ASSUME RulesInit PROVE RuInv
  OBVIOUS
<1>1. /\ closes = <<>> /\ current = FALSE /\ day = 0 /\ pos = [qty |-> 0, cost |-> 0, opened |-> 0]
  BY Zenon DEF RulesInit, Flat
<1>3. RulesType /\ FlatIsFree
  <2>1. closes \in Seq(Prices)
    BY <1>1
  <2>2. pos \in [qty : Nat, cost : Nat, opened : Nat] /\ pos.cost = 0
    BY <1>1
  <2> QED BY <1>1, <2>1, <2>2, Zenon DEF RulesType, FlatIsFree
<1>2. NothingOutstays
  BY DEF RulesInit, NothingOutstays
<1> QED BY <1>1, <1>2, <1>3 DEF RuInv

\* What a lot more, bought at the last close, does to a position that is within its limits.
LEMMA LotWithin ==
    ASSUME NEW p \in Nat, p # 0, NEW q \in Nat, NEW c \in Nat,
           (q = 0 /\ c = 0) \/ (92 * c < 100 * p * q /\ 100 * p * q < 115 * c)
    PROVE  92 * (c + p) < 100 * p * (q + 1) /\ 100 * p * (q + 1) < 115 * (c + p)
<1>1. 100 * p * (q + 1) = 100 * p * q + 100 * p
  OBVIOUS
<1>2. 92 * (c + p) = 92 * c + 92 * p /\ 115 * (c + p) = 115 * c + 115 * p
  OBVIOUS
<1>3. 92 * p < 100 * p /\ 100 * p < 115 * p
  OBVIOUS
<1>4. CASE q = 0 /\ c = 0
  <2>1. 100 * p * q = 0
    BY <1>4
  <2> QED BY <1>1, <1>2, <1>3, <1>4, <2>1
<1>5. CASE 92 * c < 100 * p * q /\ 100 * p * q < 115 * c
  <2> DEFINE v == 100 * p * q
  <2>1. v \in Nat
    OBVIOUS
  <2>2. 92 * c < v /\ v < 115 * c /\ 100 * p * (q + 1) = v + 100 * p
    BY <1>1, <1>5
  <2> HIDE DEF v
  <2> QED BY <1>2, <1>3, <2>1, <2>2
<1> QED BY <1>4, <1>5

LEMMA RuInvTick == RuInv /\ Tick => RuInv'
<1> SUFFICES ASSUME RuInv, Tick PROVE RuInv'
  OBVIOUS
<1> DEFINE leg == Bought(Proposers)
           kept == IF Sells THEN Sell(pos) ELSE pos
<1>1. /\ pos' = IF leg = "none" THEN kept ELSE Buy(kept)
      /\ UNCHANGED <<stress, inputs, closes, current, standing, day>>
  BY DEF Tick, sharia
<1>2. /\ closes \in Seq(Prices) /\ day \in Nat /\ pos \in [qty : Nat, cost : Nat, opened : Nat]
      /\ MaxHold \in Nat \ {0} /\ Prices \subseteq Nat \ {0} /\ current \in BOOLEAN
  BY RuleConstants DEF RuInv, RulesType
<1>3. closes # <<>> => LastClose \in Nat \ {0}
  <2>1. closes # <<>> => Last(closes) \in Prices
    BY <1>2 DEF Last
  <2> QED BY <1>2, <2>1 DEF LastClose
<1>4. leg # "none" => ~Sells /\ standing = "compliant" /\ closes # <<>>
  BY DEF Bought, Proposers, RuInv
<1>5. CASE Sells
  <2>1. pos' = [pos EXCEPT !.qty = 0, !.cost = 0]
    BY <1>1, <1>4, <1>5 DEF Sell
  <2>2. pos' \in [qty : Nat, cost : Nat, opened : Nat] /\ pos'.qty = 0 /\ pos'.cost = 0
    BY <1>2, <2>1
  <2> QED BY <1>1, <1>2, <2>2 DEF RuInv, RulesType, NothingOutstays, FlatIsFree
<1>6. CASE ~Sells
  <2>1. kept = pos
    BY <1>6
  <2>2. ASSUME pos.qty > 0, closes # <<>>, standing # "unlisted"
        PROVE  /\ standing = "compliant" /\ day - pos.opened < MaxHold
               /\ 92 * pos.cost < 100 * LastClose * pos.qty
               /\ 100 * LastClose * pos.qty < 115 * pos.cost
    <3> DEFINE value == 100 * LastClose * pos.qty
    <3>1. ExitRule \in {"none", "unlisted_holding"} /\ pos.qty # 0
      BY <1>6, <2>2 DEF Sells
    <3>2. /\ standing = "compliant" /\ ~(value <= 92 * pos.cost) /\ ~(value >= 115 * pos.cost)
          /\ ~(day - pos.opened >= MaxHold)
      BY <2>2, <3>1 DEF ExitRule
    <3>3. value \in Nat /\ 92 * pos.cost \in Nat /\ 115 * pos.cost \in Nat
      BY <1>2, <1>3, <2>2
    <3>4. day - pos.opened \in Int /\ MaxHold \in Nat
      BY <1>2
    <3> HIDE DEF value
    <3>5. 92 * pos.cost < value /\ value < 115 * pos.cost /\ day - pos.opened < MaxHold
      BY <3>2, <3>3, <3>4
    <3> QED BY <3>2, <3>5 DEF value
  <2>3. CASE leg = "none"
    <3>1. pos' = pos
      BY <1>1, <2>1, <2>3
    <3>2. LastClose' = LastClose
      BY <1>1 DEF LastClose
    <3>3. NothingOutstays'
      <4> SUFFICES ASSUME pos.qty > 0, closes # <<>>, standing # "unlisted"
                   PROVE  /\ standing = "compliant" /\ day - pos.opened < MaxHold
                          /\ 100 * LastClose * pos.qty \in (92 * pos.cost + 1)..(115 * pos.cost - 1)
        BY <1>1, <3>1, <3>2 DEF NothingOutstays
      <4> DEFINE value == 100 * LastClose * pos.qty
      <4>1. value \in Nat /\ 92 * pos.cost \in Nat /\ 115 * pos.cost \in Nat
        BY <1>2, <1>3
      <4>2. 92 * pos.cost < value /\ value < 115 * pos.cost
        BY <2>2
      <4> HIDE DEF value
      <4>3. value \in (92 * pos.cost + 1)..(115 * pos.cost - 1)
        BY <4>1, <4>2
      <4> QED BY <2>2, <4>3 DEF value
    <3> QED BY <1>1, <1>2, <3>1, <3>3 DEF RuInv, RulesType, FlatIsFree
  <2>4. CASE leg # "none"
    <3>1. /\ pos' = [qty |-> pos.qty + 1, cost |-> pos.cost + LastClose,
                     opened |-> IF pos.qty = 0 THEN day ELSE pos.opened]
          /\ standing = "compliant" /\ closes # <<>> /\ LastClose \in Nat \ {0}
      BY <1>1, <1>3, <1>4, <2>1, <2>4 DEF Buy
    <3>2. /\ pos' \in [qty : Nat, cost : Nat, opened : Nat] /\ pos'.qty # 0
          /\ pos'.qty = pos.qty + 1 /\ pos'.cost = pos.cost + LastClose
          /\ pos'.opened = IF pos.qty = 0 THEN day ELSE pos.opened
      BY <1>2, <3>1
    <3>3. LastClose' = LastClose
      BY <1>1 DEF LastClose
    <3>4. day - pos'.opened < MaxHold
      <4>1. CASE pos.qty = 0
        BY <1>2, <3>2, <4>1
      <4>2. CASE pos.qty # 0
        <5>1. pos.qty > 0
          BY <1>2, <4>2
        <5>2. day - pos.opened < MaxHold
          BY <2>2, <3>1, <5>1
        <5> QED BY <3>2, <4>2, <5>2
      <4> QED BY <4>1, <4>2
    <3>5. /\ 92 * pos'.cost < 100 * LastClose * pos'.qty
          /\ 100 * LastClose * pos'.qty < 115 * pos'.cost
      <4>1. pos.qty \in Nat /\ pos.cost \in Nat /\ LastClose \in Nat /\ LastClose # 0
        BY <1>2, <3>1
      <4>2. \/ pos.qty = 0 /\ pos.cost = 0
            \/ (92 * pos.cost < 100 * LastClose * pos.qty /\ 100 * LastClose * pos.qty < 115 * pos.cost)
        BY <2>2, <3>1, <4>1 DEF RuInv, FlatIsFree
      <4>3. /\ 92 * (pos.cost + LastClose) < 100 * LastClose * (pos.qty + 1)
            /\ 100 * LastClose * (pos.qty + 1) < 115 * (pos.cost + LastClose)
        BY <4>1, <4>2, LotWithin
      <4> QED BY <3>2, <4>3
    <3>6. 100 * LastClose * pos'.qty \in (92 * pos'.cost + 1)..(115 * pos'.cost - 1)
      <4> DEFINE value == 100 * LastClose * pos'.qty
      <4>1. value \in Nat /\ 92 * pos'.cost \in Nat /\ 115 * pos'.cost \in Nat
        <5>1. pos'.qty \in Nat /\ pos'.cost \in Nat /\ LastClose \in Nat
          BY <3>1, <3>2
        <5> QED BY <5>1
      <4>2. 92 * pos'.cost < value /\ value < 115 * pos'.cost
        BY <3>5
      <4> HIDE DEF value
      <4>3. value \in (92 * pos'.cost + 1)..(115 * pos'.cost - 1)
        BY <4>1, <4>2
      <4> QED BY <4>3 DEF value
    <3>7. NothingOutstays'
      BY <1>1, <3>1, <3>3, <3>4, <3>6 DEF NothingOutstays
    <3> QED BY <1>1, <1>2, <3>2, <3>7 DEF RuInv, RulesType, FlatIsFree
  <2> QED BY <2>3, <2>4
<1> QED BY <1>5, <1>6

LEMMA RuInvNext == RuInv /\ [RulesNext]_ruleVars => RuInv'
<1> SUFFICES ASSUME RuInv, [RulesNext]_ruleVars PROVE RuInv'
  OBVIOUS
<1>1. CASE NewDay
  <2>1. /\ day' = day + 1 /\ deal' = NoDeal /\ pos' = pos
        /\ \/ \E p \in Prices : closes' = Append(closes, p) /\ current' = TRUE
           \/ current' = FALSE /\ closes' = closes
    BY <1>1 DEF NewDay, book
  <2>2. closes' \in Seq(Prices) /\ (current' => closes' # <<>>) /\ current' \in BOOLEAN /\ day' \in Nat
    <3>1. closes \in Seq(Prices) /\ day \in Nat
      BY DEF RuInv, RulesType
    <3>2. ASSUME NEW p \in Prices, closes' = Append(closes, p)
          PROVE  closes' \in Seq(Prices) /\ closes' # <<>>
      <4>1. closes' \in Seq(Prices) /\ Len(closes') = Len(closes) + 1 /\ Len(closes) \in Nat
        BY <3>1, <3>2
      <4>2. Len(<<>>) = 0 /\ Len(closes') # 0
        BY <4>1
      <4> QED BY <4>1, <4>2, Zenon
    <3>3. CASE \E p \in Prices : closes' = Append(closes, p) /\ current' = TRUE
      BY <2>1, <3>1, <3>2, <3>3
    <3>4. CASE current' = FALSE /\ closes' = closes
      <4>1. day' \in Nat
        BY <2>1, <3>1
      <4>2. closes' \in Seq(Prices)
        BY <3>1, <3>4
      <4> QED BY <3>4, <4>1, <4>2, Zenon
    <3> QED BY <2>1, <3>3, <3>4
  <2> QED BY <2>1, <2>2 DEF RuInv, RulesType, NothingOutstays, FlatIsFree
<1>2. ASSUME NEW s, NEW v, Screen(s, v) \/ Release(s) PROVE RuInv'
  <2>1. deal' = NoDeal /\ UNCHANGED <<closes, current, day, pos>>
    BY <1>2 DEF Screen, Release, book
  <2> QED BY <2>1 DEF RuInv, RulesType, NothingOutstays, FlatIsFree
<1>3. CASE UNCHANGED ruleVars
  <2>1. UNCHANGED <<closes, current, standing, day, pos, deal, kind>>
    BY <1>3 DEF ruleVars, book, inputs, sharia
  <2> QED BY <2>1 DEF RuInv, RulesType, NothingOutstays, FlatIsFree, LastClose
<1> QED BY <1>1, <1>2, <1>3, RuInvTick DEF RulesNext

\* After a tick nothing is held past its stop, its target or its time, nor with a standing in
\* doubt: at any prices and any horizon, through any sequence of buys, sales, screenings and
\* days without a bar (evaluate_exits, buy, sell).
THEOREM LimitsAreKept == RulesSpec => []NothingOutstays
<1>1. RuInv => NothingOutstays
  BY DEF RuInv
<1> QED BY <1>1, RuInvInit, RuInvNext, PTL DEF RulesSpec

----------------------------------------------------------------------------
\* The k-th smallest is there.
LEMMA KthIs ==
    ASSUME NEW s \in Seq(Int), NEW k \in 1..Len(s)
    PROVE  LET x == KthSmallest(s, k)
           IN  /\ x \in ToSet(s) /\ x \in Int
               /\ Cardinality({i \in DOMAIN s : s[i] < x}) < k
               /\ Cardinality({i \in DOMAIN s : s[i] <= x}) >= k
<1> DEFINE UpTo(x) == {i \in DOMAIN s : s[i] <= x}
           Under(x) == {i \in DOMAIN s : s[i] < x}
           V == {i \in DOMAIN s : Cardinality(UpTo(s[i])) >= k}
<1>0. /\ Len(s) \in Nat /\ DOMAIN s = 1..Len(s) /\ \A i \in DOMAIN s : s[i] \in Int
      /\ Cardinality(DOMAIN s) = Len(s) /\ k \in Nat /\ k >= 1
  BY PlacesAre
<1>1. V # {}
  <2>1. PICK m \in DOMAIN s : \A i \in DOMAIN s : s[i] <= s[m]
    <3>1. DOMAIN s # {}
      BY <1>0
    <3> QED BY <3>1, MostAndLeast
  <2>2. UpTo(s[m]) = DOMAIN s
    BY <2>1
  <2>3. Cardinality(UpTo(s[m])) = Len(s)
    BY <1>0, <2>2
  <2>4. Cardinality(UpTo(s[m])) >= k
    <3> HIDE DEF UpTo
    <3> QED BY <1>0, <2>3
  <2>5. m \in V
    BY <2>4
  <2> QED BY <2>5
<1>2. V \subseteq DOMAIN s
  OBVIOUS
<1>3. PICK m \in V : \A i \in V : s[m] <= s[i]
  <2> HIDE DEF V
  <2> QED BY <1>1, <1>2, MostAndLeast
<1>4. Cardinality(Under(s[m])) < k
  <2>1. Under(s[m]) \subseteq DOMAIN s
    OBVIOUS
  <2>2. CASE Under(s[m]) = {}
    <3>1. Cardinality(Under(s[m])) = 0
      BY <2>2, FS_EmptySet
    <3> QED BY <1>0, <3>1
  <2>3. CASE Under(s[m]) # {}
    <3>1. PICK p \in Under(s[m]) : \A i \in Under(s[m]) : s[i] <= s[p]
      BY <2>1, <2>3, MostAndLeast
    <3>2. p \in DOMAIN s /\ s[p] < s[m] /\ s[p] \in Int /\ s[m] \in Int
      BY <1>0
    <3>3. Under(s[m]) = UpTo(s[p])
      <4>1. ASSUME NEW i \in DOMAIN s PROVE s[i] < s[m] <=> s[i] <= s[p]
        <5>1. s[i] \in Int
          BY <1>0
        <5>2. s[i] < s[m] => i \in Under(s[m])
          OBVIOUS
        <5>3. s[i] < s[m] => s[i] <= s[p]
          BY <3>1, <5>2
        <5> QED BY <3>2, <5>1, <5>3
      <4> QED BY <4>1
    <3>4. p \notin V
      <4> HIDE DEF V
      <4> QED BY <1>3, <3>2
    <3>5. ~(Cardinality(UpTo(s[p])) >= k)
      BY <3>2, <3>4
    <3>6. Cardinality(UpTo(s[p])) \in Nat
      <4>1. UpTo(s[p]) \subseteq DOMAIN s
        OBVIOUS
      <4> HIDE DEF UpTo
      <4> QED BY <4>1, PlacesAre
    <3> HIDE DEF UpTo, Under
    <3> QED BY <1>0, <3>3, <3>5, <3>6
  <2> QED BY <2>2, <2>3
<1>5. Cardinality(UpTo(s[m])) >= k /\ s[m] \in ToSet(s)
  BY DEF ToSet
<1>6. \E x \in ToSet(s) : /\ Cardinality({i \in DOMAIN s : s[i] < x}) < k
                          /\ Cardinality({i \in DOMAIN s : s[i] <= x}) >= k
  BY <1>4, <1>5
<1>7. ToSet(s) \subseteq Int
  BY <1>0 DEF ToSet
<1>8. PICK x : x = KthSmallest(s, k)
  OBVIOUS
<1>9. /\ x \in ToSet(s) /\ Cardinality({i \in DOMAIN s : s[i] < x}) < k
      /\ Cardinality({i \in DOMAIN s : s[i] <= x}) >= k
  BY <1>6, <1>8 DEF KthSmallest
<1> QED BY <1>7, <1>8, <1>9

\* What is above it, and that ranks grow.
LEMMA KthSplits ==
    ASSUME NEW s \in Seq(Int), NEW k \in 1..Len(s)
    PROVE  /\ Cardinality({i \in DOMAIN s : s[i] >= KthSmallest(s, k)}) >= Len(s) - k + 1
           /\ \A j \in 1..Len(s) : k <= j => KthSmallest(s, k) <= KthSmallest(s, j)
<1>1. PICK x : x = KthSmallest(s, k)
  OBVIOUS
<1>2. x \in Int /\ Cardinality({i \in DOMAIN s : s[i] < x}) < k
  BY <1>1, KthIs
<1> DEFINE L == {i \in DOMAIN s : s[i] < x}
           U == {i \in DOMAIN s : s[i] >= x}
<1>3. Len(s) \in Nat /\ k \in Nat /\ \A i \in DOMAIN s : s[i] \in Int
  OBVIOUS
<1>4. Cardinality(U) >= Len(s) - k + 1
  <2>1. L \cup U = DOMAIN s /\ L \cap U = {} /\ L \subseteq DOMAIN s /\ U \subseteq DOMAIN s
    <3>1. \A i \in DOMAIN s : s[i] \in Int /\ (s[i] < x <=> ~(s[i] >= x))
      BY <1>2, <1>3
    <3>2. L \subseteq DOMAIN s /\ U \subseteq DOMAIN s
      OBVIOUS
    <3>3. \A i \in DOMAIN s : i \in L <=> i \notin U
      BY <3>1
    <3> HIDE DEF L, U
    <3> QED BY <3>2, <3>3
  <2>2. Cardinality(L) < k
    BY <1>2
  <2> HIDE DEF L, U
  <2>3. IsFiniteSet(L) /\ IsFiniteSet(U) /\ Cardinality(L) \in Nat /\ Cardinality(U) \in Nat
    BY <2>1, PlacesAre
  <2>4. Cardinality(DOMAIN s) = Len(s)
    BY PlacesAre
  <2>5. Cardinality(L \cup U) = Cardinality(L) + Cardinality(U) - Cardinality(L \cap U)
    BY <2>3, FS_Union
  <2>6. Cardinality(L \cap U) = 0
    BY <2>1, FS_EmptySet
  <2> QED BY <1>3, <2>1, <2>2, <2>3, <2>4, <2>5, <2>6
<1>5. ASSUME NEW j \in 1..Len(s), k <= j PROVE x <= KthSmallest(s, j)
  <2>1. PICK y : y = KthSmallest(s, j)
    OBVIOUS
  <2>2. y \in Int /\ Cardinality({i \in DOMAIN s : s[i] <= y}) >= j
    BY <2>1, KthIs
  <2>3. SUFFICES ASSUME y < x PROVE FALSE
    BY <1>2, <2>1, <2>2
  <2> DEFINE W == {i \in DOMAIN s : s[i] <= y}
  <2>4. W \subseteq L /\ L \subseteq DOMAIN s
    BY <1>2, <1>3, <2>2, <2>3
  <2>5. Cardinality(W) >= j /\ Cardinality(L) < k
    BY <1>2, <2>2
  <2> HIDE DEF W, L
  <2>6. Cardinality(W) <= Cardinality(L) /\ Cardinality(W) \in Nat /\ Cardinality(L) \in Nat
    BY <2>4, PlacesAre
  <2> QED BY <1>3, <1>5, <2>5, <2>6
<1> QED BY <1>1, <1>4, <1>5

\* A median that reaches a level is reached by half of the numbers, or more.
LEMMA MedianIsBacked ==
    ASSUME NEW s \in Seq(Int), s # <<>>, NEW a \in Int, 2 * Median2(s) >= a
    PROVE  2 * Cardinality({i \in DOMAIN s : 4 * s[i] >= a}) >= Len(s)
<1>1. PICK n : n = Len(s)
  OBVIOUS
<1>2. n \in Nat /\ n >= 1
  BY <1>1
<1> DEFINE k == (n + 1) \div 2
           j == n \div 2 + 1
<1>3. k \in 1..n /\ j \in 1..n /\ k <= j /\ 2 * (n - j + 1) >= n
  BY <1>2
<1>4. Median2(s) = KthSmallest(s, k) + KthSmallest(s, j)
  BY <1>1 DEF Median2
<1> HIDE DEF k, j
<1>5. PICK x : x = KthSmallest(s, j)
  OBVIOUS
<1>6. KthSmallest(s, k) \in Int /\ x \in Int /\ KthSmallest(s, k) <= x
  BY <1>1, <1>3, <1>5, KthIs, KthSplits
<1>7. 4 * x >= a
  BY <1>4, <1>5, <1>6
<1> DEFINE U == {i \in DOMAIN s : s[i] >= x}
           B == {i \in DOMAIN s : 4 * s[i] >= a}
<1>8. Cardinality(U) >= n - j + 1
  BY <1>1, <1>3, <1>5, KthSplits
<1>9. U \subseteq B /\ B \subseteq DOMAIN s
  <2>1. \A i \in DOMAIN s : s[i] \in Int
    OBVIOUS
  <2> QED BY <1>6, <1>7, <2>1
<1> HIDE DEF U, B
<1>10. Cardinality(U) <= Cardinality(B) /\ Cardinality(U) \in Nat /\ Cardinality(B) \in Nat
  BY <1>9, PlacesAre
<1>11. 2 * Cardinality(B) >= n
  BY <1>2, <1>3, <1>8, <1>10
<1> QED BY <1>1, <1>11 DEF B

LEMMA MedianType ==
    ASSUME NEW s \in Seq(Int), s # <<>>
    PROVE  Median2(s) \in Int
<1>1. PICK n : n = Len(s)
  OBVIOUS
<1>2. n \in Nat /\ n >= 1
  BY <1>1
<1>3. (n + 1) \div 2 \in 1..n /\ n \div 2 + 1 \in 1..n
  BY <1>2
<1>4. KthSmallest(s, (n + 1) \div 2) \in Int /\ KthSmallest(s, n \div 2 + 1) \in Int
  BY <1>1, <1>3, KthIs
<1> QED BY <1>1, <1>4 DEF Median2

----------------------------------------------------------------------------
\* The forward returns are numbers, one for each day the horizon has passed since.
LEMMA ReturnsAre ==
    ASSUME closes \in Seq(Prices)
    PROVE  ForwardReturns \in Seq(Int)
<1>1. /\ Len(closes) \in Nat /\ Horizon \in Nat /\ Horizon >= 1
      /\ \A i \in 1..Len(closes) : closes[i] \in Nat \ {0}
  <2>1. Prices \subseteq Nat \ {0} /\ Horizon \in Nat \ {0}
    BY RuleConstants
  <2>2. \A i \in 1..Len(closes) : closes[i] \in Prices
    OBVIOUS
  <2>3. Len(closes) \in Nat /\ Horizon \in Nat /\ Horizon >= 1
    BY <2>1
  <2> QED BY <2>1, <2>2, <2>3, Zenon
<1>2. PICK n : n = Max({0, Len(closes) - Horizon})
  OBVIOUS
<1>3. n \in {0, Len(closes) - Horizon} /\ n >= 0
  <2>1. PICK d \in Int : d = Len(closes) - Horizon
    BY <1>1
  <2>2. Max({0, d}) \in {0, d} /\ Max({0, d}) >= 0
    <3>1. 0 \in Int
      OBVIOUS
    <3> QED BY <2>1, <3>1, OfTwo, Zenon
  <2> QED BY <1>2, <2>1, <2>2
<1>4. n \in Nat /\ (n = 0 \/ n + Horizon = Len(closes))
  BY <1>1, <1>3
<1>5. ASSUME NEW i \in 1..n PROVE (closes[i + Horizon] * 1000000) \div closes[i] - 1000000 \in Int
  <2>1. i \in 1..Len(closes) /\ i + Horizon \in 1..Len(closes)
    BY <1>1, <1>4
  <2>2. closes[i] \in Nat \ {0} /\ closes[i + Horizon] \in Nat
    BY <1>1, <2>1
  <2> QED BY <2>2
<1>6. ForwardReturns = [i \in 1..n |-> (closes[i + Horizon] * 1000000) \div closes[i] - 1000000]
  BY <1>2 DEF ForwardReturns
<1>7. ForwardReturns \in [1..n -> Int]
  BY <1>5, <1>6
<1> QED BY <1>4, <1>7

\* The window of the decay test is a part of the returns.
LEMMA WindowIs ==
    ASSUME NEW n \in Nat, n >= 1
    PROVE  DecayWindow(n) \in 1..n
<1>1. MinRegimeSample \in Nat /\ MinRegimeSample >= 1 /\ n \div 4 \in Nat
  BY RuleConstants
<1>0. PICK q \in Nat : q = n \div 4
  BY <1>1
<1>2. PICK m : m = Max({MinRegimeSample, q})
  OBVIOUS
<1>3. m \in Nat /\ m >= 1
  <2>1. m \in {MinRegimeSample, q} /\ m >= MinRegimeSample
    <3>1. MinRegimeSample \in Int /\ q \in Int
      BY <1>1
    <3> QED BY <1>2, <3>1, OfTwo, Zenon
  <2> QED BY <1>1, <2>1
<1>4. Min({n, m}) \in {n, m} /\ Min({n, m}) <= n
  BY <1>3, OfTwo
<1> QED BY <1>0, <1>2, <1>3, <1>4 DEF DecayWindow

\* The newest so many of a sequence.
LEMMA NewestAre ==
    ASSUME NEW s \in Seq(Int), NEW w \in 1..Len(s)
    PROVE  /\ Newest(s, w) \in Seq(Int) /\ Len(Newest(s, w)) = w
           /\ \A i \in 1..w : Newest(s, w)[i] = s[Len(s) - (w - i)]
<1>1. Newest(s, w) = SubSeq(s, Len(s) - w + 1, Len(s))
  BY DEF Newest
<1>2. Len(s) - w + 1 \in 1..Len(s) + 1 /\ Len(s) \in Nat /\ w \in Nat
  OBVIOUS
<1>3. Newest(s, w) \in Seq(Int) /\ Len(Newest(s, w)) = w
  BY <1>1, <1>2
<1>4. ASSUME NEW i \in 1..w PROVE Newest(s, w)[i] = s[Len(s) - (w - i)]
  <2>1. i \in 1..(Len(s) - (Len(s) - w + 1) + 1)
    BY <1>2
  <2>2. Newest(s, w)[i] = s[Len(s) - w + 1 + i - 1]
    BY <1>1, <1>2, <2>1
  <2>3. Len(s) - w + 1 + i - 1 = Len(s) - (w - i)
    BY <1>2
  <2> QED BY <2>2, <2>3
<1> QED BY <1>3, <1>4

Backed ==
    LET rs == ForwardReturns
        newest == DecayWindow(Len(rs))
        beat == {i \in DOMAIN rs : rs[i] - bench >= ExcessBar}
        kept == {i \in 0..newest - 1 : 4 * rs[Len(rs) - i] >= Median2(rs)}
        lost == {i \in DOMAIN rs : rs[i] < WorstFloor}
    IN  /\ Len(rs) >= MinWindows /\ 2 * Cardinality(beat) >= Len(rs)
        /\ Median2(rs) > 0 => 2 * Cardinality(kept) >= newest
        /\ terms.small \/ lost = {}

\* What the proof allows is backed.
LEMMA AllowedIsBacked ==
    ASSUME closes \in Seq(Prices), bench \in BenchmarkMedians, terms \in Terms, WouldAllow
    PROVE  Backed
<1>1. PICK rs : rs = ForwardReturns
  OBVIOUS
<1>2. PICK bar : bar = ExcessBar
  OBVIOUS
<1>3. PICK m : m = Median2(rs)
  OBVIOUS
<1>4. rs \in Seq(Int) /\ Len(rs) \in Nat /\ DOMAIN rs = 1..Len(rs) /\ \A i \in DOMAIN rs : rs[i] \in Int
  BY <1>1, ReturnsAre
<1>5. /\ rs # <<>> /\ Len(rs) >= MinWindows
      /\ m - 2 * bench >= 2 * bar
      /\ Min(ToSet(rs)) >= WorstFloor \/ terms.small
      /\ m > 0 => 2 * Median2(Recent(rs)) >= m \/ ~(2 * Median2(Recent(rs)) < m)
  BY <1>1, <1>2, <1>3, Zenon DEF WouldAllow
<1>6. bench \in Int /\ bar \in Int
  <2>1. bench \in Int /\ terms.tested \in Int
    BY RuleConstants
  <2>2. PICK d \in Int : d = terms.tested - 1
    BY <2>1
  <2>3. Min({10, d}) \in {10, d}
    <3>1. 10 \in Int
      OBVIOUS
    <3> QED BY <2>2, <3>1, OfTwo, Zenon
  <2> QED BY <1>2, <2>1, <2>2, <2>3 DEF ExcessBar
<1>7. m \in Int
  BY <1>3, <1>4, <1>5, MedianType
<1>8. Len(rs) >= 1
  BY <1>4, <1>5
<1>9. 2 * Cardinality({i \in DOMAIN rs : rs[i] - bench >= bar}) >= Len(rs)
  <2>1. PICK a \in Int : a = 4 * (bench + bar)
    BY <1>6
  <2>2. 2 * m >= a
    BY <1>5, <1>6, <1>7, <2>1
  <2>3. 2 * Cardinality({i \in DOMAIN rs : 4 * rs[i] >= a}) >= Len(rs)
    BY <1>3, <1>4, <1>5, <2>2, MedianIsBacked
  <2>4. \A i \in DOMAIN rs : 4 * rs[i] >= a <=> rs[i] - bench >= bar
    BY <1>4, <1>6, <2>1
  <2>5. {i \in DOMAIN rs : 4 * rs[i] >= a} = {i \in DOMAIN rs : rs[i] - bench >= bar}
    BY <2>4
  <2> QED BY <2>3, <2>5
<1>10. PICK w : w = DecayWindow(Len(rs))
  OBVIOUS
<1>11. w \in 1..Len(rs) /\ w \in Nat /\ w >= 1
  BY <1>4, <1>8, <1>10, WindowIs
<1>12. ASSUME m > 0 PROVE 2 * Cardinality({i \in 0..w - 1 : 4 * rs[Len(rs) - i] >= m}) >= w
  <2>1. PICK r : r = Recent(rs)
    OBVIOUS
  <2>2. r = Newest(rs, w)
    BY <1>10, <2>1 DEF Recent
  <2>3. r \in Seq(Int) /\ Len(r) = w /\ \A i \in 1..w : r[i] = rs[Len(rs) - (w - i)]
    BY <1>4, <1>11, <2>2, NewestAre
  <2>4. r # <<>> /\ DOMAIN r = 1..w
    BY <1>11, <2>3
  <2>5. 2 * Median2(r) >= m
    <3>1. Median2(r) \in Int
      BY <2>3, <2>4, MedianType
    <3> QED BY <1>5, <1>7, <1>12, <2>1, <3>1
  <2> DEFINE B == {i \in DOMAIN r : 4 * r[i] >= m}
             K == {i \in 0..w - 1 : 4 * rs[Len(rs) - i] >= m}
  <2>6. 2 * Cardinality(B) >= w
    BY <1>7, <2>3, <2>4, <2>5, MedianIsBacked
  <2> DEFINE f == [i \in B |-> w - i]
  <2>7. B \subseteq 1..w /\ K \subseteq 0..w - 1
    BY <2>4
  <2>8. ASSUME NEW i \in B PROVE w - i \in K
    BY <1>11, <2>3, <2>4
  <2>9. f \in Injection(B, K)
    <3>1. f \in [B -> K]
      BY <2>8
    <3>2. \A i, j \in B : f[i] = f[j] => i = j
      <4> HIDE DEF B
      <4> QED BY <1>11, <2>7
    <3> HIDE DEF f, B, K
    <3> QED BY <3>1, <3>2 DEF Injection, IsInjective
  <2>10. IsFiniteSet(K)
    <3>1. IsFiniteSet(0..w - 1)
      BY <1>11, FS_Interval
    <3> HIDE DEF K
    <3> QED BY <2>7, <3>1, FS_Subset
  <2> HIDE DEF f, K, B
  <2>11. Cardinality(B) <= Cardinality(K) /\ IsFiniteSet(B)
    BY <2>9, <2>10, FS_Injection
  <2>12. Cardinality(B) \in Nat /\ Cardinality(K) \in Nat
    BY <2>10, <2>11, FS_CardinalityType
  <2>13. 2 * Cardinality(K) >= w
    BY <1>11, <2>6, <2>11, <2>12
  <2> QED BY <2>13 DEF K
<1>13. terms.small \/ {i \in DOMAIN rs : rs[i] < WorstFloor} = {}
  <2>1. SUFFICES ASSUME Min(ToSet(rs)) >= WorstFloor, NEW j \in DOMAIN rs PROVE ~(rs[j] < WorstFloor)
    BY <1>5
  <2>2. PICK k \in DOMAIN rs : \A i \in DOMAIN rs : rs[k] <= rs[i]
    BY <1>4, MostAndLeast
  <2>3. \E x \in ToSet(rs) : \A y \in ToSet(rs) : x <= y
    BY <2>2 DEF ToSet
  <2>4. Min(ToSet(rs)) \in ToSet(rs) /\ \A y \in ToSet(rs) : Min(ToSet(rs)) <= y
    BY <2>3 DEF Min
  <2>5. Min(ToSet(rs)) \in Int /\ Min(ToSet(rs)) <= rs[j] /\ rs[j] \in Int
    BY <1>4, <2>4 DEF ToSet
  <2> QED BY <2>1, <2>5 DEF WorstFloor
<1> QED BY <1>1, <1>2, <1>3, <1>5, <1>9, <1>10, <1>12, <1>13 DEF Backed

LEMMA BackedStands ==
    ASSUME UNCHANGED <<closes, bench, terms>>
    PROVE  Backed' = Backed
BY DEF Backed, ForwardReturns, ExcessBar

\* What a buy on proof rests on.
DealInv ==
    /\ closes \in Seq(Prices) /\ bench \in BenchmarkMedians /\ terms \in Terms
    /\ BuysAreBacked

LEMMA DealIsBacked == BuysAreBacked <=> (deal.bought = "edge" /\ terms.mode = "enforcing" => Backed)
BY Zenon DEF BuysAreBacked, Backed

LEMMA DealIsBackedNext == BuysAreBacked' <=> (deal'.bought = "edge" /\ terms'.mode = "enforcing" => Backed')
BY Zenon DEF BuysAreBacked, Backed

LEMMA DealInvNext == DealInv /\ [RulesNext]_ruleVars => DealInv'
<1> SUFFICES ASSUME DealInv, [RulesNext]_ruleVars PROVE DealInv'
  OBVIOUS
<1>0. UNCHANGED <<bench, terms>>
  BY DEF RulesNext, Tick, NewDay, Screen, Release, ruleVars, inputs
<1>1. CASE Tick
  <2>1. UNCHANGED closes /\ deal' = [sold |-> ExitRule, bought |-> Bought(Proposers), by |-> Proposers]
    BY <1>1 DEF Tick
  <2>2. ASSUME deal'.bought = "edge", terms'.mode = "enforcing" PROVE Backed'
    <3>1. Bought(Proposers) = "edge" /\ terms.mode = "enforcing"
      BY <1>0, <2>1, <2>2
    <3>2. TradeAllowed
      BY <3>1 DEF Bought
    <3>3. WouldAllow
      BY <3>1, <3>2 DEF TradeAllowed
    <3>4. Backed
      BY <3>3, AllowedIsBacked DEF DealInv
    <3> QED BY <1>0, <2>1, <3>4, BackedStands
  <2>3. BuysAreBacked'
    BY <2>2, DealIsBackedNext
  <2> QED BY <1>0, <2>1, <2>3 DEF DealInv
<1>2. CASE NewDay \/ (\E s, v : Screen(s, v) \/ Release(s))
  <2>1. deal' = NoDeal /\ closes' \in Seq(Prices)
    <3>1. deal' = NoDeal /\ (closes' = closes \/ \E p \in Prices : closes' = Append(closes, p))
      BY <1>2 DEF NewDay, Screen, Release
    <3> QED BY <3>1 DEF DealInv
  <2>2. deal'.bought # "edge"
    BY <2>1 DEF NoDeal
  <2>3. BuysAreBacked'
    BY <2>2, DealIsBackedNext
  <2> QED BY <1>0, <2>1, <2>3 DEF DealInv
<1>3. CASE UNCHANGED ruleVars
  <2>1. UNCHANGED <<closes, bench, terms, deal>>
    BY <1>3 DEF ruleVars, inputs
  <2>2. Backed' = Backed
    BY <2>1, BackedStands
  <2>3. BuysAreBacked'
    BY <2>1, <2>2, DealIsBacked, DealIsBackedNext DEF DealInv
  <2> QED BY <2>1, <2>3 DEF DealInv
<1> QED BY <1>1, <1>2, <1>3 DEF RulesNext

\* A buy on proof, while the proof is enforced, had it: at any prices and horizon, half of
\* enough past windows beat the benchmark by the margin, half of the newest kept half of that
\* gain, and none lost a quarter (run_full_edge_proof, evaluate_signal_full).
THEOREM BuysRestOnProof == RulesSpec => []BuysAreBacked
<1>1. RulesInit => DealInv
  <2> SUFFICES ASSUME RulesInit PROVE DealInv
    OBVIOUS
  <2>1. deal.bought # "edge" /\ closes = <<>> /\ bench \in BenchmarkMedians /\ terms \in Terms
    BY DEF RulesInit, NoDeal
  <2>2. BuysAreBacked
    BY <2>1, DealIsBacked
  <2> QED BY <2>1, <2>2 DEF DealInv
<1>2. DealInv => BuysAreBacked
  BY DEF DealInv
<1> QED BY <1>1, <1>2, DealInvNext, PTL DEF RulesSpec

----------------------------------------------------------------------------
(* One more sign of fear moves only the scores of the cash regimes, and    *)
(* those only up; the regime changes to one of them or not at all, or      *)
(* stays one.                                                              *)

Fear == {"curve_inverted", "hy_wide", "vix_high", "unemployment_high", "gpr_high"}

VotesFor(fired, r) == {v \in Votes : v[1] \in fired /\ v[2] = r}
Weight == [v \in Votes |-> v[3]]

LEMMA VotesAre ==
    /\ IsFiniteSet(Votes) /\ Weight \in [Votes -> Nat]
    /\ "unknown" \notin Signals
    /\ \A v \in Votes : v[1] \in Fear => v[2] \in CashRegimes
<1>1. \A v \in Votes : v[3] \in Nat
  BY DEF Votes, SignalVotes
<1>2. \A v \in Votes : v[1] # "unknown"
  BY DEF Votes, SignalVotes
<1>3. \A v \in Votes : v[1] \in Fear => v[2] \in CashRegimes
  BY DEF Votes, SignalVotes, Fear, CashRegimes
<1>4. IsFiniteSet(Votes)
  <2> DEFINE f == <<<<"cpi_high", "INFLATION_SHOCK", 10>>, <<"cpi_low", "DISINFLATION_GROWTH", 7>>,
          <<"curve_inverted", "RECESSION_RISK", 10>>, <<"hy_wide", "RECESSION_RISK", 10>>,
          <<"vix_high", "GEOPOLITICAL_RISK_OFF", 10>>, <<"vix_high", "RECESSION_RISK", 5>>,
          <<"funds_high", "LIQUIDITY_TIGHTENING", 10>>, <<"funds_low", "LIQUIDITY_EXPANSION", 10>>,
          <<"oil_up", "COMMODITY_SUPPLY_SHOCK", 10>>, <<"usd_strong", "USD_STRENGTH_EM_PRESSURE", 8>>,
          <<"unemployment_high", "RECESSION_RISK", 5>>, <<"gpr_high", "GEOPOLITICAL_RISK_OFF", 10>>,
          <<"peg_drift", "GEOPOLITICAL_RISK_OFF", 10>>, <<"peg_drift", "USD_STRENGTH_EM_PRESSURE", 5>>>>
  <2>1. f \in [1..14 -> Votes]
    BY DEF Votes, SignalVotes
  <2>2. \A v \in Votes : \E i \in 1..14 : f[i] = v
    BY DEF Votes, SignalVotes
  <2>3. PICK n \in Nat : n = 14
    OBVIOUS
  <2> HIDE DEF f
  <2>4. IsFiniteSet(1..n)
    BY FS_Interval
  <2>5. f \in Surjection(1..n, Votes)
    BY <2>1, <2>2, <2>3 DEF Surjection
  <2> QED BY <2>4, <2>5, FS_Surjection
<1> QED BY <1>1, <1>2, <1>3, <1>4 DEF Signals, Weight

\* The scores are sums of votes.
LEMMA ScoresAreSums ==
    \E g : /\ Sums(Weight, Votes, g)
           /\ \A fired, r : Score(fired, r) = g[VotesFor(fired, r)]
<1>0. PICK g : Sums(Weight, Votes, g)
  BY VotesAre, SumsExist
<1>1. ASSUME NEW fired, NEW r PROVE Score(fired, r) = g[VotesFor(fired, r)]
  <2> DEFINE S == VotesFor(fired, r)
             Eq(q) == q = [T \in SUBSET S |-> IF T = {} THEN 0 ELSE First(T)[3] + q[T \ {First(T)}]]
             h == CHOOSE q : Eq(q)
  <2>1. IsFiniteSet(S) /\ S \subseteq Votes
    BY VotesAre, FS_Subset DEF VotesFor
  <2>2. PICK e : Sums(Weight, S, e)
    <3> HIDE DEF S
    <3> QED BY <2>1, SumsExist
  <2>3. \A T \in SUBSET S : T # {} => Weight[First(T)] = First(T)[3]
    <3> HIDE DEF S
    <3> QED BY <2>1 DEF First, Weight
  <2>4. ASSUME NEW q PROVE Sums(Weight, S, q) <=> Eq(q)
    <3> HIDE DEF S
    <3>1. ASSUME NEW T \in SUBSET S
          PROVE  (IF T = {} THEN 0 ELSE Weight[First(T)] + q[T \ {First(T)}])
                    = (IF T = {} THEN 0 ELSE First(T)[3] + q[T \ {First(T)}])
      BY <2>3
    <3>2. [T \in SUBSET S |-> IF T = {} THEN 0 ELSE Weight[First(T)] + q[T \ {First(T)}]]
             = [T \in SUBSET S |-> IF T = {} THEN 0 ELSE First(T)[3] + q[T \ {First(T)}]]
      BY <3>1
    <3> QED BY <3>2 DEF Sums
  <2>5. Eq(h)
    <3> HIDE DEF Eq
    <3> QED BY <2>2, <2>4
  <2>6. Sums(Weight, S, h)
    BY <2>4, <2>5
  <2>7. Score(fired, r) = h[S]
    BY DEF Score, MapThenSumSet, MapThenFoldSet, First, VotesFor
  <2> HIDE DEF S, h
  <2>8. h[S] = g[S]
    BY <1>0, <2>1, <2>6, SumsSame
  <2> QED BY <2>7, <2>8 DEF S
<1> QED BY <1>0, <1>1

\* More signals make no score smaller, and one of fear no other score larger.
LEMMA ScoresMove ==
    ASSUME NEW fired, NEW s, NEW r
    PROVE  /\ Score(fired, r) \in Nat /\ Score(fired \cup {s}, r) \in Nat
           /\ Score(fired, r) <= Score(fired \cup {s}, r)
           /\ s \in Fear /\ r \notin CashRegimes => Score(fired \cup {s}, r) = Score(fired, r)
<1> DEFINE T == VotesFor(fired, r)
           U == VotesFor(fired \cup {s}, r)
<1>1. PICK g : Sums(Weight, Votes, g) /\ \A f, q : Score(f, q) = g[VotesFor(f, q)]
  BY ScoresAreSums
<1>2. Score(fired, r) = g[T] /\ Score(fired \cup {s}, r) = g[U]
  BY <1>1
<1>3. T \subseteq U /\ U \subseteq Votes
  BY DEF VotesFor
<1>4. s \in Fear /\ r \notin CashRegimes => U = T
  BY VotesAre DEF VotesFor
<1> HIDE DEF T, U
<1>5. g[T] <= g[U] /\ g[T] \in Nat /\ g[U] \in Nat
  BY <1>1, <1>3, VotesAre, SumsGrow
<1> QED BY <1>2, <1>4, <1>5

LEMMA TheRegimes ==
    /\ Len(TiePriority) = 9 /\ DOMAIN TiePriority = 1..9
    /\ \A i \in 1..9 : /\ TiePriority[i] \in AllRegimes
                       /\ TiePriority[i] \in CashRegimes <=> i <= 2
                       /\ TiePriority[i] \in Calm <=> i >= 7
    /\ "RECOVERY" \in AllRegimes /\ "RECOVERY" \in Calm /\ "RECOVERY" \notin CashRegimes
<1>1. Len(TiePriority) = 9 /\ DOMAIN TiePriority = 1..9
  BY DEF TiePriority
<1>2. \A i \in 1..9 : /\ TiePriority[i] \in CashRegimes <=> i <= 2
                      /\ TiePriority[i] \in Calm <=> i >= 7
  BY DEF TiePriority, CashRegimes, Calm
<1>3. \A i \in 1..9 : TiePriority[i] \in AllRegimes
  BY <1>1 DEF AllRegimes, ToSet
<1>4. "RECOVERY" \in AllRegimes
  <2>1. TiePriority[9] = "RECOVERY" /\ 9 \in 1..9
    BY DEF TiePriority
  <2> QED BY <1>3, <2>1
<1>5. "RECOVERY" \in Calm /\ "RECOVERY" \notin CashRegimes
  BY DEF Calm, CashRegimes
<1> QED BY <1>1, <1>2, <1>3, <1>4, <1>5

\* The regime is the first in the priority of those with the best score.
LEMMA RegimeIs ==
    ASSUME NEW fired, fired \subseteq Signals
    PROVE  \E k \in 1..9 :
              /\ \A i \in 1..9 : /\ Score(fired, TiePriority[i]) <= Score(fired, TiePriority[k])
                                 /\ Score(fired, TiePriority[i]) = Score(fired, TiePriority[k]) => k <= i
              /\ Regime(fired) = IF Score(fired, TiePriority[k]) = 0 THEN "RECOVERY" ELSE TiePriority[k]
<1> DEFINE score == [i \in DOMAIN TiePriority |-> Score(fired, TiePriority[i])]
           best == Max(ToSet(score))
           I == {i \in 1..Len(score) : score[i] = best}
           k == SelectInSeq(score, LAMBDA x : x = best)
<1>1. \A i \in 1..9 : score[i] = Score(fired, TiePriority[i])
  BY TheRegimes
<1>2. score \in Seq(Int) /\ Len(score) = 9 /\ DOMAIN score = 1..9
  <2>1. DOMAIN score = 1..9 /\ score = [i \in 1..9 |-> score[i]]
    BY TheRegimes
  <2>2. \A i \in 1..9 : score[i] \in Int
    <3>1. \A i \in 1..9 : Score(fired, TiePriority[i]) \in Nat
      BY ScoresMove
    <3> HIDE DEF score
    <3> QED BY <1>1, <3>1
  <2> HIDE DEF score
  <2>3. PICK n \in Nat : n = 9
    OBVIOUS
  <2>4. score \in [1..n -> Int]
    BY <2>1, <2>2, <2>3
  <2>5. score \in Seq(Int) /\ Len(score) = n /\ DOMAIN score = 1..n
    BY <2>4
  <2> QED BY <2>3, <2>5
<1>3. k = IF I # {} THEN Min(I) ELSE 0
  BY DEF SelectInSeq
<1>4. Regime(fired) = IF best = 0 THEN "RECOVERY" ELSE TiePriority[k]
  <2>1. fired # {"unknown"}
    BY VotesAre
  <2> QED BY <2>1 DEF Regime
<1> HIDE DEF score
<1>5. best \in ToSet(score) /\ \A x \in ToSet(score) : best >= x
  <2>1. PICK m \in DOMAIN score : \A i \in DOMAIN score : score[i] <= score[m]
    <3>1. 1 \in DOMAIN score
      BY <1>2
    <3>2. DOMAIN score \subseteq DOMAIN score /\ DOMAIN score # {}
      BY <3>1
    <3> QED BY <1>2, <3>2, MostAndLeast
  <2>2. \E x \in ToSet(score) : \A y \in ToSet(score) : x >= y
    BY <1>2, <2>1 DEF ToSet
  <2> QED BY <2>2 DEF Max
<1> HIDE DEF best
<1>6. (\E i \in 1..9 : score[i] = best) /\ \A i \in 1..9 : score[i] <= best
  BY <1>2, <1>5 DEF ToSet
<1>7. I \subseteq Nat /\ I # {}
  <2>1. I = {i \in 1..9 : score[i] = best}
    BY <1>2
  <2> QED BY <1>6, <2>1
<1>8. Min(I) \in I /\ \A i \in I : Min(I) <= i
  <2> HIDE DEF I
  <2> QED BY <1>7, MinIs
<1> HIDE DEF k
<1>9. k \in 1..9 /\ score[k] = best /\ \A i \in 1..9 : score[i] = best => k <= i
  <2>1. k = Min(I)
    BY <1>3, <1>7
  <2>2. k \in I /\ \A i \in I : k <= i
    BY <1>8, <2>1
  <2> QED BY <1>2, <2>2
<1> QED BY <1>1, <1>4, <1>6, <1>9

LEMMA RunsInIs ==
    \A x \in DOMAIN RunsIn : RunsIn[x] \in {Calm, AllRegimes, AllRegimes \ CashRegimes}
BY DEF RunsIn

\* One more sign of fear makes nobody willing.
LEMMA FearOnlyDeters ==
    ASSUME NEW fired, fired \subseteq Signals, NEW s \in Fear
    PROVE  Willing(fired \cup {s}) \subseteq Willing(fired)
<1>1. Fear \subseteq Signals
  BY DEF Fear, Signals, Votes, SignalVotes
<1>2. PICK k \in 1..9 :
              /\ \A i \in 1..9 : /\ Score(fired, TiePriority[i]) <= Score(fired, TiePriority[k])
                                 /\ Score(fired, TiePriority[i]) = Score(fired, TiePriority[k]) => k <= i
              /\ Regime(fired) = IF Score(fired, TiePriority[k]) = 0 THEN "RECOVERY" ELSE TiePriority[k]
  BY RegimeIs
<1> DEFINE more == fired \cup {s}
<1>3. PICK m \in 1..9 :
              /\ \A i \in 1..9 : /\ Score(more, TiePriority[i]) <= Score(more, TiePriority[m])
                                 /\ Score(more, TiePriority[i]) = Score(more, TiePriority[m]) => m <= i
              /\ Regime(more) = IF Score(more, TiePriority[m]) = 0 THEN "RECOVERY" ELSE TiePriority[m]
  <2>1. more \subseteq Signals
    BY <1>1
  <2> HIDE DEF more
  <2> QED BY <2>1, RegimeIs
<1> DEFINE old == [i \in 1..9 |-> Score(fired, TiePriority[i])]
           new == [i \in 1..9 |-> Score(more, TiePriority[i])]
<1>4. \A i \in 1..9 : old[i] \in Nat /\ new[i] \in Nat /\ old[i] <= new[i] /\ (i > 2 => new[i] = old[i])
  <2>1. ASSUME NEW i \in 1..9
        PROVE  old[i] \in Nat /\ new[i] \in Nat /\ old[i] <= new[i] /\ (i > 2 => new[i] = old[i])
    <3>1. i > 2 => TiePriority[i] \notin CashRegimes
      BY TheRegimes
    <3>2. old[i] = Score(fired, TiePriority[i]) /\ new[i] = Score(fired \cup {s}, TiePriority[i])
      OBVIOUS
    <3> HIDE DEF old, new
    <3> QED BY <3>1, <3>2, ScoresMove
  <2> QED BY <2>1
<1>5. /\ \A i \in 1..9 : old[i] <= old[k] /\ (old[i] = old[k] => k <= i)
      /\ Regime(fired) = IF old[k] = 0 THEN "RECOVERY" ELSE TiePriority[k]
  BY <1>2
<1>6. /\ \A i \in 1..9 : new[i] <= new[m] /\ (new[i] = new[m] => m <= i)
      /\ Regime(more) = IF new[m] = 0 THEN "RECOVERY" ELSE TiePriority[m]
  BY <1>3
<1> HIDE DEF old, new
<1>7. new[m] = 0 => old[k] = 0
  BY <1>4, <1>6
<1>8. m > 2 => k = m /\ old[k] = new[m]
  <2> SUFFICES ASSUME m > 2 PROVE k = m /\ old[k] = new[m]
    OBVIOUS
  <2>1. new[m] = old[m] /\ old[m] <= old[k] /\ old[k] <= new[k] /\ new[k] <= new[m]
    BY <1>4, <1>5, <1>6
  <2>2. old[m] = old[k] /\ new[k] = new[m]
    BY <1>4, <2>1
  <2>3. k <= m /\ m <= k
    BY <1>5, <1>6, <2>2
  <2> QED BY <2>1, <2>2, <2>3
<1>9. /\ Regime(more) \in AllRegimes /\ Regime(fired) \in AllRegimes
      /\ Regime(more) \in Calm => Regime(fired) \in Calm
      /\ Regime(more) \notin CashRegimes => Regime(fired) \notin CashRegimes
  <2>1. Regime(more) \in AllRegimes /\ Regime(fired) \in AllRegimes
    BY <1>5, <1>6, TheRegimes
  <2>2. CASE new[m] = 0
    BY <1>5, <1>7, <2>1, <2>2, TheRegimes
  <2>3. CASE new[m] # 0 /\ m > 2
    BY <1>5, <1>6, <1>8, <2>1, <2>3, TheRegimes
  <2>4. CASE new[m] # 0 /\ m <= 2
    <3>1. Regime(more) \in CashRegimes /\ Regime(more) \notin Calm
      <4>1. TiePriority[m] \in CashRegimes /\ TiePriority[m] \notin Calm
        BY <2>4, TheRegimes
      <4> QED BY <1>6, <2>4, <4>1
    <3> QED BY <2>1, <3>1
  <2> QED BY <2>2, <2>3, <2>4
<1>10. ASSUME NEW x \in DOMAIN RunsIn, Regime(more) \in RunsIn[x] PROVE Regime(fired) \in RunsIn[x]
  BY <1>9, <1>10, RunsInIs
<1> QED BY <1>10 DEF Willing

OnlySignals == stress \subseteq Signals

\* One more sign of fear, whatever else fires, never makes a strategy speak that was silent
\* (classify, runs_in_regime).
THEOREM FearOnlyStepsAside == RulesSpec => FearNeverBuysMore
<1> DEFINE Less ==
        \A s \in {"curve_inverted", "hy_wide", "vix_high", "unemployment_high", "gpr_high"} \ stress :
           stress' = stress \cup {s} => Willing(stress') \subseteq Willing(stress)
<1>1. RulesInit => OnlySignals
  BY DEF RulesInit, OnlySignals
<1>2. OnlySignals /\ [RulesNext]_ruleVars => OnlySignals'
  BY DEF RulesNext, Tick, NewDay, Screen, Release, ruleVars, OnlySignals
<1>3. OnlySignals => [Less]_stress
  BY FearOnlyDeters DEF Fear, OnlySignals
<1>4. OnlySignals /\ [RulesNext]_ruleVars => [Less]_stress
  BY <1>3
<1> QED BY <1>1, <1>2, <1>4, PTL DEF RulesSpec, FearNeverBuysMore
=============================================================================
