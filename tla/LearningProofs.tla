---------------------------- MODULE LearningProofs ----------------------------
(***************************************************************************)
(* Theorems about Learning.tla, for any finite set of ticks, any names and *)
(* strategies, any rates declared, any sample and gap of the detector, and *)
(* any number of runs, trades and upsets.                                  *)
(*                                                                         *)
(* What a base rate may still become, as ledgers that each bound it:       *)
(* RowInv: every row, in the table or in a tick's hands, is one history of *)
(*   wins and losses.                                                      *)
(* ShareInv: what has been counted, and what a tick holds tallied, stands  *)
(*   against pairs of a tick and a decision that it saw close; this holds  *)
(*   however ticks overlap.                                                *)
(* SoloInv: while nobody overlaps, the tick at work is the only one, and   *)
(*   nobody moves what it holds.                                           *)
(* CountInv: then what is counted, tallied and pending came of closes that *)
(*   happened.                                                             *)
(* TripInv: when also no trade went unrecorded and no trips were merged,   *)
(*   the open decisions of a name are those of its trip, one of them has   *)
(*   the profit it started from for its base, and unless the trip was      *)
(*   lowered none has less.                                                *)
(* SignInv: then wins and losses, counted, tallied and waiting, are the    *)
(*   ones that happened, but for the trips that were lowered.              *)
(***************************************************************************)
EXTENDS Learning, NumberLemmas

Places == {"idle", "trade", "record", "insert", "resolve", "outcome", "write", "propose"}
Backers == (SUBSET Strategies) \ {{}}
Bought == [sym : Symbols, strats : Backers]
Decisions == [sym : Symbols, strats : Backers, base : Int, outcome : {"open", "closed"}]
Rows == [rate : Int, n : Nat, wins : Nat, losses : Nat]
Tallies == [wins : Nat, losses : Nat, evens : Nat]
Works == [bought : Seq(Bought), sold : SUBSET Symbols, sid : Strategies \cup {"none"}, base : Int,
          open : SUBSET Nat, todo : SUBSET Nat, tally : [Strategies -> Tallies], cur : Rows]

PType ==
    /\ held \in [Symbols -> BOOLEAN] /\ realized \in [Symbols -> Int]
    /\ trip \in [Symbols -> SUBSET Strategies] /\ since \in [Symbols -> Int]
    /\ lowered \in [Symbols -> BOOLEAN]
    /\ ended \in [Strategies -> Tallies] /\ scaled \in [Strategies -> Nat]

LType ==
    /\ PType
    /\ decisions \in Seq(Decisions) /\ rates \in [Strategies -> Rows]
    /\ proposals \subseteq [strategy : Strategies, n : Nat, wins : Nat]
    /\ pc \in [Ticks -> Places] /\ work \in [Ticks -> Works]
    /\ overlap \in BOOLEAN /\ blurred \in BOOLEAN

IsOpen(i) == decisions[i].outcome = "open"
Scored(t, s) == work[t].tally[s].wins + work[t].tally[s].losses

\* What a tick holds at each place.
Shape(t) ==
    LET w == work[t] IN
    /\ w.open \subseteq DOMAIN decisions /\ w.todo \subseteq DOMAIN decisions /\ w.open \cap w.todo = {}
    /\ \A i, j \in w.todo : decisions[i].sym = decisions[j].sym
    /\ \A i \in w.todo, s \in Strategies :
          s \in decisions[i].strats => Scored(t, s) + w.tally[s].evens > 0
    /\ pc[t] = "idle" => w = NoWork
    /\ pc[t] \in {"idle", "trade", "record", "insert"} => w.open = {} /\ w.todo = {} /\ w.tally = NoTally
    /\ pc[t] = "insert" => w.bought # <<>>
    /\ w.bought # <<>> => pc[t] \in {"trade", "record", "insert"}
    /\ pc[t] = "outcome" <=> w.todo # {}
    /\ pc[t] \in {"write", "propose"} => w.open = {} /\ w.sid \in Strategies
    /\ pc[t] = "write" => Scored(t, w.sid) > 0

\* A row is one history of wins and losses.
Honest(r) ==
    LET off == r.rate * r.n - Scale * r.wins
    IN  /\ r.n = r.wins + r.losses
        /\ 4 * off <= r.n * (r.n + 1) /\ -(r.n * (r.n + 1)) <= 4 * off

RowInv ==
    /\ \A s \in Strategies : Honest(rates[s])
    /\ \A t \in Ticks : pc[t] \in {"write", "propose"} => Honest(work[t].cur)

LInv == LType /\ (\A t \in Ticks : Shape(t)) /\ RowInv

\* Closed decisions of s that t has nothing more to say about, with t.
Spent(s) == {p \in Ticks \X DOMAIN decisions :
                /\ s \in decisions[p[2]].strats /\ ~IsOpen(p[2])
                /\ p[2] \notin work[p[1]].open}
\* Ticks that have tallied s and are about to close an open decision of it.
Due(s) == {t \in Ticks : /\ Scored(t, s) > 0
                         /\ \E i \in work[t].todo : s \in decisions[i].strats /\ IsOpen(i)}
\* What the ticks have tallied and not yet added to the row.
Owed(s) == UNION {{<<t, j>> : j \in 1..Scored(t, s)} : t \in Ticks}

\* What a row says, or is about to say, and what is still to be added to it.
ShareInv ==
    \A s \in Strategies :
        /\ rates[s].n + Cardinality(Owed(s)) <= Cardinality(Spent(s)) + Cardinality(Due(s))
        /\ \A t \in Ticks : pc[t] = "write" /\ work[t].sid = s =>
              work[t].cur.n + Cardinality(Owed(s)) <= Cardinality(Spent(s)) + Cardinality(Due(s))

\* Open decisions that no tick has in hand.
Waiting(i) == IsOpen(i) /\ \A t \in Ticks : i \notin work[t].todo
\* Names with a decision of s that waits for a result that is already there.
Pending(s) == {y \in Symbols : s \notin trip[y] /\
                  \E i \in DOMAIN decisions : decisions[i].sym = y /\ s \in decisions[i].strats /\ Waiting(i)}

\* What t has tallied of s, closes that moved nothing among them.
Told(t, s) == Scored(t, s) + work[t].tally[s].evens

\* While nobody overlaps, a tick works on positions and decisions that nobody moves.
SoloAt(t) ==
    /\ \A k \in DOMAIN work[t].bought :
          held[work[t].bought[k].sym] /\ work[t].bought[k].strats \subseteq trip[work[t].bought[k].sym]
    /\ \A i \in work[t].open : IsOpen(i)
    /\ \A i \in work[t].todo : ~held[decisions[i].sym]
    /\ \A i, j \in DOMAIN decisions :
          IsOpen(j) /\ i \in work[t].open /\ decisions[i].sym = decisions[j].sym => j \in work[t].open
    /\ \A i, j \in DOMAIN decisions :
          IsOpen(j) /\ i \in work[t].todo /\ IsOpen(i) /\ decisions[i].sym = decisions[j].sym => j \in work[t].todo
    /\ pc[t] = "write" => work[t].cur = rates[work[t].sid]

OneAtWork == \A t, u \in Ticks : pc[t] # "idle" /\ pc[u] # "idle" => t = u
FlatIsOver == \A y \in Symbols : ~held[y] => trip[y] = {}

SoloInv == ~overlap => OneAtWork /\ FlatIsOver /\ \A t \in Ticks : SoloAt(t)

\* What is counted, tallied and pending came of closes that happened.
CountInv ==
    ~overlap => \A s \in Strategies :
        /\ rates[s].n + Cardinality(Pending(s)) <= Outcomes(s)
        /\ \A t \in Ticks : rates[s].n + Told(t, s) + Cardinality(Pending(s)) <= Outcomes(s)

\* Names that went flat with a profit, or a loss, that waits to be counted for s.
Waits(y, s, i) == decisions[i].sym = y /\ s \in decisions[i].strats /\ Waiting(i)
Gained(y) == \E j \in OpenOf(y) : realized[y] > decisions[j].base
Fell(y) == \A j \in OpenOf(y) : realized[y] < decisions[j].base
WinsPending(s) == {y \in Symbols : ~held[y] /\ Gained(y) /\ \E i \in DOMAIN decisions : Waits(y, s, i)}
LossesPending(s) == {y \in Symbols : ~held[y] /\ Fell(y) /\ \E i \in DOMAIN decisions : Waits(y, s, i)}

\* Who is behind the open decisions of a name, and behind trades not yet written down.
Booked(y, s) == \E i \in DOMAIN decisions : IsOpen(i) /\ decisions[i].sym = y /\ s \in decisions[i].strats
InHand(y, s) == \E t \in Ticks : \E k \in DOMAIN work[t].bought :
                    work[t].bought[k].sym = y /\ s \in work[t].bought[k].strats

Clear == ~overlap /\ ~blurred

\* A name bought by a tick and not yet written down.
Fresh(y) == \E s \in Strategies : InHand(y, s)

NoneBelow ==
    \A y \in Symbols : held[y] /\ ~lowered[y] =>
        /\ \A i \in OpenOf(y) : decisions[i].base >= since[y]
        /\ Fresh(y) => realized[y] >= since[y]
OneStarts ==
    \A y \in Symbols : held[y] /\ trip[y] # {} =>
        \/ \E i \in OpenOf(y) : decisions[i].base = since[y]
        \/ Fresh(y) /\ realized[y] = since[y]
TripKnown ==
    \A y \in Symbols, s \in Strategies : held[y] => (s \in trip[y] <=> Booked(y, s) \/ InHand(y, s))
Steady(t) ==
    /\ pc[t] = "insert" => work[t].base = realized[Head(work[t].bought).sym]
    /\ pc[t] = "propose" => work[t].cur = rates[work[t].sid]

\* While also no trade goes unrecorded and no trips are merged, the open decisions of a name
\* are those of its trip, one has the profit it started from and none has less.
TripInv == Clear => NoneBelow /\ OneStarts /\ TripKnown /\ \A t \in Ticks : Steady(t)

\* Then wins and losses are what happened, once each, but for the trips that were lowered.
Between(s, won, lost) ==
    /\ ended[s].wins <= won /\ won <= ended[s].wins + scaled[s]
    /\ lost <= ended[s].losses /\ ended[s].losses <= lost + scaled[s]
Signed(s, won, lost) ==
    Between(s, rates[s].wins + won + Cardinality(WinsPending(s)),
               rates[s].losses + lost + Cardinality(LossesPending(s)))

SignInv ==
    Clear =>
        /\ \A t \in Ticks : pc[t] # "idle" =>
              \A s \in Strategies : Signed(s, work[t].tally[s].wins, work[t].tally[s].losses)
        /\ (\A t \in Ticks : pc[t] = "idle") => \A s \in Strategies : Signed(s, 0, 0)

EarnedInv == Clear => \A p \in proposals : ended[p.strategy].losses >= p.n - p.wins

----------------------------------------------------------------------------
(* What each action does, field by field. *)

LEMMA GotoDoes ==
    ASSUME LType, NEW t \in Ticks, NEW place \in Places, NEW w \in Works, Goto(t, place, w)
    PROVE  /\ pc' \in [Ticks -> Places] /\ work' \in [Ticks -> Works]
           /\ pc'[t] = place /\ work'[t] = w
           /\ \A u \in Ticks \ {t} : pc'[u] = pc[u] /\ work'[u] = work[u]
BY DEF Goto, LType, PType

LEMMA NoWorkType ==
    /\ NoWork \in Works /\ NoTally \in [Strategies -> Tallies] /\ NoRate \in Rows
    /\ NoWork.open = {} /\ NoWork.todo = {} /\ NoWork.bought = <<>> /\ NoWork.tally = NoTally
    /\ \A s \in Strategies : NoTally[s].wins = 0 /\ NoTally[s].losses = 0 /\ NoTally[s].evens = 0
<1>1. Declared \in Int
  BY LearningConstants
<1>2. NoTally \in [Strategies -> Tallies] /\ NoRate \in Rows
  BY <1>1 DEF NoTally, Tallies, NoRate, Rows
<1>3. \A s \in Strategies : NoTally[s].wins = 0 /\ NoTally[s].losses = 0 /\ NoTally[s].evens = 0
  BY DEF NoTally
<1>4. <<>> \in Seq(Bought) /\ {} \in SUBSET Symbols /\ {} \in SUBSET Nat
  OBVIOUS
<1> QED BY <1>2, <1>3, <1>4 DEF NoWork, Works

\* The fields of what a tick holds, and a change of each.
LEMMA WorkIs ==
    ASSUME NEW w \in Works
    PROVE  /\ w.bought \in Seq(Bought) /\ w.sold \subseteq Symbols /\ w.base \in Int
           /\ w.open \subseteq Nat /\ w.todo \subseteq Nat
           /\ w.tally \in [Strategies -> Tallies] /\ w.cur \in Rows
           /\ \A s \in Strategies : w.tally[s] \in Tallies
BY DEF Works

\* One result more for each strategy of ss, with the sign of pnl.
LEMMA CountedDoes ==
    ASSUME NEW tally \in [Strategies -> Tallies], NEW ss, NEW pnl \in Int
    PROVE  /\ Counted(tally, ss, pnl) \in [Strategies -> Tallies]
           /\ \A s \in Strategies :
                 /\ Counted(tally, ss, pnl)[s].wins = tally[s].wins + (IF s \in ss /\ pnl > 0 THEN 1 ELSE 0)
                 /\ Counted(tally, ss, pnl)[s].losses = tally[s].losses + (IF s \in ss /\ pnl < 0 THEN 1 ELSE 0)
                 /\ Counted(tally, ss, pnl)[s].evens = tally[s].evens + (IF s \in ss /\ pnl = 0 THEN 1 ELSE 0)
<1> DEFINE c == Counted(tally, ss, pnl)
<1>1. ASSUME NEW s \in Strategies
      PROVE  /\ c[s] \in Tallies
             /\ c[s].wins = tally[s].wins + (IF s \in ss /\ pnl > 0 THEN 1 ELSE 0)
             /\ c[s].losses = tally[s].losses + (IF s \in ss /\ pnl < 0 THEN 1 ELSE 0)
             /\ c[s].evens = tally[s].evens + (IF s \in ss /\ pnl = 0 THEN 1 ELSE 0)
  <2>1. tally[s] \in Tallies /\ tally[s].wins \in Nat /\ tally[s].losses \in Nat /\ tally[s].evens \in Nat
    BY DEF Tallies
  <2> DEFINE r == tally[s]
  <2>2. c[s] = IF s \in ss /\ pnl > 0 THEN [r EXCEPT !.wins = @ + 1]
               ELSE IF s \in ss /\ pnl < 0 THEN [r EXCEPT !.losses = @ + 1]
               ELSE IF s \in ss THEN [r EXCEPT !.evens = @ + 1]
               ELSE r
    BY DEF Counted
  <2>3. r \in [wins : Nat, losses : Nat, evens : Nat]
    BY <2>1 DEF Tallies
  <2> HIDE DEF c, r
  <2>4. /\ c[s] \in [wins : Nat, losses : Nat, evens : Nat]
        /\ c[s].wins = r.wins + (IF s \in ss /\ pnl > 0 THEN 1 ELSE 0)
        /\ c[s].losses = r.losses + (IF s \in ss /\ pnl < 0 THEN 1 ELSE 0)
        /\ c[s].evens = r.evens + (IF s \in ss /\ pnl = 0 THEN 1 ELSE 0)
    BY <2>2, <2>3
  <2> QED BY <2>4 DEF Tallies, r
<1>2. c \in [Strategies -> Tallies]
  <2>1. c = [s \in Strategies |-> c[s]]
    BY DEF Counted
  <2> HIDE DEF c
  <2> QED BY <1>1, <2>1
<1> QED BY <1>1, <1>2

LEMMA BackersAre == \A x \in Backers : x \subseteq Strategies /\ \E s \in Strategies : s \in x
<1> SUFFICES ASSUME NEW x \in Backers PROVE x \subseteq Strategies /\ \E s \in Strategies : s \in x
  OBVIOUS
<1>1. x \in SUBSET Strategies /\ x \notin {{}}
  BY DEF Backers
<1>2. x \subseteq Strategies /\ x # {}
  BY <1>1
<1> QED BY <1>2

LEMMA DecisionIs ==
    ASSUME LType, NEW i \in DOMAIN decisions
    PROVE  /\ decisions[i] \in Decisions /\ i \in Nat /\ decisions[i].sym \in Symbols
           /\ decisions[i].strats \subseteq Strategies /\ decisions[i].strats # {} /\ decisions[i].base \in Int
           /\ decisions[i].outcome \in {"open", "closed"}
<1>1. decisions[i] \in Decisions /\ i \in Nat
  BY DEF LType, PType
<1>2. /\ decisions[i].sym \in Symbols /\ decisions[i].strats \in Backers /\ decisions[i].base \in Int
      /\ decisions[i].outcome \in {"open", "closed"}
  BY <1>1 DEF Decisions
<1>3. decisions[i].strats \subseteq Strategies /\ decisions[i].strats # {}
  BY <1>2, BackersAre
<1> QED BY <1>1, <1>2, <1>3

\* The books and the tally that a step of a tick leaves alone.
Aside(t) == \A u \in Ticks \ {t} : pc'[u] = pc[u] /\ work'[u] = work[u]

LEMMA BeginDoes ==
    ASSUME LType, NEW t \in Ticks, Begin(t) \/ EndUnlearned(t) \/ EndRun(t) \/ Abandon(t)
    PROVE  /\ pc'[t] \in {"idle", "trade"} /\ work'[t] = NoWork /\ Aside(t)
           /\ pc' \in [Ticks -> Places] /\ work' \in [Ticks -> Works]
           /\ UNCHANGED <<portfolio, learning>>
<1>1. PICK place \in {"idle", "trade"} : Goto(t, place, NoWork)
  BY DEF Begin, EndUnlearned, EndRun, Abandon
<1>2. place \in Places
  BY DEF Places
<1>3. /\ pc' \in [Ticks -> Places] /\ work' \in [Ticks -> Works] /\ pc'[t] = place /\ work'[t] = NoWork
      /\ Aside(t)
  BY <1>1, <1>2, GotoDoes, NoWorkType DEF Aside
<1> QED BY <1>3 DEF Begin, EndUnlearned, EndRun, Abandon, learning

\* A sell realises its share; a position that goes flat ends its trip.
LEMMA RealiseDoes ==
    ASSUME LType, NEW y \in Symbols, NEW pnl \in -1..1, Realise(y, pnl)
    PROVE  /\ held[y] /\ realized' \in [Symbols -> Int] /\ realized'[y] = realized[y] + pnl
           /\ \A x \in Symbols \ {y} : realized'[x] = realized[x]
BY DEF Realise, LType, PType

LEMMA PartSoldDoes ==
    ASSUME LType, NEW y \in Symbols, NEW pnl \in -1..1, PartSold(y, pnl)
    PROVE  /\ held[y] /\ PType' /\ UNCHANGED <<held, trip, since, lowered, ended, scaled>>
           /\ \A x \in Symbols \ {y} : realized'[x] = realized[x]
<1>1. Realise(y, pnl) /\ UNCHANGED <<held, trip, since, lowered, ended, scaled>>
  BY DEF PartSold
<1>2. held[y] /\ realized' \in [Symbols -> Int] /\ \A x \in Symbols \ {y} : realized'[x] = realized[x]
  BY <1>1, RealiseDoes
<1> QED BY <1>1, <1>2 DEF LType, PType

LEMMA GoneFlatDoes ==
    ASSUME LType, NEW y \in Symbols, NEW pnl \in -1..1, GoneFlat(y, pnl)
    PROVE  /\ held[y] /\ held' = [held EXCEPT ![y] = FALSE] /\ PType'
           /\ trip' = [trip EXCEPT ![y] = {}]
           /\ since' = [since EXCEPT ![y] = 0] /\ lowered' = [lowered EXCEPT ![y] = FALSE]
           /\ \A x \in Symbols \ {y} : realized'[x] = realized[x]
           /\ \A s \in Strategies :
                 /\ ended'[s].wins = ended[s].wins + (IF s \in trip[y] /\ realized'[y] > since[y] THEN 1 ELSE 0)
                 /\ ended'[s].losses = ended[s].losses + (IF s \in trip[y] /\ realized'[y] < since[y] THEN 1 ELSE 0)
                 /\ ended'[s].evens = ended[s].evens + (IF s \in trip[y] /\ realized'[y] = since[y] THEN 1 ELSE 0)
                 /\ scaled'[s] = scaled[s] + (IF lowered[y] /\ s \in trip[y] THEN 1 ELSE 0)
<1> DEFINE total == realized[y] + pnl - since[y]
<1>1. /\ Realise(y, pnl) /\ held' = [held EXCEPT ![y] = FALSE] /\ trip' = [trip EXCEPT ![y] = {}]
      /\ since' = [since EXCEPT ![y] = 0] /\ lowered' = [lowered EXCEPT ![y] = FALSE]
      /\ ended' = Counted(ended, trip[y], total)
      /\ scaled' = [s \in Strategies |-> scaled[s] + (IF lowered[y] /\ s \in trip[y] THEN 1 ELSE 0)]
  BY DEF GoneFlat
<1>2. /\ held[y] /\ realized' \in [Symbols -> Int] /\ realized'[y] = realized[y] + pnl
      /\ \A x \in Symbols \ {y} : realized'[x] = realized[x]
  BY <1>1, RealiseDoes
<1>3. ended \in [Strategies -> Tallies] /\ realized[y] \in Int /\ since[y] \in Int /\ realized'[y] \in Int
      /\ scaled \in [Strategies -> Nat] /\ held' \in [Symbols -> BOOLEAN]
      /\ trip' \in [Symbols -> SUBSET Strategies] /\ since' \in [Symbols -> Int]
      /\ lowered' \in [Symbols -> BOOLEAN]
  BY <1>1, <1>2 DEF LType, PType
<1>4. /\ total \in Int /\ (total > 0 <=> realized'[y] > since[y]) /\ (total < 0 <=> realized'[y] < since[y])
      /\ (total = 0 <=> realized'[y] = since[y])
  BY <1>2, <1>3
<1>5. scaled' \in [Strategies -> Nat]
  BY <1>1, <1>3
<1> HIDE DEF total
<1>6. /\ ended' \in [Strategies -> Tallies]
      /\ \A s \in Strategies :
            /\ ended'[s].wins = ended[s].wins + (IF s \in trip[y] /\ total > 0 THEN 1 ELSE 0)
            /\ ended'[s].losses = ended[s].losses + (IF s \in trip[y] /\ total < 0 THEN 1 ELSE 0)
            /\ ended'[s].evens = ended[s].evens + (IF s \in trip[y] /\ total = 0 THEN 1 ELSE 0)
  BY <1>1, <1>3, <1>4, CountedDoes
<1>7. PType'
  BY <1>2, <1>3, <1>5, <1>6 DEF PType
<1> QED BY <1>1, <1>2, <1>4, <1>6, <1>7

LEMMA SoldTypes ==
    ASSUME LType, NEW y \in Symbols, NEW pnl \in -1..1, Sold(y, pnl)
    PROVE  PType' /\ held[y]
BY PartSoldDoes, GoneFlatDoes DEF Sold

\* A fill by hand changes the portfolio and nothing else.
ByHand(y) == ManualBuys(y) \/ \E pnl \in -1..1 : ManualSells(y, pnl)

LEMMA ByHandDoes ==
    ASSUME LType, NEW y \in Symbols, ByHand(y)
    PROVE  /\ PType' /\ overlap' = (overlap \/ Busy) /\ UNCHANGED <<learning, pc, work>>
           /\ blurred' \in BOOLEAN /\ overlap' \in BOOLEAN /\ (blurred => blurred')
           /\ \/ /\ held' = [held EXCEPT ![y] = TRUE] /\ blurred' = (blurred \/ Merges(y))
                 /\ UNCHANGED <<realized, trip, since, lowered, ended, scaled>>
              \/ blurred' = blurred /\ \E pnl \in -1..1 : Sold(y, pnl)
<1>1. CASE ManualBuys(y)
  BY <1>1 DEF ManualBuys, LType, PType, Merges, Busy
<1>2. CASE \E pnl \in -1..1 : ManualSells(y, pnl)
  <2>1. PICK pnl \in -1..1 : ManualSells(y, pnl)
    BY <1>2
  <2>2. Sold(y, pnl) /\ overlap' = (overlap \/ Busy) /\ UNCHANGED <<learning, pc, work, blurred>>
    BY <2>1 DEF ManualSells
  <2>3. PType'
    BY <2>2, SoldTypes
  <2> QED BY <2>2, <2>3 DEF LType, Busy
<1> QED BY <1>1, <1>2 DEF ByHand

LEMMA TickExitsDoes ==
    ASSUME LType, NEW t \in Ticks, NEW y \in Symbols, NEW pnl \in -1..1, TickExits(t, y, pnl)
    PROVE  /\ Sold(y, pnl) /\ pc[t] = "trade" /\ work[t].bought = <<>>
           /\ pc'[t] = "trade" /\ Aside(t)
           /\ work'[t].bought = <<>> /\ work'[t].open = work[t].open /\ work'[t].todo = work[t].todo
           /\ work'[t].tally = work[t].tally
           /\ pc' \in [Ticks -> Places] /\ work' \in [Ticks -> Works]
           /\ UNCHANGED <<decisions, rates, proposals, overlap, blurred>>
<1> DEFINE w == [work[t] EXCEPT !.sold = @ \cup {y}]
<1>1. w \in Works /\ w.bought = work[t].bought /\ w.open = work[t].open /\ w.todo = work[t].todo
      /\ w.tally = work[t].tally
  BY DEF LType, Works
<1>2. Goto(t, "trade", w) /\ "trade" \in Places
  BY DEF TickExits, Places
<1> HIDE DEF w
<1>3. pc' \in [Ticks -> Places] /\ work' \in [Ticks -> Works] /\ pc'[t] = "trade" /\ work'[t] = w /\ Aside(t)
  BY <1>1, <1>2, GotoDoes DEF Aside
<1> QED BY <1>1, <1>3 DEF TickExits, learning

LEMMA TickBuysDoes ==
    ASSUME LType, NEW t \in Ticks, NEW y \in Symbols, NEW ss \in Backers, TickBuys(t, y, ss)
    PROVE  /\ pc[t] = "trade" /\ pc'[t] = "trade" /\ Aside(t)
           /\ \A i \in DOMAIN work[t].bought : work[t].bought[i].sym # y
           /\ held' = [held EXCEPT ![y] = TRUE] /\ trip' = [trip EXCEPT ![y] = @ \cup ss]
           /\ since' = [since EXCEPT ![y] = IF trip[y] = {} THEN realized[y] ELSE @]
           /\ lowered' = [lowered EXCEPT ![y] = @ \/ (trip[y] # {} /\ realized[y] < since[y])]
           /\ blurred' = (blurred \/ Merges(y))
           /\ work'[t].bought = Append(work[t].bought, [sym |-> y, strats |-> ss])
           /\ work'[t].open = work[t].open /\ work'[t].todo = work[t].todo
           /\ work'[t].tally = work[t].tally
           /\ pc' \in [Ticks -> Places] /\ work' \in [Ticks -> Works]
           /\ PType' /\ blurred' \in BOOLEAN
           /\ UNCHANGED <<realized, ended, scaled, decisions, rates, proposals, overlap>>
<1> DEFINE b == Append(work[t].bought, [sym |-> y, strats |-> ss])
           w == [work[t] EXCEPT !.bought = b]
<1>0. work[t].bought \in Seq(Bought) /\ [sym |-> y, strats |-> ss] \in Bought
  BY DEF LType, Works, Bought
<1>1. b \in Seq(Bought)
  BY <1>0
<1>2. Goto(t, "trade", w) /\ "trade" \in Places
  BY DEF TickBuys, Places
<1> HIDE DEF b
<1>3. w \in Works /\ w.bought = b /\ w.open = work[t].open /\ w.todo = work[t].todo
      /\ w.tally = work[t].tally
  BY <1>1 DEF LType, Works
<1> HIDE DEF w
<1>4. pc' \in [Ticks -> Places] /\ work' \in [Ticks -> Works] /\ pc'[t] = "trade" /\ work'[t] = w /\ Aside(t)
  BY <1>2, <1>3, GotoDoes DEF Aside
<1>6. /\ pc[t] = "trade" /\ \A i \in DOMAIN work[t].bought : work[t].bought[i].sym # y
      /\ held' = [held EXCEPT ![y] = TRUE] /\ trip' = [trip EXCEPT ![y] = @ \cup ss]
      /\ since' = [since EXCEPT ![y] = IF trip[y] = {} THEN realized[y] ELSE @]
      /\ lowered' = [lowered EXCEPT ![y] = @ \/ (trip[y] # {} /\ realized[y] < since[y])]
      /\ blurred' = (blurred \/ Merges(y))
      /\ UNCHANGED <<realized, ended, scaled, decisions, rates, proposals, overlap>>
  BY DEF TickBuys, learning
<1>5. PType' /\ blurred' \in BOOLEAN
  <2>1. held \in [Symbols -> BOOLEAN] /\ trip \in [Symbols -> SUBSET Strategies] /\ since \in [Symbols -> Int]
        /\ lowered \in [Symbols -> BOOLEAN] /\ realized \in [Symbols -> Int]
    BY DEF LType, PType
  <2>2. held' \in [Symbols -> BOOLEAN] /\ trip' \in [Symbols -> SUBSET Strategies]
    BY <1>6, <2>1 DEF Backers
  <2>3. since' \in [Symbols -> Int]
    BY <1>6, <2>1
  <2>4. lowered' \in [Symbols -> BOOLEAN]
    BY <1>6, <2>1
  <2>5. blurred' \in BOOLEAN
    BY <1>6 DEF LType, Merges
  <2> QED BY <1>6, <2>2, <2>3, <2>4, <2>5 DEF LType, PType
<1> QED BY <1>3, <1>4, <1>5, <1>6 DEF b

LEMMA ReadBaseDoes ==
    ASSUME LType, NEW t \in Ticks, ReadBase(t)
    PROVE  /\ Recording(t) /\ work[t].bought # <<>> /\ pc'[t] = "insert" /\ Aside(t)
           /\ Head(work[t].bought) \in Bought
           /\ work'[t].base = realized[Head(work[t].bought).sym]
           /\ work'[t].bought = work[t].bought /\ work'[t].tally = work[t].tally
           /\ work'[t].open = work[t].open /\ work'[t].todo = work[t].todo
           /\ pc' \in [Ticks -> Places] /\ work' \in [Ticks -> Works]
           /\ UNCHANGED <<portfolio, learning, overlap, blurred>>
<1> DEFINE b == realized[Head(work[t].bought).sym]
           w == [work[t] EXCEPT !.sold = {}, !.base = b]
<1>0. Recording(t) /\ work[t].bought # <<>> /\ UNCHANGED <<portfolio, learning, overlap, blurred>>
  BY DEF ReadBase
<1>1. Head(work[t].bought) \in Bought
  BY <1>0 DEF LType, PType, Works
<1>2. b \in Int
  BY <1>1 DEF LType, PType, Bought
<1>3. Goto(t, "insert", w) /\ "insert" \in Places
  BY DEF ReadBase, Places
<1> HIDE DEF b
<1>4. w \in Works /\ w.base = b /\ w.bought = work[t].bought /\ w.tally = work[t].tally
      /\ w.open = work[t].open /\ w.todo = work[t].todo
  BY <1>2 DEF LType, PType, Works
<1> HIDE DEF w
<1>5. pc' \in [Ticks -> Places] /\ work' \in [Ticks -> Works] /\ pc'[t] = "insert" /\ work'[t] = w /\ Aside(t)
  BY <1>3, <1>4, GotoDoes DEF Aside
<1> QED BY <1>0, <1>1, <1>4, <1>5 DEF b

LEMMA RecordDecisionDoes ==
    ASSUME LType, NEW t \in Ticks, RecordDecision(t), work[t].bought # <<>>, NEW b, b = Head(work[t].bought)
    PROVE  /\ pc[t] = "insert" /\ pc'[t] = "record" /\ Aside(t) /\ b \in Bought
           /\ DOMAIN decisions = 1..Len(decisions) /\ Len(decisions) \in Nat
           /\ DOMAIN decisions' = 1..(Len(decisions) + 1)
           /\ \A i \in DOMAIN decisions : decisions'[i] = decisions[i]
           /\ decisions'[Len(decisions) + 1] = [sym |-> b.sym, strats |-> b.strats,
                                                base |-> work[t].base, outcome |-> "open"]
           /\ decisions' \in Seq(Decisions)
           /\ work'[t].bought = Tail(work[t].bought) /\ work'[t].tally = work[t].tally
           /\ work'[t].open = work[t].open /\ work'[t].todo = work[t].todo
           /\ pc' \in [Ticks -> Places] /\ work' \in [Ticks -> Works]
           /\ UNCHANGED <<portfolio, rates, proposals, overlap, blurred>>
<1> DEFINE q == Tail(work[t].bought)
           w == [work[t] EXCEPT !.bought = q, !.base = 0]
           d == [sym |-> b.sym, strats |-> b.strats, base |-> work[t].base, outcome |-> "open"]
<1>0. pc[t] = "insert" /\ UNCHANGED <<portfolio, rates, proposals, overlap, blurred>>
  BY DEF RecordDecision
<1>1. b \in Bought /\ q \in Seq(Bought)
  BY DEF LType, PType, Works
<1>2. d \in Decisions /\ decisions' = Append(decisions, d) /\ decisions \in Seq(Decisions)
  BY <1>1 DEF RecordDecision, LType, PType, Works, Bought, Decisions
<1>3. Goto(t, "record", w) /\ "record" \in Places
  BY DEF RecordDecision, Places
<1> HIDE DEF q, d
<1>4. w \in Works /\ w.bought = q /\ w.tally = work[t].tally
      /\ w.open = work[t].open /\ w.todo = work[t].todo
  <2>1. work[t] \in Works /\ 0 \in Int
    BY DEF LType, PType
  <2> QED BY <1>1, <2>1 DEF Works
<1> HIDE DEF w
<1>5. pc' \in [Ticks -> Places] /\ work' \in [Ticks -> Works] /\ pc'[t] = "record" /\ work'[t] = w /\ Aside(t)
  BY <1>3, <1>4, GotoDoes DEF Aside
<1>6. /\ DOMAIN decisions = 1..Len(decisions) /\ Len(decisions) \in Nat
      /\ DOMAIN decisions' = 1..(Len(decisions) + 1) /\ decisions' \in Seq(Decisions)
      /\ \A i \in DOMAIN decisions : decisions'[i] = decisions[i]
      /\ decisions'[Len(decisions) + 1] = d
  BY <1>2
<1> QED BY <1>0, <1>1, <1>4, <1>5, <1>6 DEF q, d

LEMMA ReadOpenDoes ==
    ASSUME LType, NEW t \in Ticks, ReadOpen(t)
    PROVE  /\ Recording(t) /\ work[t].bought = <<>> /\ pc'[t] = "resolve" /\ Aside(t)
           /\ work'[t].open = {i \in DOMAIN decisions : IsOpen(i)}
           /\ work'[t].bought = <<>> /\ work'[t].tally = work[t].tally
           /\ work'[t].todo = work[t].todo
           /\ pc' \in [Ticks -> Places] /\ work' \in [Ticks -> Works]
           /\ UNCHANGED <<portfolio, learning, overlap, blurred>>
<1> DEFINE o == {i \in DOMAIN decisions : IsOpen(i)}
           w == [work[t] EXCEPT !.sold = {}, !.open = o]
<1>0. Recording(t) /\ work[t].bought = <<>> /\ UNCHANGED <<portfolio, learning, overlap, blurred>>
  BY DEF ReadOpen
<1>1. o \subseteq Nat
  BY DEF LType, PType
<1>2. Goto(t, "resolve", w) /\ "resolve" \in Places
  BY DEF ReadOpen, Places, IsOpen
<1> HIDE DEF o
<1>3. w \in Works /\ w.bought = work[t].bought /\ w.tally = work[t].tally
      /\ w.open = o /\ w.todo = work[t].todo
  BY <1>1 DEF LType, PType, Works
<1> HIDE DEF w
<1>4. pc' \in [Ticks -> Places] /\ work' \in [Ticks -> Works] /\ pc'[t] = "resolve" /\ work'[t] = w /\ Aside(t)
  BY <1>2, <1>3, GotoDoes DEF Aside
<1> QED BY <1>0, <1>3, <1>4 DEF o

LEMMA TallyDoes ==
    ASSUME NEW tally \in [Strategies -> Tallies], NEW ids, NEW pnl \in Int
    PROVE  /\ Tally(tally, ids, pnl) \in [Strategies -> Tallies]
           /\ \A s \in Strategies :
                 LET new == (\E i \in ids : s \in decisions[i].strats)
                     c == Tally(tally, ids, pnl)
                 IN  /\ c[s].wins = tally[s].wins + (IF new /\ pnl > 0 THEN 1 ELSE 0)
                     /\ c[s].losses = tally[s].losses + (IF new /\ pnl < 0 THEN 1 ELSE 0)
                     /\ c[s].evens = tally[s].evens + (IF new /\ pnl = 0 THEN 1 ELSE 0)
<1> DEFINE ss == UNION {decisions[i].strats : i \in ids}
<1>1. Tally(tally, ids, pnl) = Counted(tally, ss, pnl)
  BY DEF Tally
<1>2. \A s \in Strategies : s \in ss <=> \E i \in ids : s \in decisions[i].strats
  OBVIOUS
<1> HIDE DEF ss
<1> QED BY <1>1, <1>2, CountedDoes

\* The lowest base of some decisions is one of theirs.
LEMMA TripBaseIs ==
    ASSUME LType, NEW ids, ids \subseteq DOMAIN decisions, ids # {}
    PROVE  /\ TripBase(ids) \in Int
           /\ \E i \in ids : TripBase(ids) = decisions[i].base
           /\ \A i \in ids : TripBase(ids) <= decisions[i].base
<1> DEFINE below(i) == {j \in ids : decisions[j].base < decisions[i].base}
           N == {Cardinality(below(i)) : i \in ids}
<1>1. IsFiniteSet(ids)
  <2>1. DOMAIN decisions = 1..Len(decisions) /\ Len(decisions) \in Nat
    BY DEF LType, PType
  <2>2. IsFiniteSet(1..Len(decisions))
    BY <2>1, FS_Interval
  <2> QED BY <2>1, <2>2, FS_Subset
<1>2. \A i \in ids : IsFiniteSet(below(i)) /\ Cardinality(below(i)) \in Nat
  BY <1>1, FS_Subset, FS_CardinalityType
<1>3. N \subseteq Nat /\ N # {}
  BY <1>2
<1>4. Min(N) \in N /\ \A x \in N : Min(N) <= x
  BY <1>3, MinIs
<1>5. PICK i \in ids : \A j \in ids : Cardinality(below(i)) <= Cardinality(below(j))
  BY <1>4
<1>6. \A j \in ids : decisions[j].base \in Int
  BY DecisionIs
<1>7. ASSUME NEW j \in ids PROVE decisions[i].base <= decisions[j].base
  <2> SUFFICES ASSUME decisions[j].base < decisions[i].base PROVE FALSE
    BY <1>6
  <2>1. below(j) \subseteq below(i) /\ j \in below(i) /\ j \notin below(j)
    BY <1>6
  <2> HIDE DEF below
  <2>2. Cardinality(below(j)) < Cardinality(below(i))
    BY <1>2, <2>1, FS_Subset
  <2> QED BY <1>2, <1>5, <2>2
<1> DEFINE B == {decisions[j].base : j \in ids}
<1>8. decisions[i].base \in B /\ \A x \in B : decisions[i].base <= x
  BY <1>7
<1>9. TripBase(ids) = Min(B)
  BY DEF TripBase
<1>10. Min(B) \in B /\ \A x \in B : Min(B) <= x
  <2> HIDE DEF B
  <2> QED BY <1>8 DEF Min
<1> QED BY <1>6, <1>9, <1>10

\* The decisions of the first name that t has not looked at.
Next1(t) == {i \in work[t].open : decisions[i].sym = decisions[Min(work[t].open)].sym}

LEMMA ReadPositionDoes ==
    ASSUME LType, NEW t \in Ticks, Shape(t), ReadPosition(t),
           NEW ids, ids = Next1(t), NEW y, y = decisions[Min(work[t].open)].sym,
           NEW pnl, pnl = realized[y] - TripBase(ids)
    PROVE  /\ pc[t] = "resolve" /\ y \in Symbols /\ ids # {} /\ ids \subseteq work[t].open
           /\ \A i \in work[t].open : i \in ids <=> decisions[i].sym = y
           /\ work[t].todo = {} /\ work'[t].open = work[t].open \ ids
           /\ work'[t].bought = work[t].bought /\ Aside(t)
           /\ held[y] => /\ pc'[t] = "resolve" /\ work'[t].todo = {} /\ work'[t].tally = work[t].tally
           /\ ~held[y] =>
                 /\ pc'[t] = "outcome" /\ work'[t].todo = ids /\ pnl \in Int
                 /\ \A s \in Strategies :
                       LET new == (\E i \in ids : s \in decisions[i].strats) IN
                       /\ work'[t].tally[s].wins = work[t].tally[s].wins + (IF new /\ pnl > 0 THEN 1 ELSE 0)
                       /\ work'[t].tally[s].losses = work[t].tally[s].losses + (IF new /\ pnl < 0 THEN 1 ELSE 0)
                       /\ work'[t].tally[s].evens = work[t].tally[s].evens + (IF new /\ pnl = 0 THEN 1 ELSE 0)
           /\ pc' \in [Ticks -> Places] /\ work' \in [Ticks -> Works]
           /\ UNCHANGED <<portfolio, learning, overlap, blurred>>
<1>0. /\ pc[t] = "resolve" /\ work[t].open # {} /\ UNCHANGED <<portfolio, learning, overlap, blurred>>
  BY DEF ReadPosition
<1>1. /\ work[t].open \subseteq DOMAIN decisions /\ work[t].open \subseteq Nat /\ work[t].todo = {}
      /\ work[t] \in Works
  BY <1>0 DEF Shape, LType, PType, Works
<1>2. Min(work[t].open) \in work[t].open
  BY <1>0, <1>1, MinIs
<1>3. /\ y \in Symbols /\ ids # {} /\ ids \subseteq work[t].open
      /\ \A i \in work[t].open : i \in ids <=> decisions[i].sym = y
  BY <1>1, <1>2, DecisionIs DEF Next1
<1> DEFINE o == work[t].open \ ids
           c == Tally(work[t].tally, ids, pnl)
           flat == [work[t] EXCEPT !.open = o, !.todo = ids, !.tally = c]
           on == [work[t] EXCEPT !.open = o]
<1>4. IF ~held[y] THEN Goto(t, "outcome", flat) ELSE Goto(t, "resolve", on)
  <2>1. /\ [[work[t] EXCEPT !.open = @ \ ids] EXCEPT !.todo = ids, !.tally = Tally(@, ids, pnl)] = flat
        /\ [work[t] EXCEPT !.open = @ \ ids] = on
    BY <1>1 DEF Works
  <2> HIDE DEF flat, on
  <2>2. ids = {i \in work[t].open : decisions[i].sym = y}
    BY DEF Next1
  <2> QED BY <2>1, <2>2 DEF ReadPosition, IsClosed
<1>5. o \subseteq Nat /\ ids \subseteq Nat
  BY <1>1, <1>3
<1> HIDE DEF o, c
<1>6. CASE held[y]
  <2>1. on \in Works /\ on.open = o /\ on.todo = work[t].todo /\ on.tally = work[t].tally
        /\ on.bought = work[t].bought
    BY <1>1, <1>5 DEF Works
  <2> HIDE DEF on
  <2>2. Goto(t, "resolve", on) /\ "resolve" \in Places
    BY <1>4, <1>6 DEF Places
  <2>3. pc' \in [Ticks -> Places] /\ work' \in [Ticks -> Works] /\ pc'[t] = "resolve" /\ work'[t] = on /\ Aside(t)
    BY <2>1, <2>2, GotoDoes DEF Aside
  <2> QED BY <1>0, <1>1, <1>3, <1>6, <2>1, <2>3 DEF o
<1>7. CASE ~held[y]
  <2>1. pnl \in Int
    <3>1. TripBase(ids) \in Int
      BY <1>1, <1>3, TripBaseIs
    <3> QED BY <1>3, <3>1 DEF LType, PType
  <2>2. /\ c \in [Strategies -> Tallies]
        /\ \A s \in Strategies :
              LET new == (\E i \in ids : s \in decisions[i].strats) IN
              /\ c[s].wins = work[t].tally[s].wins + (IF new /\ pnl > 0 THEN 1 ELSE 0)
              /\ c[s].losses = work[t].tally[s].losses + (IF new /\ pnl < 0 THEN 1 ELSE 0)
              /\ c[s].evens = work[t].tally[s].evens + (IF new /\ pnl = 0 THEN 1 ELSE 0)
    <3>1. work[t].tally \in [Strategies -> Tallies]
      BY <1>1 DEF Works
    <3> QED BY <2>1, <3>1, TallyDoes DEF c
  <2>3. flat \in Works /\ flat.open = o /\ flat.todo = ids /\ flat.tally = c /\ flat.bought = work[t].bought
    BY <1>1, <1>5, <2>2 DEF Works
  <2> HIDE DEF flat
  <2>4. Goto(t, "outcome", flat) /\ "outcome" \in Places
    BY <1>4, <1>7 DEF Places
  <2>5. pc' \in [Ticks -> Places] /\ work' \in [Ticks -> Works] /\ pc'[t] = "outcome" /\ work'[t] = flat /\ Aside(t)
    BY <2>3, <2>4, GotoDoes DEF Aside
  <2> QED BY <1>0, <1>1, <1>3, <1>7, <2>1, <2>2, <2>3, <2>5 DEF o
<1> QED BY <1>6, <1>7 DEF LType, PType

LEMMA RecordOutcomeDoes ==
    ASSUME LType, NEW t \in Ticks, Shape(t), RecordOutcome(t), NEW i, i = Min(work[t].todo)
    PROVE  /\ pc[t] = "outcome" /\ i \in work[t].todo /\ i \in DOMAIN decisions /\ Aside(t)
           /\ DOMAIN decisions' = DOMAIN decisions /\ decisions' \in Seq(Decisions)
           /\ decisions'[i].sym = decisions[i].sym /\ decisions'[i].strats = decisions[i].strats
           /\ decisions'[i].base = decisions[i].base /\ decisions'[i].outcome = "closed"
           /\ \A j \in DOMAIN decisions : j # i => decisions'[j] = decisions[j]
           /\ work'[t].todo = work[t].todo \ {i}
           /\ pc'[t] = (IF work[t].todo \ {i} = {} THEN "resolve" ELSE "outcome")
           /\ work'[t].open = work[t].open /\ work'[t].bought = work[t].bought
           /\ work'[t].tally = work[t].tally
           /\ pc' \in [Ticks -> Places] /\ work' \in [Ticks -> Works]
           /\ UNCHANGED <<portfolio, rates, proposals, overlap, blurred>>
<1> DEFINE left == work[t].todo \ {i}
           w == [work[t] EXCEPT !.todo = left]
           place == IF left = {} THEN "resolve" ELSE "outcome"
<1>0. /\ pc[t] = "outcome" /\ UNCHANGED <<portfolio, rates, proposals, overlap, blurred>>
      /\ decisions' = [decisions EXCEPT ![i].outcome = "closed"]
  BY DEF RecordOutcome
<1>1. work[t] \in Works /\ work[t].todo \subseteq Nat /\ work[t].todo # {} /\ work[t].todo \subseteq DOMAIN decisions
  BY <1>0 DEF Shape, LType, PType, Works
<1>2. i \in work[t].todo /\ i \in DOMAIN decisions
  BY <1>1, MinIs
<1>3. Goto(t, place, w) /\ place \in Places
  BY DEF RecordOutcome, Places
<1>4. left \subseteq Nat
  BY <1>1
<1> HIDE DEF left, place
<1>5. w \in Works /\ w.bought = work[t].bought /\ w.tally = work[t].tally
      /\ w.open = work[t].open /\ w.todo = left
  BY <1>1, <1>4 DEF Works
<1> HIDE DEF w
<1>6. pc' \in [Ticks -> Places] /\ work' \in [Ticks -> Works] /\ pc'[t] = place /\ work'[t] = w /\ Aside(t)
  BY <1>3, <1>5, GotoDoes DEF Aside
<1>7. /\ DOMAIN decisions' = DOMAIN decisions /\ decisions' \in Seq(Decisions)
      /\ decisions'[i].sym = decisions[i].sym /\ decisions'[i].strats = decisions[i].strats
      /\ decisions'[i].base = decisions[i].base /\ decisions'[i].outcome = "closed"
      /\ \A j \in DOMAIN decisions : j # i => decisions'[j] = decisions[j]
  <2> DEFINE d == [decisions[i] EXCEPT !.outcome = "closed"]
  <2>1. decisions[i] \in Decisions
    BY <1>2, DecisionIs
  <2>2. /\ d \in Decisions /\ d.sym = decisions[i].sym /\ d.strats = decisions[i].strats
        /\ d.base = decisions[i].base /\ d.outcome = "closed"
    BY <2>1 DEF Decisions
  <2>3. decisions' = [decisions EXCEPT ![i] = d] /\ decisions \in Seq(Decisions)
    BY <1>0 DEF LType, PType
  <2> HIDE DEF d
  <2>4. decisions' \in Seq(Decisions)
    BY <1>2, <2>2, <2>3
  <2> QED BY <1>2, <2>2, <2>3, <2>4
<1> QED BY <1>0, <1>2, <1>5, <1>6, <1>7 DEF left, place

LEMMA ReadRateDoes ==
    ASSUME LType, NEW t \in Ticks, NEW s \in Strategies, ReadRate(t, s)
    PROVE  /\ pc[t] = "resolve" /\ work[t].open = {} /\ Scored(t, s) > 0
           /\ pc'[t] = "write" /\ Aside(t) /\ work'[t].sid = s /\ work'[t].cur = rates[s]
           /\ work'[t].open = work[t].open /\ work'[t].bought = work[t].bought
           /\ work'[t].tally = work[t].tally /\ work'[t].todo = work[t].todo
           /\ pc' \in [Ticks -> Places] /\ work' \in [Ticks -> Works]
           /\ UNCHANGED <<portfolio, learning, overlap, blurred>>
<1> DEFINE w == [work[t] EXCEPT !.sid = s, !.cur = rates[s]]
<1>0. /\ pc[t] = "resolve" /\ work[t].open = {} /\ s \in Tallied(t)
      /\ UNCHANGED <<portfolio, learning, overlap, blurred>>
  BY DEF ReadRate
<1>1. work[t] \in Works /\ rates[s] \in Rows
  BY DEF LType, PType
<1>2. Goto(t, "write", w) /\ "write" \in Places
  BY DEF ReadRate, Places
<1>3. w \in Works /\ w.bought = work[t].bought /\ w.tally = work[t].tally
      /\ w.open = work[t].open /\ w.todo = work[t].todo /\ w.sid = s /\ w.cur = rates[s]
  BY <1>1 DEF Works
<1> HIDE DEF w
<1>4. pc' \in [Ticks -> Places] /\ work' \in [Ticks -> Works] /\ pc'[t] = "write" /\ work'[t] = w /\ Aside(t)
  BY <1>2, <1>3, GotoDoes DEF Aside
<1> QED BY <1>0, <1>3, <1>4 DEF Tallied, Scored

\* What a division rounds to.
LEMMA RoundedIs ==
    ASSUME NEW num \in Int, NEW den \in Nat \ {0}
    PROVE  /\ Rounded(num, den) \in Int
           /\ 2 * (Rounded(num, den) * den) <= 2 * num + den
           /\ 2 * num < 2 * (Rounded(num, den) * den) + den
<1> DEFINE a == 2 * num + den
           b == 2 * den
           q == a \div b
<1>1. a \in Int /\ b \in Nat \ {0}
  OBVIOUS
<1> HIDE DEF a, b
<1>2. q \in Int /\ b * q <= a /\ a < b * q + b
  <2>1. q \in Int /\ a % b \in 0..(b - 1) /\ a = b * q + (a % b)
    BY <1>1, SMTT(30)
  <2> HIDE DEF q
  <2> DEFINE z == b * q
             m == a % b
  <2>2. z \in Int /\ m \in Int /\ 0 <= m /\ m < b /\ a = z + m
    BY <1>1, <2>1
  <2> HIDE DEF z, m
  <2>3. z <= a /\ a < z + b
    BY <1>1, <2>2
  <2> QED BY <2>1, <2>3 DEF z
<1>3. Rounded(num, den) = q
  BY DEF Rounded, a, b
<1> HIDE DEF q
<1> DEFINE z == q * den
<1>4. b * q = 2 * z /\ z \in Int
  BY <1>2 DEF b
<1> HIDE DEF z
<1>5. 2 * z <= 2 * num + den /\ 2 * num + den < 2 * z + 2 * den
  BY <1>2, <1>4 DEF a, b
<1>6. 2 * num < 2 * z + den
  BY <1>4, <1>5
<1> QED BY <1>2, <1>3, <1>5, <1>6 DEF z

\* A row that gets results it did not have stays one history of wins and losses: an
\* update rounds by half a result at most, and has one at least.
LEMMA HonestGrows ==
    ASSUME NEW cur \in Rows, Honest(cur), NEW won \in Nat, NEW lost \in Nat, won + lost > 0,
           NEW row, row = [rate |-> UpdateBaseRate(cur, won, lost), n |-> cur.n + won + lost,
                           wins |-> cur.wins + won, losses |-> cur.losses + lost]
    PROVE  row \in Rows /\ Honest(row)
<1> DEFINE n == cur.n
           k == won + lost
           m == n + k
           r == cur.rate
           q == UpdateBaseRate(cur, won, lost)
           c == r * n
           v == Scale * cur.wins
           x == Scale * won
           z == q * m
           a == n * (n + 1)
           b == m * (m + 1)
<1>1. /\ n \in Nat /\ won \in Nat /\ lost \in Nat /\ r \in Int /\ cur.wins \in Nat /\ cur.losses \in Nat
      /\ Scale \in Nat
  BY LearningConstants DEF Rows
<1>2. k \in Nat \ {0} /\ m \in Nat \ {0} /\ m = n + k /\ c \in Int /\ v \in Int /\ x \in Int /\ a \in Int /\ b \in Int
  BY <1>1
<1>3. q \in Int /\ 2 * z <= 2 * (c + x) + m /\ 2 * (c + x) < 2 * z + m
  <2>1. q = Rounded(c + x, m)
    <3>1. cur.n + won + lost = m
      BY <1>1
    <3> QED BY <3>1 DEF UpdateBaseRate
  <2> HIDE DEF c, x, m, q
  <2>2. c + x \in Int
    BY <1>2
  <2>3. /\ Rounded(c + x, m) \in Int
        /\ 2 * (Rounded(c + x, m) * m) <= 2 * (c + x) + m
        /\ 2 * (c + x) < 2 * (Rounded(c + x, m) * m) + m
    BY <1>2, <2>2, RoundedIs
  <2> QED BY <2>1, <2>3
<1>4. n = cur.wins + cur.losses /\ 4 * (c - v) <= a /\ -a <= 4 * (c - v)
  BY DEF Honest
<1>5. b >= a + 2 * m
  <2>1. b = a + 2 * (n * k) + k * k + k
    BY <1>1, <1>2
  <2>2. n * k >= n /\ k * k >= k
    <3>1. \A i, j \in Nat : j >= 1 => i * j >= i
      <4> SUFFICES ASSUME NEW i \in Nat, NEW j \in Nat, j >= 1 PROVE i * j >= i
        OBVIOUS
      <4>1. i * j = i + i * (j - 1) /\ i * (j - 1) >= 0
        OBVIOUS
      <4> QED BY <4>1
    <3>2. n \in Nat /\ k \in Nat /\ k >= 1
      BY <1>1, <1>2
    <3> HIDE DEF n, k
    <3> QED BY <3>1, <3>2
  <2> DEFINE nk == n * k
             kk == k * k
  <2>3. nk \in Int /\ kk \in Int
    BY <1>1, <1>2
  <2> HIDE DEF nk, kk, a, b, m, n, k
  <2>4. b = a + 2 * nk + kk + k /\ nk >= n /\ kk >= k
    BY <2>1, <2>2 DEF nk, kk
  <2> QED BY <1>1, <1>2, <2>3, <2>4
<1>6. Scale * (cur.wins + won) = v + x
  BY <1>1
<1>7. z \in Int
  BY <1>2, <1>3
<1>8. /\ row.rate = q /\ row.n = m /\ row.wins = cur.wins + won /\ row.losses = cur.losses + lost
      /\ row = [rate |-> q, n |-> m, wins |-> cur.wins + won, losses |-> cur.losses + lost]
  <2>1. cur.n + won + lost = m
    BY <1>1
  <2> HIDE DEF q, m
  <2> QED BY <2>1 DEF q
<1>9. m = (cur.wins + won) + (cur.losses + lost)
  BY <1>1, <1>4
<1> HIDE DEF n, k, m, r, q, c, v, x, z, a, b
<1>10. 4 * (z - (v + x)) <= b /\ -b <= 4 * (z - (v + x))
  BY <1>2, <1>3, <1>4, <1>5, <1>7
<1>11. row \in Rows
  <2>1. cur.wins + won \in Nat /\ cur.losses + lost \in Nat
    BY <1>1
  <2> QED BY <1>2, <1>3, <1>8, <2>1 DEF Rows
<1>12. row.rate * row.n = z /\ row.n * (row.n + 1) = b /\ Scale * row.wins = v + x
  BY <1>6, <1>8 DEF z, b
<1>13. row.n = row.wins + row.losses
  BY <1>8, <1>9
<1> QED BY <1>10, <1>11, <1>12, <1>13 DEF Honest

LEMMA WriteRateDoes ==
    ASSUME LType, NEW t \in Ticks, Shape(t), WriteRate(t), Honest(work[t].cur),
           NEW s, s = work[t].sid, NEW new, new = work[t].tally[s], NEW cur, cur = work[t].cur
    PROVE  /\ pc[t] = "write" /\ s \in Strategies /\ cur \in Rows /\ new \in Tallies
           /\ rates' \in [Strategies -> Rows] /\ Honest(rates'[s])
           /\ rates'[s].n = cur.n + new.wins + new.losses
           /\ rates'[s].wins = cur.wins + new.wins /\ rates'[s].losses = cur.losses + new.losses
           /\ \A u \in Strategies \ {s} : rates'[u] = rates[u]
           /\ pc'[t] \in {"propose", "resolve"} /\ Aside(t)
           /\ pc'[t] = "propose" => work'[t].cur = rates'[s] /\ work'[t].sid = s
           /\ work'[t].open = work[t].open /\ work'[t].bought = work[t].bought
           /\ work'[t].todo = work[t].todo
           /\ work'[t].tally[s].wins = 0 /\ work'[t].tally[s].losses = 0 /\ work'[t].tally[s].evens = 0
           /\ \A u \in Strategies \ {s} : work'[t].tally[u] = work[t].tally[u]
           /\ pc' \in [Ticks -> Places] /\ work' \in [Ticks -> Works]
           /\ UNCHANGED <<portfolio, decisions, proposals, overlap, blurred>>
<1> DEFINE row == [rate |-> UpdateBaseRate(cur, new.wins, new.losses), n |-> cur.n + new.wins + new.losses,
                   wins |-> cur.wins + new.wins, losses |-> cur.losses + new.losses]
           tally == [work[t].tally EXCEPT ![s] = NoTally[s]]
           w == [work[t] EXCEPT !.tally[s] = NoTally[s], !.cur = row]
           on == [w EXCEPT !.sid = "none", !.cur = NoRate]
<1>0. pc[t] = "write" /\ UNCHANGED <<portfolio, decisions, proposals, overlap, blurred>>
  BY DEF WriteRate
<1>1. /\ work[t] \in Works /\ s \in Strategies /\ Scored(t, s) > 0
  BY <1>0 DEF LType, PType, Shape
<1>2. cur \in Rows /\ new \in Tallies /\ new.wins \in Nat /\ new.losses \in Nat /\ new.wins + new.losses > 0
  BY <1>1 DEF Works, Tallies, Scored
<1>3. row \in Rows /\ Honest(row)
  <2> HIDE DEF row
  <2>1. row = [rate |-> UpdateBaseRate(cur, new.wins, new.losses), n |-> cur.n + new.wins + new.losses,
               wins |-> cur.wins + new.wins, losses |-> cur.losses + new.losses]
    BY DEF row
  <2>2. Honest(cur)
    OBVIOUS
  <2> QED BY <1>2, <2>1, <2>2, HonestGrows
<1>4. row.n = cur.n + new.wins + new.losses /\ row.wins = cur.wins + new.wins /\ row.losses = cur.losses + new.losses
  OBVIOUS
<1>5. /\ rates' = [rates EXCEPT ![s] = row]
      /\ Goto(t, "propose", w) \/ Goto(t, "resolve", on)
  BY DEF WriteRate
<1> HIDE DEF row
<1>6. /\ rates' \in [Strategies -> Rows] /\ rates'[s] = row
      /\ \A u \in Strategies \ {s} : rates'[u] = rates[u]
  BY <1>1, <1>3, <1>5 DEF LType, PType
<1>7. /\ tally \in [Strategies -> Tallies]
      /\ tally[s].wins = 0 /\ tally[s].losses = 0 /\ tally[s].evens = 0
      /\ \A u \in Strategies \ {s} : tally[u] = work[t].tally[u]
  BY <1>1, NoWorkType DEF Works
<1>8. w = [[work[t] EXCEPT !.tally = tally] EXCEPT !.cur = row]
  BY <1>1 DEF Works
<1> HIDE DEF tally, w
<1>9. /\ w \in Works /\ w.tally = tally /\ w.cur = row /\ w.sid = s
      /\ w.open = work[t].open /\ w.bought = work[t].bought /\ w.todo = work[t].todo
  BY <1>1, <1>3, <1>7, <1>8 DEF Works
<1>10. /\ on \in Works /\ on.tally = tally
       /\ on.open = work[t].open /\ on.bought = work[t].bought /\ on.todo = work[t].todo
  BY <1>9, NoWorkType DEF Works
<1> HIDE DEF on
<1>11. /\ pc' \in [Ticks -> Places] /\ work' \in [Ticks -> Works] /\ Aside(t)
       /\ (pc'[t] = "propose" /\ work'[t] = w) \/ (pc'[t] = "resolve" /\ work'[t] = on)
  <2>1. "propose" \in Places /\ "resolve" \in Places
    BY DEF Places
  <2> QED BY <1>5, <1>9, <1>10, <2>1, GotoDoes DEF Aside
<1> QED BY <1>0, <1>1, <1>2, <1>3, <1>4, <1>6, <1>7, <1>9, <1>10, <1>11

LEMMA ProposeDoes ==
    ASSUME LType, NEW t \in Ticks, Shape(t), ProposeCooldown(t)
    PROVE  /\ pc[t] = "propose" /\ pc'[t] = "resolve" /\ Aside(t) /\ work[t].sid \in Strategies
           /\ proposals' = proposals \cup
                 {[strategy |-> work[t].sid, n |-> work[t].cur.n, wins |-> work[t].cur.wins]}
           /\ proposals' \subseteq [strategy : Strategies, n : Nat, wins : Nat]
           /\ work'[t].open = work[t].open /\ work'[t].bought = work[t].bought
           /\ work'[t].tally = work[t].tally /\ work'[t].todo = work[t].todo
           /\ pc' \in [Ticks -> Places] /\ work' \in [Ticks -> Works]
           /\ UNCHANGED <<portfolio, decisions, rates, overlap, blurred>>
<1> DEFINE w == [work[t] EXCEPT !.sid = "none", !.cur = NoRate]
           p == [strategy |-> work[t].sid, n |-> work[t].cur.n, wins |-> work[t].cur.wins]
<1>0. /\ pc[t] = "propose" /\ proposals' = proposals \cup {p}
      /\ UNCHANGED <<portfolio, decisions, rates, overlap, blurred>>
  BY DEF ProposeCooldown
<1>1. work[t] \in Works /\ work[t].sid \in Strategies /\ work[t].cur \in Rows
  BY <1>0 DEF LType, PType, Shape, Works
<1>2. p \in [strategy : Strategies, n : Nat, wins : Nat]
  BY <1>1 DEF Rows
<1>3. Goto(t, "resolve", w) /\ "resolve" \in Places
  BY DEF ProposeCooldown, Places
<1>4. w \in Works /\ w.bought = work[t].bought /\ w.tally = work[t].tally
      /\ w.open = work[t].open /\ w.todo = work[t].todo
  BY <1>1, NoWorkType DEF Works
<1> HIDE DEF w
<1>5. pc' \in [Ticks -> Places] /\ work' \in [Ticks -> Works] /\ pc'[t] = "resolve" /\ work'[t] = w /\ Aside(t)
  BY <1>3, <1>4, GotoDoes DEF Aside
<1> QED BY <1>0, <1>1, <1>2, <1>4, <1>5 DEF LType, PType

----------------------------------------------------------------------------
(* Types, shapes and rows. *)

\* A decision keeps all but its outcome.
Kept ==
    /\ DOMAIN decisions \subseteq DOMAIN decisions'
    /\ \A i \in DOMAIN decisions :
          /\ decisions'[i].sym = decisions[i].sym /\ decisions'[i].strats = decisions[i].strats
          /\ decisions'[i].base = decisions[i].base

\* Who neither moves nor changes what he holds has the same shape.
LEMMA ShapeStays ==
    ASSUME NEW u \in Ticks, Shape(u), Kept, pc'[u] = pc[u], work'[u] = work[u]
    PROVE  Shape(u)'
<1>1. \A i \in work[u].todo : i \in DOMAIN decisions
  BY DEF Shape
<1>2. \A s \in Strategies : Scored(u, s)' = Scored(u, s)
  BY DEF Scored
<1>3. \A i \in work'[u].todo : i \in DOMAIN decisions /\ decisions'[i].sym = decisions[i].sym
                                  /\ decisions'[i].strats = decisions[i].strats
  BY <1>1 DEF Kept
<1>4. work'[u].open \subseteq DOMAIN decisions' /\ work'[u].todo \subseteq DOMAIN decisions'
  BY DEF Shape, Kept
<1>5. \A i, j \in work'[u].todo : decisions'[i].sym = decisions'[j].sym
  BY <1>3 DEF Shape
<1>6. \A i \in work'[u].todo, s \in Strategies :
         s \in decisions'[i].strats => Scored(u, s)' + work'[u].tally[s].evens > 0
  BY <1>2, <1>3 DEF Shape
<1>7. pc'[u] = "write" => Scored(u, work[u].sid)' > 0
  BY DEF Shape, Scored
<1>8. /\ work'[u].open \cap work'[u].todo = {}
      /\ pc'[u] = "idle" => work'[u] = NoWork
      /\ pc'[u] \in {"idle", "trade", "record", "insert"} =>
            work'[u].open = {} /\ work'[u].todo = {} /\ work'[u].tally = NoTally
      /\ pc'[u] = "insert" => work'[u].bought # <<>>
      /\ work'[u].bought # <<>> => pc'[u] \in {"trade", "record", "insert"}
      /\ pc'[u] = "outcome" <=> work'[u].todo # {}
      /\ pc'[u] \in {"write", "propose"} => work'[u].open = {} /\ work'[u].sid \in Strategies
  BY DEF Shape
<1> QED BY <1>4, <1>5, <1>6, <1>7, <1>8 DEF Shape, Scored

\* Shape of a tick that holds no decision.
LEMMA ShapeEmpty ==
    ASSUME NEW t \in Ticks, work'[t].open = {}, work'[t].todo = {},
           pc'[t] \in {"trade", "record", "insert"}, work'[t].tally = NoTally,
           pc'[t] = "insert" => work'[t].bought # <<>>
    PROVE  Shape(t)'
BY DEF Shape

LEMMA ShapeIdle ==
    ASSUME NEW t \in Ticks, work'[t] = NoWork, pc'[t] \in {"idle", "trade"}
    PROVE  Shape(t)'
BY NoWorkType DEF Shape

LEMMA KeptSame == decisions' = decisions => Kept
BY DEF Kept

\* A step keeps the invariant if it keeps the types, its own tick's shape and its rows.
LEMMA LInvKept ==
    ASSUME LInv, LType', Kept, NEW t \in Ticks, Aside(t), Shape(t)',
           pc'[t] \in {"write", "propose"} => Honest(work'[t].cur),
           \A s \in Strategies : rates'[s] = rates[s] \/ Honest(rates'[s])
    PROVE  LInv'
<1>1. \A u \in Ticks : Shape(u)'
  <2> TAKE u \in Ticks
  <2>1. CASE u = t
    BY <2>1
  <2>2. CASE u # t
    BY <2>2, ShapeStays DEF Aside, LInv
  <2> QED BY <2>1, <2>2
<1>2. RowInv'
  <2>1. \A s \in Strategies : Honest(rates'[s])
    BY DEF LInv, RowInv
  <2>2. \A u \in Ticks : pc'[u] \in {"write", "propose"} => Honest(work'[u].cur)
    BY DEF LInv, RowInv, Aside
  <2> QED BY <2>1, <2>2 DEF RowInv, Honest
<1> QED BY <1>1, <1>2 DEF LInv

LEMMA LInvInit == LearningInit => LInv
<1> SUFFICES ASSUME LearningInit PROVE LInv
  OBVIOUS
<1>1. LType
  <2>1. PType
    BY NoWorkType DEF LearningInit, PType
  <2>2. decisions = <<>> /\ proposals = {} /\ overlap \in BOOLEAN /\ blurred \in BOOLEAN
    BY DEF LearningInit
  <2>3. decisions \in Seq(Decisions)
    BY <2>2
  <2>4. rates \in [Strategies -> Rows] /\ work \in [Ticks -> Works]
    BY NoWorkType DEF LearningInit
  <2>5. pc \in [Ticks -> Places]
    BY DEF LearningInit, Places
  <2> QED BY <2>1, <2>2, <2>3, <2>4, <2>5 DEF LType, PType
<1>2. \A t \in Ticks : pc[t] = "idle" /\ work[t] = NoWork /\ Shape(t)
  <2> TAKE t \in Ticks
  <2>1. pc[t] = "idle" /\ work[t] = NoWork
    BY DEF LearningInit
  <2> QED BY <2>1, NoWorkType DEF Shape
<1>3. Honest(NoRate)
  <2>1. NoRate.n = 0 /\ NoRate.wins = 0 /\ NoRate.losses = 0 /\ NoRate.rate * 0 = 0 /\ Scale * 0 = 0
    BY LearningConstants DEF NoRate
  <2> QED BY <2>1 DEF Honest
<1>4. RowInv
  BY <1>2, <1>3 DEF LearningInit, RowInv
<1> QED BY <1>1, <1>2, <1>4 DEF LInv

LEMMA LInvTrade ==
    ASSUME LInv, NEW t \in Ticks, NEW y \in Symbols,
           \/ \E pnl \in -1..1 : TickExits(t, y, pnl)
           \/ \E ss \in Backers : TickBuys(t, y, ss)
    PROVE  LInv'
<1>0. LType /\ Shape(t)
  BY DEF LInv
<1>1. CASE \E pnl \in -1..1 : TickExits(t, y, pnl)
  <2>1. PICK pnl \in -1..1 : TickExits(t, y, pnl)
    BY <1>1
  <2>2. /\ Sold(y, pnl) /\ pc[t] = "trade" /\ pc'[t] = "trade" /\ Aside(t)
        /\ work'[t].open = work[t].open /\ work'[t].todo = work[t].todo /\ work'[t].tally = work[t].tally
        /\ pc' \in [Ticks -> Places] /\ work' \in [Ticks -> Works]
        /\ UNCHANGED <<decisions, rates, proposals, overlap, blurred>>
    BY <1>0, <2>1, TickExitsDoes
  <2>3. PType'
    BY <1>0, <2>2, SoldTypes
  <2>4. LType'
    BY <1>0, <2>2, <2>3 DEF LType, PType
  <2>5. Shape(t)'
    <3>1. work[t].open = {} /\ work[t].todo = {} /\ work[t].tally = NoTally
      BY <1>0, <2>2 DEF Shape
    <3> QED BY <2>2, <3>1, ShapeEmpty
  <2> QED BY <2>2, <2>4, <2>5, KeptSame, LInvKept
<1>2. CASE \E ss \in Backers : TickBuys(t, y, ss)
  <2>1. PICK ss \in Backers : TickBuys(t, y, ss)
    BY <1>2
  <2>2. /\ pc[t] = "trade" /\ pc'[t] = "trade" /\ Aside(t)
        /\ work'[t].open = work[t].open /\ work'[t].todo = work[t].todo /\ work'[t].tally = work[t].tally
        /\ pc' \in [Ticks -> Places] /\ work' \in [Ticks -> Works]
        /\ PType' /\ blurred' \in BOOLEAN
        /\ UNCHANGED <<realized, ended, decisions, rates, proposals, overlap>>
    BY <1>0, <2>1, TickBuysDoes
  <2>4. LType'
    BY <1>0, <2>2 DEF LType, PType
  <2>5. Shape(t)'
    <3>1. work[t].open = {} /\ work[t].todo = {} /\ work[t].tally = NoTally
      BY <1>0, <2>2 DEF Shape
    <3> QED BY <2>2, <3>1, ShapeEmpty
  <2> QED BY <2>2, <2>4, <2>5, KeptSame, LInvKept
<1> QED BY <1>1, <1>2

LEMMA LInvBegin ==
    ASSUME LInv, NEW t \in Ticks, Begin(t) \/ EndUnlearned(t) \/ EndRun(t) \/ Abandon(t)
    PROVE  LInv'
<1>0. LType /\ Shape(t)
  BY DEF LInv
<1>1. /\ pc'[t] \in {"idle", "trade"} /\ work'[t] = NoWork /\ Aside(t)
      /\ pc' \in [Ticks -> Places] /\ work' \in [Ticks -> Works]
      /\ UNCHANGED <<portfolio, learning>>
  BY <1>0, BeginDoes
<1>2. overlap' \in BOOLEAN /\ blurred' \in BOOLEAN
  BY <1>0 DEF Begin, EndUnlearned, EndRun, Abandon, LType, PType, Busy
<1>3. LType'
  BY <1>0, <1>1, <1>2 DEF LType, PType, portfolio, learning
<1>4. Shape(t)'
  BY <1>1, ShapeIdle
<1>5. decisions' = decisions /\ rates' = rates
  BY <1>1 DEF learning
<1> QED BY <1>1, <1>3, <1>4, <1>5, KeptSame, LInvKept

LEMMA LInvRecord ==
    ASSUME LInv, NEW t \in Ticks, ReadBase(t) \/ RecordDecision(t)
    PROVE  LInv'
<1>0. LType /\ Shape(t)
  BY DEF LInv
<1>1. CASE ReadBase(t)
  <2>1. /\ Recording(t) /\ work[t].bought # <<>> /\ pc'[t] = "insert" /\ Aside(t)
        /\ work'[t].bought = work[t].bought /\ work'[t].tally = work[t].tally
        /\ work'[t].open = work[t].open /\ work'[t].todo = work[t].todo
        /\ pc' \in [Ticks -> Places] /\ work' \in [Ticks -> Works]
        /\ UNCHANGED <<portfolio, learning, overlap, blurred>>
    BY <1>0, <1>1, ReadBaseDoes
  <2>2. LType'
    BY <1>0, <2>1 DEF LType, PType, portfolio, learning
  <2>3. Shape(t)'
    <3>1. work[t].open = {} /\ work[t].todo = {} /\ work[t].tally = NoTally
      BY <1>0, <2>1 DEF Shape, Recording
    <3> QED BY <2>1, <3>1, ShapeEmpty
  <2>4. decisions' = decisions /\ rates' = rates
    BY <2>1 DEF learning
  <2> QED BY <2>1, <2>2, <2>3, <2>4, KeptSame, LInvKept
<1>2. CASE RecordDecision(t)
  <2>0. work[t].bought # <<>>
    BY <1>0, <1>2 DEF RecordDecision, Shape
  <2>1. /\ pc[t] = "insert" /\ pc'[t] = "record" /\ Aside(t)
        /\ DOMAIN decisions = 1..Len(decisions) /\ Len(decisions) \in Nat
        /\ DOMAIN decisions' = 1..(Len(decisions) + 1)
        /\ \A i \in DOMAIN decisions : decisions'[i] = decisions[i]
        /\ decisions' \in Seq(Decisions) /\ work'[t].tally = work[t].tally
        /\ work'[t].open = work[t].open /\ work'[t].todo = work[t].todo
        /\ pc' \in [Ticks -> Places] /\ work' \in [Ticks -> Works]
        /\ UNCHANGED <<portfolio, rates, proposals, overlap, blurred>>
    BY <1>0, <1>2, <2>0, RecordDecisionDoes
  <2>2. LType'
    BY <1>0, <2>1 DEF LType, PType, portfolio
  <2>3. Shape(t)'
    <3>1. work[t].open = {} /\ work[t].todo = {} /\ work[t].tally = NoTally
      BY <1>0, <2>1 DEF Shape
    <3> QED BY <2>1, <3>1, ShapeEmpty
  <2>4. Kept
    BY <2>1 DEF Kept
  <2> QED BY <2>1, <2>2, <2>3, <2>4, LInvKept
<1> QED BY <1>1, <1>2

LEMMA LInvReadOpen ==
    ASSUME LInv, NEW t \in Ticks, ReadOpen(t)
    PROVE  LInv'
<1>0. LType /\ Shape(t)
  BY DEF LInv
<1>1. /\ Recording(t) /\ pc'[t] = "resolve" /\ Aside(t)
      /\ work'[t].open = {i \in DOMAIN decisions : IsOpen(i)}
      /\ work'[t].bought = <<>> /\ work'[t].tally = work[t].tally
      /\ work'[t].todo = work[t].todo
      /\ pc' \in [Ticks -> Places] /\ work' \in [Ticks -> Works]
      /\ UNCHANGED <<portfolio, learning, overlap, blurred>>
  BY <1>0, ReadOpenDoes
<1>2. LType'
  BY <1>0, <1>1 DEF LType, PType, portfolio, learning
<1>3. Shape(t)'
  <2>1. work'[t].todo = {} /\ work'[t].open \subseteq DOMAIN decisions' /\ decisions' = decisions
    BY <1>0, <1>1 DEF Shape, Recording, learning
  <2> QED BY <1>1, <2>1 DEF Shape
<1>4. decisions' = decisions /\ rates' = rates
  BY <1>1 DEF learning
<1> QED BY <1>1, <1>2, <1>3, <1>4, KeptSame, LInvKept

LEMMA LInvReadPosition ==
    ASSUME LInv, NEW t \in Ticks, ReadPosition(t)
    PROVE  LInv'
<1>0. LType /\ Shape(t)
  BY DEF LInv
<1> DEFINE ids == Next1(t)
           y == decisions[Min(work[t].open)].sym
           pnl == realized[y] - TripBase(ids)
<1>1. /\ pc[t] = "resolve" /\ y \in Symbols /\ ids # {} /\ ids \subseteq work[t].open
      /\ \A i \in work[t].open : i \in ids <=> decisions[i].sym = y
      /\ work[t].todo = {} /\ work'[t].open = work[t].open \ ids
      /\ work'[t].bought = work[t].bought /\ Aside(t)
      /\ held[y] => /\ pc'[t] = "resolve" /\ work'[t].todo = {} /\ work'[t].tally = work[t].tally
      /\ ~held[y] =>
            /\ pc'[t] = "outcome" /\ work'[t].todo = ids /\ pnl \in Int
            /\ \A s \in Strategies :
                  LET new == (\E i \in ids : s \in decisions[i].strats) IN
                  /\ work'[t].tally[s].wins = work[t].tally[s].wins + (IF new /\ pnl > 0 THEN 1 ELSE 0)
                  /\ work'[t].tally[s].losses = work[t].tally[s].losses + (IF new /\ pnl < 0 THEN 1 ELSE 0)
                  /\ work'[t].tally[s].evens = work[t].tally[s].evens + (IF new /\ pnl = 0 THEN 1 ELSE 0)
      /\ pc' \in [Ticks -> Places] /\ work' \in [Ticks -> Works]
      /\ UNCHANGED <<portfolio, learning, overlap, blurred>>
  BY <1>0, ReadPositionDoes
<1> HIDE DEF ids, y, pnl
<1>2. LType'
  BY <1>0, <1>1 DEF LType, PType, portfolio, learning
<1>3. decisions' = decisions /\ rates' = rates
  BY <1>1 DEF learning
<1>4. /\ work[t].bought = <<>> /\ work[t].open \subseteq DOMAIN decisions
  BY <1>0, <1>1 DEF Shape
<1>5. Shape(t)'
  <2>1. CASE held[y]
    BY <1>1, <1>3, <1>4, <2>1 DEF Shape
  <2>2. CASE ~held[y]
    <3>1. \A i \in ids : decisions[i].sym = y
      BY <1>1
    <3>2. ASSUME NEW i \in ids, NEW s \in Strategies, s \in decisions[i].strats
          PROVE  work'[t].tally[s].wins + work'[t].tally[s].losses + work'[t].tally[s].evens > 0
      <4>1. work[t].tally[s] \in Tallies
        BY <1>0 DEF LType, PType, Works
      <4>2. /\ work'[t].tally[s].wins = work[t].tally[s].wins + (IF pnl > 0 THEN 1 ELSE 0)
            /\ work'[t].tally[s].losses = work[t].tally[s].losses + (IF pnl < 0 THEN 1 ELSE 0)
            /\ work'[t].tally[s].evens = work[t].tally[s].evens + (IF pnl = 0 THEN 1 ELSE 0)
            /\ pnl \in Int
        BY <1>1, <2>2, <3>2
      <4> DEFINE a == work[t].tally[s].wins
                 b == work[t].tally[s].losses
                 c == work[t].tally[s].evens
      <4>3. a \in Nat /\ b \in Nat /\ c \in Nat
        BY <4>1 DEF Tallies
      <4> HIDE DEF a, b, c
      <4>4. a + (IF pnl > 0 THEN 1 ELSE 0) + (b + (IF pnl < 0 THEN 1 ELSE 0)) + (c + (IF pnl = 0 THEN 1 ELSE 0)) > 0
        BY <4>2, <4>3
      <4> QED BY <4>2, <4>4 DEF a, b, c
    <3>3. /\ \A i \in work'[t].todo, s \in Strategies :
                 s \in decisions'[i].strats =>
                    work'[t].tally[s].wins + work'[t].tally[s].losses + work'[t].tally[s].evens > 0
          /\ \A i, j \in work'[t].todo : decisions'[i].sym = decisions'[j].sym
          /\ work'[t].todo # {} /\ pc'[t] = "outcome"
          /\ work'[t].open \subseteq DOMAIN decisions' /\ work'[t].todo \subseteq DOMAIN decisions'
          /\ work'[t].open \cap work'[t].todo = {} /\ work'[t].bought = <<>>
      BY <1>1, <1>3, <1>4, <2>2, <3>1, <3>2
    <3> QED BY <3>3 DEF Shape, Scored
  <2> QED BY <2>1, <2>2
<1>6. pc'[t] \notin {"write", "propose"}
  BY <1>1
<1> QED BY <1>1, <1>2, <1>3, <1>5, <1>6, KeptSame, LInvKept

LEMMA LInvRecordOutcome ==
    ASSUME LInv, NEW t \in Ticks, RecordOutcome(t)
    PROVE  LInv'
<1>0. LType /\ Shape(t)
  BY DEF LInv
<1> DEFINE i == Min(work[t].todo)
<1>1. /\ pc[t] = "outcome" /\ i \in work[t].todo /\ i \in DOMAIN decisions /\ Aside(t)
      /\ DOMAIN decisions' = DOMAIN decisions /\ decisions' \in Seq(Decisions)
      /\ decisions'[i].sym = decisions[i].sym /\ decisions'[i].strats = decisions[i].strats
      /\ decisions'[i].base = decisions[i].base
      /\ \A j \in DOMAIN decisions : j # i => decisions'[j] = decisions[j]
      /\ work'[t].todo = work[t].todo \ {i}
      /\ pc'[t] = (IF work[t].todo \ {i} = {} THEN "resolve" ELSE "outcome")
      /\ work'[t].open = work[t].open /\ work'[t].bought = work[t].bought
      /\ work'[t].tally = work[t].tally
      /\ pc' \in [Ticks -> Places] /\ work' \in [Ticks -> Works]
      /\ UNCHANGED <<portfolio, rates, proposals, overlap, blurred>>
  BY <1>0, RecordOutcomeDoes
<1> HIDE DEF i
<1>2. LType'
  BY <1>0, <1>1 DEF LType, PType, portfolio
<1>3. Kept
  BY <1>1 DEF Kept
<1>4. Shape(t)'
  <2>1. /\ work[t].open \subseteq DOMAIN decisions /\ work[t].todo \subseteq DOMAIN decisions
        /\ work[t].open \cap work[t].todo = {} /\ work[t].bought = <<>>
        /\ \A j, k \in work[t].todo : decisions[j].sym = decisions[k].sym
        /\ \A j \in work[t].todo, s \in Strategies : s \in decisions[j].strats =>
              work[t].tally[s].wins + work[t].tally[s].losses + work[t].tally[s].evens > 0
    BY <1>0, <1>1 DEF Shape, Scored
  <2>2. \A j \in work'[t].todo : j \in work[t].todo /\ j \in DOMAIN decisions /\ decisions'[j] = decisions[j]
    BY <1>1, <2>1
  <2>3. /\ work'[t].open \subseteq DOMAIN decisions' /\ work'[t].todo \subseteq DOMAIN decisions'
        /\ work'[t].open \cap work'[t].todo = {} /\ work'[t].bought = <<>>
    BY <1>1, <2>1
  <2>4. /\ \A j, k \in work'[t].todo : decisions'[j].sym = decisions'[k].sym
        /\ \A j \in work'[t].todo, s \in Strategies : s \in decisions'[j].strats =>
              work'[t].tally[s].wins + work'[t].tally[s].losses + work'[t].tally[s].evens > 0
    BY <1>1, <2>1, <2>2
  <2>5. pc'[t] \in {"resolve", "outcome"} /\ (pc'[t] = "outcome" <=> work'[t].todo # {})
    BY <1>1
  <2> QED BY <2>3, <2>4, <2>5 DEF Shape, Scored
<1>5. pc'[t] \notin {"write", "propose"}
  BY <1>1
<1> QED BY <1>1, <1>2, <1>3, <1>4, <1>5, LInvKept

LEMMA LInvRate ==
    ASSUME LInv, NEW t \in Ticks, (\E s \in Strategies : ReadRate(t, s)) \/ WriteRate(t) \/ ProposeCooldown(t)
    PROVE  LInv'
<1>0. LType /\ Shape(t) /\ RowInv
  BY DEF LInv
<1>1. CASE \E s \in Strategies : ReadRate(t, s)
  <2>1. PICK s \in Strategies : ReadRate(t, s)
    BY <1>1
  <2>2. /\ pc[t] = "resolve" /\ work[t].open = {} /\ Scored(t, s) > 0
        /\ pc'[t] = "write" /\ Aside(t) /\ work'[t].sid = s /\ work'[t].cur = rates[s]
        /\ work'[t].open = work[t].open /\ work'[t].bought = work[t].bought
        /\ work'[t].tally = work[t].tally /\ work'[t].todo = work[t].todo
        /\ pc' \in [Ticks -> Places] /\ work' \in [Ticks -> Works]
        /\ UNCHANGED <<portfolio, learning, overlap, blurred>>
    BY <1>0, <2>1, ReadRateDoes
  <2>3. LType'
    BY <1>0, <2>2 DEF LType, PType, portfolio, learning
  <2>4. decisions' = decisions /\ rates' = rates
    BY <2>2 DEF learning
  <2>5. work'[t].open = {} /\ work'[t].todo = {} /\ work'[t].bought = <<>>
    BY <1>0, <2>2 DEF Shape
  <2>6. Scored(t, s)' > 0
    BY <2>2 DEF Scored
  <2>7. Shape(t)'
    BY <2>2, <2>5, <2>6 DEF Shape, Scored
  <2>8. Honest(work'[t].cur)
    BY <1>0, <2>2 DEF RowInv
  <2> QED BY <2>2, <2>3, <2>4, <2>7, <2>8, KeptSame, LInvKept
<1>2. CASE WriteRate(t)
  <2> DEFINE s == work[t].sid
             new == work[t].tally[s]
             cur == work[t].cur
  <2>1. pc[t] = "write"
    BY <1>2 DEF WriteRate
  <2>2. Honest(cur)
    BY <1>0, <2>1 DEF RowInv
  <2>3. /\ s \in Strategies
        /\ rates' \in [Strategies -> Rows] /\ Honest(rates'[s])
        /\ \A u \in Strategies \ {s} : rates'[u] = rates[u]
        /\ pc'[t] \in {"propose", "resolve"} /\ Aside(t)
        /\ pc'[t] = "propose" => work'[t].cur = rates'[s] /\ work'[t].sid = s
        /\ work'[t].open = work[t].open /\ work'[t].bought = work[t].bought
        /\ work'[t].todo = work[t].todo
        /\ pc' \in [Ticks -> Places] /\ work' \in [Ticks -> Works]
        /\ UNCHANGED <<portfolio, decisions, proposals, overlap, blurred>>
    BY <1>0, <1>2, <2>2, WriteRateDoes
  <2> HIDE DEF s, new, cur
  <2>4. LType'
    BY <1>0, <2>3 DEF LType, PType, portfolio
  <2>5. work'[t].open = {} /\ work'[t].todo = {} /\ work'[t].bought = <<>>
    BY <1>0, <2>1, <2>3 DEF Shape
  <2>6. Shape(t)'
    BY <2>3, <2>5 DEF Shape
  <2>7. pc'[t] \in {"write", "propose"} => Honest(work'[t].cur)
    BY <2>3
  <2>8. \A u \in Strategies : rates'[u] = rates[u] \/ Honest(rates'[u])
    BY <2>3
  <2> QED BY <1>0, <2>3, <2>4, <2>6, <2>7, <2>8, KeptSame, LInvKept
<1>3. CASE ProposeCooldown(t)
  <2>2. /\ pc[t] = "propose" /\ pc'[t] = "resolve" /\ Aside(t)
        /\ proposals' \subseteq [strategy : Strategies, n : Nat, wins : Nat]
        /\ work'[t].open = work[t].open /\ work'[t].bought = work[t].bought
        /\ work'[t].todo = work[t].todo
        /\ pc' \in [Ticks -> Places] /\ work' \in [Ticks -> Works]
        /\ UNCHANGED <<portfolio, decisions, rates, overlap, blurred>>
    BY <1>0, <1>3, ProposeDoes
  <2>3. LType'
    BY <1>0, <2>2 DEF LType, PType, portfolio
  <2>5. work'[t].open = {} /\ work'[t].todo = {} /\ work'[t].bought = <<>>
    BY <1>0, <2>2 DEF Shape
  <2>7. Shape(t)'
    BY <2>2, <2>5 DEF Shape
  <2> QED BY <2>2, <2>3, <2>7, KeptSame, LInvKept
<1> QED BY <1>1, <1>2, <1>3

LEMMA LInvHands ==
    ASSUME LInv, UNCHANGED <<decisions, rates, proposals, pc, work>>, overlap' \in BOOLEAN,
           blurred' \in BOOLEAN, PType'
    PROVE  LInv'
<1>1. LType'
  BY DEF LInv, LType
<1>2. \A t \in Ticks : Shape(t)'
  BY ShapeStays, KeptSame DEF LInv
<1>3. RowInv'
  BY DEF LInv, RowInv, Honest
<1> QED BY <1>1, <1>2, <1>3 DEF LInv

\* The ways a step can be taken: by a tick that trades, by one that learns, by hand.
LEMMA NextIs ==
    ASSUME LearningNext
    PROVE  \/ \E t \in Ticks :
                \/ Begin(t) \/ EndUnlearned(t) \/ LearnStep(t) \/ Abandon(t)
                \/ \E y \in Symbols : \/ \E pnl \in -1..1 : TickExits(t, y, pnl)
                                      \/ \E ss \in Backers : TickBuys(t, y, ss)
           \/ \E y \in Symbols : ByHand(y)
BY DEF LearningNext, ByHand, Backers

LEMMA LInvStep == LInv /\ [LearningNext]_learningVars => LInv'
<1> SUFFICES ASSUME LInv, [LearningNext]_learningVars PROVE LInv'
  OBVIOUS
<1>0. LType
  BY DEF LInv
<1>1. CASE UNCHANGED learningVars
  BY <1>0, <1>1, LInvHands DEF learningVars, portfolio, learning, LType, PType
<1>2. ASSUME NEW t \in Ticks, Begin(t) \/ EndUnlearned(t) \/ LearnStep(t) \/ Abandon(t)
      PROVE  LInv'
  BY <1>2, LInvBegin, LInvRecord, LInvReadOpen, LInvReadPosition, LInvRecordOutcome, LInvRate DEF LearnStep
<1>3. ASSUME NEW t \in Ticks, NEW y \in Symbols,
             (\E pnl \in -1..1 : TickExits(t, y, pnl)) \/ \E ss \in Backers : TickBuys(t, y, ss)
      PROVE  LInv'
  BY <1>3, LInvTrade
<1>5. ASSUME NEW y \in Symbols, ByHand(y)
      PROVE  LInv'
  <2>1. /\ PType' /\ overlap' \in BOOLEAN /\ blurred' \in BOOLEAN /\ UNCHANGED <<learning, pc, work>>
    BY <1>0, <1>5, ByHandDoes
  <2>2. UNCHANGED <<decisions, rates, proposals>>
    BY <2>1 DEF learning
  <2> QED BY <2>1, <2>2, LInvHands
<1> QED BY <1>1, <1>2, <1>3, <1>5, NextIs

LEMMA LInvSays == LInv => RateIsHitRate
<1> SUFFICES ASSUME LInv, NEW s \in Strategies, NEW r, r = rates[s], NEW off, off = r.rate * r.n - Scale * r.wins
             PROVE  /\ r.n = r.wins + r.losses
                    /\ 4 * (IF off < 0 THEN -off ELSE off) <= r.n * (r.n + 1)
  BY DEF RateIsHitRate
<1>1. Honest(r) /\ r \in Rows
  BY DEF LInv, RowInv, LType, PType
<1>2. r.rate \in Int /\ r.n \in Nat /\ r.wins \in Nat /\ r.n = r.wins + r.losses
  BY <1>1 DEF Rows, Honest
<1>3. 4 * off <= r.n * (r.n + 1) /\ -(r.n * (r.n + 1)) <= 4 * off
  BY <1>1 DEF Honest
<1>4. off \in Int
  BY <1>2, LearningConstants
<1> DEFINE a == r.n * (r.n + 1)
<1>5. a \in Int /\ 4 * off <= a /\ -a <= 4 * off
  BY <1>2, <1>3
<1> HIDE DEF a
<1>6. 4 * (IF off < 0 THEN -off ELSE off) <= a
  BY <1>4, <1>5
<1> QED BY <1>2, <1>6 DEF a

----------------------------------------------------------------------------
(* What has been counted against the decisions that ticks saw close.       *)

\* What t has tallied of s and not yet added to the row.
OwedBy(t, s) == {<<t, j>> : j \in 1..Scored(t, s)}

LEMMA ScoredIs ==
    ASSUME LType, NEW t \in Ticks, NEW s \in Strategies
    PROVE  /\ work[t].tally[s].wins \in Nat /\ work[t].tally[s].losses \in Nat /\ work[t].tally[s].evens \in Nat
           /\ Scored(t, s) \in Nat
<1>1. work[t].tally[s] \in Tallies
  BY DEF LType, PType, Works
<1> QED BY <1>1 DEF Tallies, Scored

LEMMA OwedByIs ==
    ASSUME LType, NEW t \in Ticks, NEW s \in Strategies
    PROVE  /\ IsFiniteSet(OwedBy(t, s)) /\ Cardinality(OwedBy(t, s)) = Scored(t, s)
           /\ OwedBy(t, s) \subseteq {t} \X Nat
<1> DEFINE m == Scored(t, s)
           S == 1..m
           T == {<<t, j>> : j \in S}
           f == [j \in S |-> <<t, j>>]
<1>1. m \in Nat
  BY ScoredIs
<1>2. IsFiniteSet(S) /\ Cardinality(S) = m
  <2> HIDE DEF m
  <2> QED BY <1>1, FS_Interval
<1>3. f \in Bijection(S, T)
  BY DEF Bijection, Injection, Surjection, IsInjective
<1>4. ExistsBijection(S, T)
  BY <1>3 DEF ExistsBijection
<1>5. T \subseteq {t} \X Nat
  BY <1>1
<1>6. IsFiniteSet(T) /\ Cardinality(T) = m
  <2> HIDE DEF T, S, m, f
  <2> QED BY <1>2, <1>4, FS_Bijection
<1> QED BY <1>5, <1>6 DEF OwedBy

LEMMA OwedIs ==
    ASSUME LType, NEW s \in Strategies
    PROVE  /\ Owed(s) = UNION {OwedBy(t, s) : t \in Ticks}
           /\ IsFiniteSet(Owed(s)) /\ Cardinality(Owed(s)) \in Nat
<1> DEFINE T == {OwedBy(t, s) : t \in Ticks}
           f == [t \in Ticks |-> OwedBy(t, s)]
<1>1. Owed(s) = UNION T
  BY DEF Owed, OwedBy
<1>2. f \in Surjection(Ticks, T)
  BY DEF Surjection
<1>3. IsFiniteSet(T)
  <2> HIDE DEF T, f
  <2> QED BY <1>2, FS_Surjection, LearningConstants
<1>4. \A X \in T : IsFiniteSet(X)
  BY OwedByIs
<1>5. IsFiniteSet(UNION T)
  <2> HIDE DEF T
  <2> QED BY <1>3, <1>4, FS_UNION
<1> QED BY <1>1, <1>5, FS_CardinalityType

LEMMA SharesAre ==
    ASSUME LType, NEW s \in Strategies
    PROVE  /\ IsFiniteSet(Spent(s)) /\ Cardinality(Spent(s)) \in Nat
           /\ IsFiniteSet(Due(s)) /\ Cardinality(Due(s)) \in Nat
           /\ rates[s].n \in Nat /\ \A t \in Ticks : work[t].cur.n \in Nat
<1>1. IsFiniteSet(DOMAIN decisions)
  <2>1. DOMAIN decisions = 1..Len(decisions) /\ Len(decisions) \in Nat
    BY DEF LType, PType
  <2> DEFINE m == Len(decisions)
  <2>2. m \in Int /\ DOMAIN decisions = 1..m
    BY <2>1
  <2> HIDE DEF m
  <2> QED BY <2>2, FS_Interval
<1>2. IsFiniteSet(Ticks \X DOMAIN decisions)
  BY <1>1, FS_Product, LearningConstants
<1>3. Spent(s) \in SUBSET (Ticks \X DOMAIN decisions) /\ Due(s) \in SUBSET Ticks
  BY DEF Spent, Due
<1>4. IsFiniteSet(Spent(s)) /\ IsFiniteSet(Due(s))
  BY <1>2, <1>3, FS_Subset, LearningConstants
<1>5. rates[s].n \in Nat
  BY DEF LType, PType, Rows
<1>6. \A t \in Ticks : work[t].cur.n \in Nat
  <2> TAKE t \in Ticks
  <2>1. work[t].cur \in Rows
    BY DEF LType, PType, Works
  <2> QED BY <2>1 DEF Rows
<1> QED BY <1>4, <1>5, <1>6, FS_CardinalityType

Counts ==
    \A s \in Strategies :
        /\ IsFiniteSet(Owed(s)) /\ IsFiniteSet(Spent(s)) /\ IsFiniteSet(Due(s))
        /\ Cardinality(Owed(s)) \in Nat /\ Cardinality(Spent(s)) \in Nat /\ Cardinality(Due(s)) \in Nat

LEMMA CountsNow == LType => Counts
BY SharesAre, OwedIs DEF Counts

LEMMA CountsNext == LType' => Counts'
BY CountsNow, PTL

\* A step keeps what a strategy's rows say within its shares if the shares lose no
\* more than what is owed.
LEMMA ShareKept ==
    ASSUME LType, LType', ShareInv, NEW s \in Strategies,
           Cardinality(Owed(s))' + Cardinality(Spent(s)) + Cardinality(Due(s))
              <= Cardinality(Owed(s)) + Cardinality(Spent(s))' + Cardinality(Due(s))',
           rates'[s].n = rates[s].n,
           \A t \in Ticks : pc'[t] = "write" /\ work'[t].sid = s =>
              \/ work'[t].cur.n = rates[s].n
              \/ pc[t] = "write" /\ work[t].sid = s /\ work'[t].cur.n = work[t].cur.n
    PROVE  /\ rates'[s].n + Cardinality(Owed(s))' <= Cardinality(Spent(s))' + Cardinality(Due(s))'
           /\ \A t \in Ticks : pc'[t] = "write" /\ work'[t].sid = s =>
                 work'[t].cur.n + Cardinality(Owed(s))' <= Cardinality(Spent(s))' + Cardinality(Due(s))'
<1> DEFINE o == Cardinality(Owed(s))
           p == Cardinality(Spent(s))
           d == Cardinality(Due(s))
           a == Cardinality(Owed(s))'
           b == Cardinality(Spent(s))'
           c == Cardinality(Due(s))'
           n == rates[s].n
<1>1. o \in Nat /\ p \in Nat /\ d \in Nat /\ n \in Nat /\ (\A t \in Ticks : work[t].cur.n \in Nat)
  BY SharesAre, OwedIs
<1>2. a \in Nat /\ b \in Nat /\ c \in Nat
  BY CountsNext DEF Counts
<1>3. n + o <= p + d /\ \A t \in Ticks : pc[t] = "write" /\ work[t].sid = s => work[t].cur.n + o <= p + d
  BY DEF ShareInv
<1>4. a + p + d <= o + b + c
  OBVIOUS
<1> HIDE DEF o, p, d, a, b, c, n
<1>5. \A x \in Nat : x + o <= p + d => x + a <= b + c
  BY <1>1, <1>2, <1>4
<1> QED BY <1>1, <1>3, <1>5 DEF o, p, d, a, b, c, n

\* A step that tallies nothing, takes nothing in hand and closes nothing keeps the shares.
LEMMA ShareGrows ==
    ASSUME LInv, LInv', ShareInv, rates' = rates, DOMAIN decisions \subseteq DOMAIN decisions',
           \A i \in DOMAIN decisions : decisions'[i] = decisions[i],
           \A u \in Ticks, s \in Strategies : Scored(u, s)' = Scored(u, s),
           \A u \in Ticks : work'[u].todo = work[u].todo,
           \A u \in Ticks, i \in DOMAIN decisions : ~IsOpen(i) /\ i \notin work[u].open => i \notin work'[u].open,
           \A u \in Ticks, s \in Strategies : pc'[u] = "write" /\ work'[u].sid = s =>
              \/ work'[u].cur.n = rates[s].n
              \/ pc[u] = "write" /\ work[u].sid = s /\ work'[u].cur.n = work[u].cur.n
    PROVE  ShareInv'
<1>0. LType /\ LType' /\ \A u \in Ticks : Shape(u)
  BY DEF LInv
<1>1. ASSUME NEW s \in Strategies
      PROVE  /\ rates'[s].n + Cardinality(Owed(s))' <= Cardinality(Spent(s))' + Cardinality(Due(s))'
             /\ \A t \in Ticks : pc'[t] = "write" /\ work'[t].sid = s =>
                   work'[t].cur.n + Cardinality(Owed(s))' <= Cardinality(Spent(s))' + Cardinality(Due(s))'
  <2>1. Owed(s)' = Owed(s)
    <3>1. \A u \in Ticks : {<<u, j>> : j \in 1..Scored(u, s)'} = {<<u, j>> : j \in 1..Scored(u, s)}
      OBVIOUS
    <3>2. UNION {{<<u, j>> : j \in 1..Scored(u, s)'} : u \in Ticks} = UNION {{<<u, j>> : j \in 1..Scored(u, s)} : u \in Ticks}
      BY <3>1
    <3> QED BY <3>2 DEF Owed
  <2>2. \A u \in Ticks : \A i \in work[u].todo : i \in DOMAIN decisions
    BY <1>0 DEF Shape
  <2>3. Due(s)' = Due(s)
    BY <2>2 DEF Due, IsOpen
  <2>4. Spent(s) \in SUBSET Spent(s)'
    BY DEF Spent, IsOpen
  <2>5. Counts /\ Counts'
    BY <1>0, CountsNow, CountsNext
  <2> DEFINE S == Spent(s)
             Sp == Spent(s)'
  <2>6. IsFiniteSet(Sp) /\ S \in SUBSET Sp
    BY <2>4, <2>5 DEF Counts
  <2>7. Cardinality(S) <= Cardinality(Sp)
    <3> HIDE DEF S, Sp
    <3> QED BY <2>6, FS_Subset
  <2>8. Cardinality(Owed(s))' + Cardinality(Spent(s)) + Cardinality(Due(s))
              <= Cardinality(Owed(s)) + Cardinality(Spent(s))' + Cardinality(Due(s))'
    <3>1. Cardinality(Owed(s))' = Cardinality(Owed(s)) /\ Cardinality(Due(s))' = Cardinality(Due(s))
      BY <2>1, <2>3
    <3> DEFINE o == Cardinality(Owed(s))
               d == Cardinality(Due(s))
               p == Cardinality(S)
               q == Cardinality(Sp)
    <3>2. o \in Nat /\ d \in Nat /\ p \in Nat /\ q \in Nat /\ p <= q
      BY <2>5, <2>7 DEF Counts
    <3> HIDE DEF o, d, p, q
    <3>3. o + p + d <= o + q + d
      BY <3>2
    <3> QED BY <3>1, <3>3 DEF o, d, p, q
  <2> QED BY <1>0, <2>8, ShareKept
<1> QED BY <1>1 DEF ShareInv

LEMMA ShareAbandon ==
    ASSUME LInv, LInv', ShareInv, NEW t \in Ticks, Abandon(t)
    PROVE  ShareInv'
<1>0. LType /\ LType' /\ \A u \in Ticks : Shape(u)
  BY DEF LInv
<1>1. /\ pc'[t] \in {"idle", "trade"} /\ work'[t] = NoWork /\ Aside(t)
      /\ decisions' = decisions /\ rates' = rates
  BY <1>0, BeginDoes DEF learning
<1>2. /\ work'[t].open = {} /\ work'[t].todo = {}
      /\ \A s \in Strategies : work'[t].tally[s].wins = 0 /\ work'[t].tally[s].losses = 0
  BY <1>1, NoWorkType
<1>3. Counts /\ Counts'
  BY <1>0, CountsNow, CountsNext
<1>4. ASSUME NEW s \in Strategies
      PROVE  /\ rates'[s].n + Cardinality(Owed(s))' <= Cardinality(Spent(s))' + Cardinality(Due(s))'
             /\ \A u \in Ticks : pc'[u] = "write" /\ work'[u].sid = s =>
                   work'[u].cur.n + Cardinality(Owed(s))' <= Cardinality(Spent(s))' + Cardinality(Due(s))'
  <2>1. Scored(t, s)' = 0 /\ \A u \in Ticks \ {t} : Scored(u, s)' = Scored(u, s)
    BY <1>1, <1>2 DEF Scored, Aside
  <2> DEFINE O == Owed(s)
             Op == Owed(s)'
             S == Spent(s)
             Sp == Spent(s)'
             D == Due(s)
             Dp == Due(s)'
  <2>2. IsFiniteSet(O) /\ IsFiniteSet(S) /\ IsFiniteSet(D) /\ IsFiniteSet(Op) /\ IsFiniteSet(Sp) /\ IsFiniteSet(Dp)
    BY <1>3 DEF Counts
  <2>3. S \in SUBSET Sp
    <3>1. \A u \in Ticks : work'[u].open \subseteq work[u].open
      BY <1>1, <1>2 DEF Aside
    <3> QED BY <1>1, <3>1 DEF Spent, IsOpen
  <2>4. Dp = D \ {t}
    BY <1>1, <1>2, <2>1 DEF Due, Aside, IsOpen
  <2>5. Op \in SUBSET O
    BY <2>1 DEF Owed
  <2>6. ASSUME t \in D PROVE <<t, 1>> \in O /\ <<t, 1>> \notin Op
    <3>1. Scored(t, s) \in Nat /\ Scored(t, s) > 0
      BY <1>0, <2>6, ScoredIs DEF Due
    <3>2. <<t, 1>> \in OwedBy(t, s)
      <4>1. 1 \in 1..Scored(t, s)
        BY <3>1
      <4> QED BY <4>1 DEF OwedBy
    <3>3. \A u \in Ticks : <<t, 1>> \notin {<<u, j>> : j \in 1..Scored(u, s)'}
      BY <2>1
    <3> QED BY <3>2, <3>3 DEF Owed, OwedBy
  <2> DEFINE x == <<t, 1>>
  <2>7. t \in D => Op \in SUBSET (O \ {x}) /\ x \in O
    BY <2>5, <2>6
  <2> HIDE DEF O, Op, S, Sp, D, Dp, x
  <2>8. Cardinality(S) <= Cardinality(Sp) /\ Cardinality(Op) <= Cardinality(O)
    BY <2>2, <2>3, <2>5, FS_Subset
  <2>9. t \in D => Cardinality(Op) <= Cardinality(O) - 1
    <3>1. IsFiniteSet(O \ {x}) /\ (x \in O => Cardinality(O \ {x}) = Cardinality(O) - 1)
      BY <2>2, FS_RemoveElement
    <3> QED BY <2>7, <3>1, FS_Subset
  <2>10. Cardinality(Dp) = IF t \in D THEN Cardinality(D) - 1 ELSE Cardinality(D)
    BY <2>2, <2>4, FS_RemoveElement
  <2>11. /\ Cardinality(O) \in Nat /\ Cardinality(S) \in Nat /\ Cardinality(D) \in Nat
         /\ Cardinality(Op) \in Nat /\ Cardinality(Sp) \in Nat /\ Cardinality(Dp) \in Nat
    BY <2>2, FS_CardinalityType
  <2>12. Cardinality(Op) + Cardinality(S) + Cardinality(D) <= Cardinality(O) + Cardinality(Sp) + Cardinality(Dp)
    BY <2>8, <2>9, <2>10, <2>11
  <2>13. \A u \in Ticks : pc'[u] = "write" /\ work'[u].sid = s =>
            pc[u] = "write" /\ work[u].sid = s /\ work'[u].cur.n = work[u].cur.n
    BY <1>1 DEF Aside
  <2> QED BY <1>0, <1>1, <2>12, <2>13, ShareKept DEF O, Op, S, Sp, D, Dp
<1> QED BY <1>4 DEF ShareInv

\* A tick that tallies a close has a decision of it in hand, or has seen one closed.
LEMMA ShareReadPosition ==
    ASSUME LInv, LInv', ShareInv, NEW t \in Ticks, ReadPosition(t)
    PROVE  ShareInv'
<1>0. LType /\ LType' /\ Shape(t) /\ \A u \in Ticks : Shape(u)
  BY DEF LInv
<1> DEFINE ids == Next1(t)
           y == decisions[Min(work[t].open)].sym
           pnl == realized[y] - TripBase(ids)
<1>1. /\ pc[t] = "resolve" /\ ids # {} /\ ids \subseteq work[t].open
      /\ work[t].todo = {} /\ work'[t].open = work[t].open \ ids /\ Aside(t)
      /\ held[y] => /\ pc'[t] = "resolve" /\ work'[t].todo = {} /\ work'[t].tally = work[t].tally
      /\ ~held[y] =>
            /\ pc'[t] = "outcome" /\ work'[t].todo = ids /\ pnl \in Int
            /\ \A s \in Strategies :
                  LET new == (\E i \in ids : s \in decisions[i].strats) IN
                  /\ work'[t].tally[s].wins = work[t].tally[s].wins + (IF new /\ pnl > 0 THEN 1 ELSE 0)
                  /\ work'[t].tally[s].losses = work[t].tally[s].losses + (IF new /\ pnl < 0 THEN 1 ELSE 0)
                  /\ work'[t].tally[s].evens = work[t].tally[s].evens + (IF new /\ pnl = 0 THEN 1 ELSE 0)
      /\ UNCHANGED <<portfolio, learning, overlap, blurred>>
  BY <1>0, ReadPositionDoes
<1> HIDE DEF ids, y, pnl
<1>2. decisions' = decisions /\ rates' = rates /\ work[t].open \subseteq DOMAIN decisions
  BY <1>0, <1>1 DEF learning, Shape
<1>3. \A u \in Ticks, s \in Strategies : pc'[u] = "write" /\ work'[u].sid = s =>
         pc[u] = "write" /\ work[u].sid = s /\ work'[u].cur.n = work[u].cur.n
  BY <1>1 DEF Aside
<1>4. CASE held[y]
  <2>1. \A u \in Ticks : work'[u].open \subseteq work[u].open /\ work'[u].todo = work[u].todo /\ work'[u].tally = work[u].tally
    BY <1>1, <1>4 DEF Aside
  <2>2. \A u \in Ticks, s \in Strategies : Scored(u, s)' = Scored(u, s)
    BY <2>1 DEF Scored
  <2>3. \A u \in Ticks, i \in DOMAIN decisions : ~IsOpen(i) /\ i \notin work[u].open => i \notin work'[u].open
    BY <2>1
  <2> QED BY <1>2, <1>3, <2>1, <2>2, <2>3, ShareGrows
<1>5. CASE ~held[y]
  <2>1. Counts /\ Counts'
    BY <1>0, CountsNow, CountsNext
  <2>2. ASSUME NEW s \in Strategies
        PROVE  /\ rates'[s].n + Cardinality(Owed(s))' <= Cardinality(Spent(s))' + Cardinality(Due(s))'
               /\ \A u \in Ticks : pc'[u] = "write" /\ work'[u].sid = s =>
                     work'[u].cur.n + Cardinality(Owed(s))' <= Cardinality(Spent(s))' + Cardinality(Due(s))'
    <3> DEFINE O == Owed(s)
               Op == Owed(s)'
               S == Spent(s)
               Sp == Spent(s)'
               D == Due(s)
               Dp == Due(s)'
               m == Scored(t, s)
               x == <<t, m + 1>>
               news == \E i \in ids : s \in decisions[i].strats
    <3>1. IsFiniteSet(O) /\ IsFiniteSet(S) /\ IsFiniteSet(D) /\ IsFiniteSet(Op) /\ IsFiniteSet(Sp) /\ IsFiniteSet(Dp)
      BY <2>1 DEF Counts
    <3>2. m \in Nat /\ \A u \in Ticks \ {t} : Scored(u, s)' = Scored(u, s)
      BY <1>0, <1>1, ScoredIs DEF Scored, Aside
    <3>3. Scored(t, s)' = m \/ (Scored(t, s)' = m + 1 /\ news)
      <4> DEFINE a == work[t].tally[s].wins
                 b == work[t].tally[s].losses
                 a1 == work'[t].tally[s].wins
                 b1 == work'[t].tally[s].losses
      <4>1. a \in Nat /\ b \in Nat /\ pnl \in Int
        BY <1>0, <1>1, <1>5, ScoredIs
      <4>2. /\ a1 = a + (IF news /\ pnl > 0 THEN 1 ELSE 0)
            /\ b1 = b + (IF news /\ pnl < 0 THEN 1 ELSE 0)
        BY <1>1, <1>5
      <4>3. m = a + b /\ Scored(t, s)' = a1 + b1
        BY DEF Scored
      <4> HIDE DEF a, b, a1, b1, m, news
      <4> QED BY <4>1, <4>2, <4>3
    <3>4. S \in SUBSET Sp
      <4>1. \A u \in Ticks : work'[u].open \subseteq work[u].open
        BY <1>1 DEF Aside
      <4> QED BY <1>2, <4>1 DEF Spent, IsOpen
    <3>5. t \notin D
      BY <1>1 DEF Due
    <3>6. D \in SUBSET Dp
      <4>1. \A u \in D : u # t
        BY <3>5
      <4> QED BY <1>1, <1>2, <3>2, <4>1 DEF Due, Aside, IsOpen
    <3>7. CASE Scored(t, s)' = m
      <4>1. Op = O
        <5>1. \A u \in Ticks : {<<u, j>> : j \in 1..Scored(u, s)'} = {<<u, j>> : j \in 1..Scored(u, s)}
          BY <3>2, <3>7
        <5> QED BY <5>1 DEF Owed
      <4>2. /\ Cardinality(O) \in Nat /\ Cardinality(S) \in Nat /\ Cardinality(D) \in Nat
            /\ Cardinality(Op) \in Nat /\ Cardinality(Sp) \in Nat /\ Cardinality(Dp) \in Nat
        BY <2>1 DEF Counts
      <4> HIDE DEF O, Op, S, Sp, D, Dp
      <4>3. Cardinality(S) <= Cardinality(Sp) /\ Cardinality(D) <= Cardinality(Dp)
        BY <3>1, <3>4, <3>6, FS_Subset
      <4>4. Cardinality(Op) + Cardinality(S) + Cardinality(D) <= Cardinality(O) + Cardinality(Sp) + Cardinality(Dp)
        BY <4>1, <4>2, <4>3
      <4> QED BY <1>0, <1>2, <1>3, <4>4, ShareKept DEF O, Op, S, Sp, D, Dp
    <3>8. CASE Scored(t, s)' = m + 1 /\ news
      <4>1. Op \in SUBSET (O \cup {x})
        <5>1. \A u \in Ticks : {<<u, j>> : j \in 1..Scored(u, s)'} \subseteq {<<u, j>> : j \in 1..Scored(u, s)} \cup {x}
          <6> TAKE u \in Ticks
          <6>1. CASE u = t
            <7> HIDE DEF m
            <7>1. \A j \in 1..(m + 1) : j \in 1..m \/ j = m + 1
              BY <3>2
            <7> QED BY <3>8, <6>1, <7>1 DEF m
          <6>2. CASE u # t
            BY <3>2, <6>2
          <6> QED BY <6>1, <6>2
        <5> QED BY <5>1 DEF Owed
      <4>2. PICK i \in ids : s \in decisions[i].strats
        BY <3>8
      <4>3. i \in DOMAIN decisions /\ i \in work[t].open /\ i \notin work'[t].open /\ i \in work'[t].todo
        BY <1>1, <1>2, <1>5, <4>2
      <4>4. \/ IsOpen(i) /\ t \in Dp
            \/ ~IsOpen(i) /\ <<t, i>> \in Sp /\ <<t, i>> \notin S
        <5>1. CASE IsOpen(i)
          <6>1. Scored(t, s)' > 0
            <7> HIDE DEF m
            <7> QED BY <3>2, <3>8
          <6>2. s \in decisions'[i].strats /\ IsOpen(i)'
            BY <1>2, <4>2, <5>1 DEF IsOpen
          <6> QED BY <4>3, <5>1, <6>1, <6>2 DEF Due
        <5>2. CASE ~IsOpen(i)
          <6>1. s \in decisions'[i].strats /\ ~IsOpen(i)' /\ i \in DOMAIN decisions'
            BY <1>2, <4>2, <4>3, <5>2 DEF IsOpen
          <6> QED BY <4>3, <5>2, <6>1 DEF Spent
        <5> QED BY <5>1, <5>2
      <4>5. /\ Cardinality(O) \in Nat /\ Cardinality(S) \in Nat /\ Cardinality(D) \in Nat
            /\ Cardinality(Op) \in Nat /\ Cardinality(Sp) \in Nat /\ Cardinality(Dp) \in Nat
        BY <2>1 DEF Counts
      <4> DEFINE z == <<t, i>>
      <4>6. (t \in Dp) \/ (z \in Sp /\ z \notin S)
        BY <4>4
      <4> HIDE DEF O, Op, S, Sp, D, Dp, x, z
      <4>7. Cardinality(S) <= Cardinality(Sp) /\ Cardinality(D) <= Cardinality(Dp)
        BY <3>1, <3>4, <3>6, FS_Subset
      <4>8. Cardinality(Op) <= Cardinality(O) + 1
        <5>0. /\ IsFiniteSet(O \cup {x})
              /\ Cardinality(O \cup {x}) = IF x \in O THEN Cardinality(O) ELSE Cardinality(O) + 1
          BY <3>1, FS_AddElement
        <5>1. IsFiniteSet(O \cup {x}) /\ Cardinality(O \cup {x}) <= Cardinality(O) + 1
          BY <4>5, <5>0
        <5>2. Cardinality(O \cup {x}) \in Nat
          BY <5>1, FS_CardinalityType
        <5> QED BY <4>1, <4>5, <5>1, <5>2, FS_Subset
      <4>9. Cardinality(S) + Cardinality(D) + 1 <= Cardinality(Sp) + Cardinality(Dp)
        <5>1. CASE t \in Dp
          <6>1. D \cup {t} \in SUBSET Dp /\ Cardinality(D \cup {t}) = Cardinality(D) + 1
            BY <3>1, <3>5, <3>6, <5>1, FS_AddElement
          <6>2. Cardinality(D \cup {t}) <= Cardinality(Dp)
            BY <3>1, <6>1, FS_Subset
          <6> QED BY <4>5, <4>7, <6>1, <6>2
        <5>2. CASE z \in Sp /\ z \notin S
          <6>1. S \cup {z} \in SUBSET Sp /\ Cardinality(S \cup {z}) = Cardinality(S) + 1
            BY <3>1, <3>4, <5>2, FS_AddElement
          <6>2. Cardinality(S \cup {z}) <= Cardinality(Sp)
            BY <3>1, <6>1, FS_Subset
          <6> QED BY <4>5, <4>7, <6>1, <6>2
        <5> QED BY <4>6, <5>1, <5>2
      <4>10. Cardinality(Op) + Cardinality(S) + Cardinality(D) <= Cardinality(O) + Cardinality(Sp) + Cardinality(Dp)
        BY <4>5, <4>8, <4>9
      <4> QED BY <1>0, <1>2, <1>3, <4>10, ShareKept DEF O, Op, S, Sp, D, Dp
    <3> QED BY <3>3, <3>7, <3>8
  <2> QED BY <2>2 DEF ShareInv
<1> QED BY <1>4, <1>5

\* Each tick that loses its say over a decision has seen it close.
LEMMA ShareRecordOutcome ==
    ASSUME LInv, LInv', ShareInv, NEW t \in Ticks, RecordOutcome(t)
    PROVE  ShareInv'
<1>0. LType /\ LType' /\ Shape(t) /\ \A u \in Ticks : Shape(u)
  BY DEF LInv
<1>a. PICK i : i = Min(work[t].todo)
  OBVIOUS
<1>1. /\ pc[t] = "outcome" /\ i \in work[t].todo /\ i \in DOMAIN decisions /\ Aside(t)
      /\ DOMAIN decisions' = DOMAIN decisions
      /\ decisions'[i].strats = decisions[i].strats /\ decisions'[i].outcome = "closed"
      /\ \A j \in DOMAIN decisions : j # i => decisions'[j] = decisions[j]
      /\ work'[t].todo = work[t].todo \ {i}
      /\ pc'[t] = (IF work[t].todo \ {i} = {} THEN "resolve" ELSE "outcome")
      /\ work'[t].open = work[t].open /\ work'[t].tally = work[t].tally
      /\ UNCHANGED <<portfolio, rates, proposals, overlap, blurred>>
  BY <1>0, <1>a, RecordOutcomeDoes
<1>2. pc'[t] \in {"resolve", "outcome"}
  BY <1>1
<1>3. \A u \in Ticks, s \in Strategies : pc'[u] = "write" /\ work'[u].sid = s =>
         pc[u] = "write" /\ work[u].sid = s /\ work'[u].cur.n = work[u].cur.n
  BY <1>1, <1>2 DEF Aside
<1>4. /\ \A u \in Ticks : work'[u].open = work[u].open /\ work'[u].tally = work[u].tally
      /\ \A u \in Ticks : \A j \in work[u].todo : j # i => j \in work'[u].todo
  BY <1>1 DEF Aside
<1>5. \A u \in Ticks, s \in Strategies : Scored(u, s)' = Scored(u, s)
  BY <1>4 DEF Scored
<1>6. \A j \in DOMAIN decisions : decisions'[j].strats = decisions[j].strats /\ (~IsOpen(j) => ~IsOpen(j)')
  BY <1>1 DEF IsOpen
<1>7. ASSUME NEW s \in Strategies
      PROVE  /\ rates'[s].n + Cardinality(Owed(s))' <= Cardinality(Spent(s))' + Cardinality(Due(s))'
             /\ \A u \in Ticks : pc'[u] = "write" /\ work'[u].sid = s =>
                   work'[u].cur.n + Cardinality(Owed(s))' <= Cardinality(Spent(s))' + Cardinality(Due(s))'
  <2> DEFINE S == Spent(s)
             Sp == Spent(s)'
             D == Due(s)
             Dp == Due(s)'
             L == D \ Dp
             F == {<<u, i>> : u \in L}
             f == [u \in L |-> <<u, i>>]
  <2>1. Counts /\ Counts'
    BY <1>0, CountsNow, CountsNext
  <2>2. /\ IsFiniteSet(S) /\ IsFiniteSet(D) /\ IsFiniteSet(Sp) /\ IsFiniteSet(Dp)
        /\ Cardinality(S) \in Nat /\ Cardinality(D) \in Nat
        /\ Cardinality(Sp) \in Nat /\ Cardinality(Dp) \in Nat
    BY <2>1 DEF Counts
  <2>3. Owed(s)' = Owed(s)
    <3>1. \A u \in Ticks : {<<u, j>> : j \in 1..Scored(u, s)'} = {<<u, j>> : j \in 1..Scored(u, s)}
      BY <1>5
    <3> QED BY <3>1 DEF Owed
  <2>4. S \subseteq Sp
    BY <1>1, <1>4, <1>6 DEF Spent
  <2>5. ASSUME NEW u \in L
        PROVE  u \in Ticks /\ i \in work[u].todo /\ s \in decisions[i].strats /\ IsOpen(i)
    <3>1. u \in Ticks /\ Scored(u, s) > 0 /\ u \notin Dp
      BY DEF Due
    <3>2. PICK j \in work[u].todo : s \in decisions[j].strats /\ IsOpen(j)
      BY DEF Due
    <3>3. j \in DOMAIN decisions
      BY <1>0, <3>1, <3>2 DEF Shape
    <3>4. j = i
      <4>1. SUFFICES ASSUME j # i PROVE FALSE
        OBVIOUS
      <4>2. j \in work'[u].todo /\ s \in decisions'[j].strats /\ IsOpen(j)' /\ Scored(u, s)' > 0
        BY <1>1, <1>4, <1>5, <3>1, <3>2, <3>3, <4>1 DEF IsOpen
      <4> QED BY <3>1, <4>2 DEF Due
    <3> QED BY <3>1, <3>2, <3>4
  <2>6. ASSUME NEW u \in L
        PROVE  <<u, i>> \in Sp /\ <<u, i>> \notin S
    <3>1. u \in Ticks /\ i \in work[u].todo /\ s \in decisions[i].strats /\ IsOpen(i)
      BY <2>5
    <3>2. i \notin work[u].open
      BY <1>0, <3>1 DEF Shape
    <3>3. i \notin work'[u].open /\ s \in decisions'[i].strats /\ ~IsOpen(i)' /\ i \in DOMAIN decisions'
      BY <1>1, <1>4, <3>1, <3>2 DEF IsOpen
    <3>4. <<u, i>> \in Sp
      BY <3>1, <3>3 DEF Spent
    <3>5. <<u, i>> \notin S
      BY <3>1 DEF Spent
    <3> QED BY <3>4, <3>5
  <2>7. F \subseteq Sp /\ F \cap S = {}
    BY <2>6
  <2>8. f \in Bijection(L, F)
    BY DEF Bijection, Injection, Surjection, IsInjective
  <2>9. ExistsBijection(L, F)
    BY <2>8 DEF ExistsBijection
  <2> HIDE DEF F, f, S, Sp
  <2>10. IsFiniteSet(L) /\ Cardinality(L) = Cardinality(D) - Cardinality(D \cap Dp)
    <3> HIDE DEF D, Dp
    <3> QED BY <2>2, FS_Difference
  <2> HIDE DEF L, D, Dp
  <2>11. IsFiniteSet(F) /\ Cardinality(F) = Cardinality(L)
    BY <2>9, <2>10, FS_Bijection
  <2>12. Cardinality(D \cap Dp) <= Cardinality(Dp) /\ Cardinality(D \cap Dp) \in Nat
    <3>1. D \cap Dp \in SUBSET Dp
      OBVIOUS
    <3>2. IsFiniteSet(D \cap Dp) /\ Cardinality(D \cap Dp) <= Cardinality(Dp)
      BY <2>2, <3>1, FS_Subset
    <3> QED BY <3>2, FS_CardinalityType
  <2>13. Cardinality(S) + Cardinality(F) <= Cardinality(Sp)
    <3>1. IsFiniteSet(S \cup F) /\ Cardinality(S \cup F) = Cardinality(S) + Cardinality(F) - Cardinality(S \cap F)
      BY <2>2, <2>11, FS_Union
    <3>2. Cardinality(S \cap F) = 0
      <4>1. S \cap F = {}
        BY <2>7
      <4> QED BY <4>1, FS_EmptySet
    <3>3. S \cup F \in SUBSET Sp
      BY <2>4, <2>7
    <3>4. Cardinality(S \cup F) <= Cardinality(Sp)
      BY <2>2, <3>3, FS_Subset
    <3>5. Cardinality(F) \in Nat
      BY <2>11, FS_CardinalityType
    <3> QED BY <2>2, <3>1, <3>2, <3>4, <3>5
  <2>14. Cardinality(S) + Cardinality(D) <= Cardinality(Sp) + Cardinality(Dp)
    <3>1. Cardinality(F) \in Nat
      BY <2>11, FS_CardinalityType
    <3> QED BY <2>2, <2>10, <2>11, <2>12, <2>13, <3>1
  <2>15. Cardinality(Owed(s)) \in Nat /\ Cardinality(Owed(s))' = Cardinality(Owed(s))
    BY <2>1, <2>3 DEF Counts
  <2> DEFINE o == Cardinality(Owed(s))
  <2>16. o + Cardinality(S) + Cardinality(D) <= o + Cardinality(Sp) + Cardinality(Dp)
    <3> HIDE DEF o
    <3>1. o \in Nat
      BY <2>15 DEF o
    <3> QED BY <2>2, <2>14, <3>1
  <2>17. rates'[s].n = rates[s].n
    BY <1>1
  <2> QED BY <1>0, <1>3, <2>15, <2>16, <2>17, ShareKept DEF S, Sp, D, Dp
<1> QED BY <1>7 DEF ShareInv

\* What goes into the row is taken off what is owed.
LEMMA ShareWriteRate ==
    ASSUME LInv, LInv', ShareInv, NEW t \in Ticks, WriteRate(t)
    PROVE  ShareInv'
<1>0. LType /\ LType' /\ Shape(t) /\ RowInv /\ \A u \in Ticks : Shape(u)
  BY DEF LInv
<1>a. PICK s : s = work[t].sid
  OBVIOUS
<1> DEFINE new == work[t].tally[s]
           cur == work[t].cur
<1>1. pc[t] = "write" /\ Honest(cur)
  BY <1>0 DEF WriteRate, RowInv
<1>2. /\ s \in Strategies
      /\ rates'[s].n = cur.n + new.wins + new.losses
      /\ \A u \in Strategies \ {s} : rates'[u] = rates[u]
      /\ pc'[t] \in {"propose", "resolve"} /\ Aside(t)
      /\ work'[t].open = work[t].open /\ work'[t].todo = work[t].todo
      /\ work'[t].tally[s].wins = 0 /\ work'[t].tally[s].losses = 0
      /\ \A u \in Strategies \ {s} : work'[t].tally[u] = work[t].tally[u]
      /\ UNCHANGED <<portfolio, decisions, proposals, overlap, blurred>>
  BY <1>0, <1>a, <1>1, WriteRateDoes
<1>3. Counts /\ Counts'
  BY <1>0, CountsNow, CountsNext
<1>4. /\ \A u \in Ticks : work'[u].open = work[u].open /\ work'[u].todo = work[u].todo
      /\ \A u \in Ticks, v \in Strategies : (u # t \/ v # s) => Scored(u, v)' = Scored(u, v)
      /\ Scored(t, s)' = 0 /\ decisions' = decisions
  BY <1>2 DEF Aside, Scored
<1>5. \A v \in Strategies : Spent(v)' = Spent(v)
  BY <1>4 DEF Spent, IsOpen
<1>6. work[t].todo = {}
  BY <1>0, <1>1 DEF Shape
<1>7. \A v \in Strategies : Due(v)' = Due(v)
  BY <1>4, <1>6 DEF Due, IsOpen
<1>8. \A u \in Ticks, v \in Strategies : pc'[u] = "write" /\ work'[u].sid = v =>
         u # t /\ pc[u] = "write" /\ work[u].sid = v /\ work'[u].cur.n = work[u].cur.n
  BY <1>2 DEF Aside
<1>9. ASSUME NEW v \in Strategies, v # s
      PROVE  /\ rates'[v].n + Cardinality(Owed(v))' <= Cardinality(Spent(v))' + Cardinality(Due(v))'
             /\ \A u \in Ticks : pc'[u] = "write" /\ work'[u].sid = v =>
                   work'[u].cur.n + Cardinality(Owed(v))' <= Cardinality(Spent(v))' + Cardinality(Due(v))'
  <2>1. Owed(v)' = Owed(v)
    <3>1. \A u \in Ticks : {<<u, j>> : j \in 1..Scored(u, v)'} = {<<u, j>> : j \in 1..Scored(u, v)}
      BY <1>4, <1>9
    <3> QED BY <3>1 DEF Owed
  <2>2. rates'[v].n = rates[v].n
    BY <1>2, <1>9
  <2> QED BY <1>5, <1>7, <1>8, <2>1, <2>2 DEF ShareInv
<1>10. /\ rates'[s].n + Cardinality(Owed(s))' <= Cardinality(Spent(s))' + Cardinality(Due(s))'
       /\ \A u \in Ticks : pc'[u] = "write" /\ work'[u].sid = s =>
             work'[u].cur.n + Cardinality(Owed(s))' <= Cardinality(Spent(s))' + Cardinality(Due(s))'
  <2> DEFINE O == Owed(s)
             Op == Owed(s)'
             B == OwedBy(t, s)
             m == Scored(t, s)
  <2>1. IsFiniteSet(O) /\ IsFiniteSet(Op) /\ Cardinality(O) \in Nat /\ Cardinality(Op) \in Nat
    BY <1>2, <1>3 DEF Counts
  <2>2. IsFiniteSet(B) /\ Cardinality(B) = m /\ m \in Nat
    BY <1>0, <1>2, OwedByIs, ScoredIs
  <2>3. B \subseteq O
    BY DEF Owed, OwedBy
  <2>4. Op \subseteq O \ B
    <3>1. \A u \in Ticks : {<<u, j>> : j \in 1..Scored(u, s)'} \subseteq {<<u, j>> : j \in 1..Scored(u, s)}
      <4> TAKE u \in Ticks
      <4>1. CASE u = t
        <5>1. Scored(u, s)' = 0 /\ \A j \in 1..0 : FALSE
          BY <1>4, <4>1
        <5> QED BY <5>1
      <4>2. CASE u # t
        <5>1. Scored(u, s)' = Scored(u, s)
          BY <1>2, <1>4, <4>2
        <5> QED BY <5>1
      <4> QED BY <4>1, <4>2
    <3>2. Op \subseteq O
      BY <3>1 DEF Owed
    <3>3. \A p \in Op : p \notin B
      <4>1. \A u \in Ticks : \A p \in {<<u, j>> : j \in 1..Scored(u, s)'} : p \notin B
        <5> TAKE u \in Ticks
        <5>1. CASE u = t
          BY <1>4, <5>1
        <5>2. CASE u # t
          BY <5>2 DEF OwedBy
        <5> QED BY <5>1, <5>2
      <4> QED BY <4>1 DEF Owed
    <3> QED BY <3>2, <3>3
  <2> DEFINE o == Cardinality(O)
             p == Cardinality(Op)
             q == Cardinality(Spent(s)) + Cardinality(Due(s))
             k == cur.n
             n == rates[s].n
  <2>5. p + m <= o
    <3> HIDE DEF O, Op, B, m
    <3>1. IsFiniteSet(O \ B) /\ Cardinality(O \ B) = Cardinality(O) - Cardinality(O \cap B)
      BY <2>1, FS_Difference
    <3>2. O \cap B = B /\ Op \in SUBSET (O \ B)
      BY <2>3, <2>4
    <3>3. Cardinality(O \ B) = o - m
      BY <2>2, <3>1, <3>2
    <3>4. Cardinality(Op) <= Cardinality(O \ B)
      BY <3>1, <3>2, FS_Subset
    <3> QED BY <2>1, <2>2, <3>3, <3>4
  <2>6. k + o <= q
    BY <1>a, <1>1, <1>2 DEF ShareInv
  <2>7. rates'[s].n = k + m
    <3> DEFINE a == new.wins
               b == new.losses
    <3>1. a \in Nat /\ b \in Nat /\ k \in Nat
      BY <1>0, <1>2, ScoredIs, SharesAre
    <3>2. rates'[s].n = k + a + b /\ m = a + b
      BY <1>2 DEF Scored
    <3> HIDE DEF a, b, k, m
    <3> QED BY <3>1, <3>2
  <2>8. q \in Nat /\ k \in Nat /\ o \in Nat /\ p \in Nat
    <3>1. Cardinality(Spent(s)) \in Nat /\ Cardinality(Due(s)) \in Nat
      BY <1>2, <1>3 DEF Counts
    <3>2. k \in Nat
      BY <1>0, <1>2, SharesAre
    <3> QED BY <2>1, <3>1, <3>2
  <2>9. Cardinality(Spent(s))' + Cardinality(Due(s))' = q
    BY <1>2, <1>5, <1>7
  <2>10. Cardinality(Owed(s))' = p
    OBVIOUS
  <2>11. \A u \in Ticks : pc'[u] = "write" /\ work'[u].sid = s =>
            work'[u].cur.n \in Nat /\ work'[u].cur.n + o <= q
    <3>1. \A u \in Ticks : pc[u] = "write" /\ work[u].sid = s => work[u].cur.n + o <= q
      BY <1>2 DEF ShareInv
    <3>2. \A u \in Ticks : work[u].cur.n \in Nat
      BY <1>0, <1>2, SharesAre
    <3> QED BY <1>2, <1>8, <3>1, <3>2
  <2> HIDE DEF O, Op, B, m, o, p, q, k, n
  <2>12. rates'[s].n + p <= q
    BY <2>2, <2>5, <2>6, <2>7, <2>8
  <2>13. \A u \in Ticks : pc'[u] = "write" /\ work'[u].sid = s => work'[u].cur.n + p <= q
    <3>1. p <= o
      BY <2>2, <2>5, <2>8
    <3>2. \A x \in Nat : x + o <= q => x + p <= q
      BY <2>8, <3>1
    <3> QED BY <2>11, <3>2
  <2> QED BY <2>9, <2>10, <2>12, <2>13
<1>11. \A v \in Strategies :
         /\ rates'[v].n + Cardinality(Owed(v))' <= Cardinality(Spent(v))' + Cardinality(Due(v))'
         /\ \A u \in Ticks : pc'[u] = "write" /\ work'[u].sid = v =>
               work'[u].cur.n + Cardinality(Owed(v))' <= Cardinality(Spent(v))' + Cardinality(Due(v))'
  <2> TAKE v \in Strategies
  <2>1. CASE v = s
    BY <1>10, <2>1
  <2>2. CASE v # s
    BY <1>9, <2>2
  <2> QED BY <2>1, <2>2
<1> QED BY <1>11 DEF ShareInv

LEMMA ShareInvInit == LearningInit => ShareInv
<1> SUFFICES ASSUME LearningInit, NEW s \in Strategies
             PROVE  /\ rates[s].n + Cardinality(Owed(s)) <= Cardinality(Spent(s)) + Cardinality(Due(s))
                    /\ \A t \in Ticks : pc[t] # "write"
  BY DEF ShareInv
<1>0. LType
  BY LInvInit DEF LInv
<1>1. rates[s].n = 0 /\ \A t \in Ticks : pc[t] = "idle" /\ work[t] = NoWork
  BY DEF LearningInit, NoRate
<1>2. \A t \in Ticks : Scored(t, s) = 0
  BY <1>1, NoWorkType DEF Scored
<1>3. Owed(s) = {}
  <2>1. \A t \in Ticks : {<<t, j>> : j \in 1..Scored(t, s)} = {}
    <3> TAKE t \in Ticks
    <3>1. Scored(t, s) = 0 /\ \A j \in 1..0 : FALSE
      BY <1>2
    <3> QED BY <3>1
  <2> QED BY <2>1 DEF Owed
<1>4. Cardinality(Owed(s)) = 0
  BY <1>3, FS_EmptySet
<1>5. Cardinality(Spent(s)) \in Nat /\ Cardinality(Due(s)) \in Nat
  BY <1>0, CountsNow DEF Counts
<1>6. rates[s].n + Cardinality(Owed(s)) = 0
  BY <1>1, <1>4
<1> QED BY <1>1, <1>5, <1>6

\* A step that touches neither books of learning nor what ticks hold of them.
LEMMA ShareAside ==
    ASSUME LInv, LInv', ShareInv, rates' = rates, decisions' = decisions,
           \A u \in Ticks : work'[u].todo = work[u].todo /\ work'[u].open = work[u].open
                            /\ work'[u].tally = work[u].tally,
           \A u \in Ticks : pc'[u] = "write" =>
              pc[u] = "write" /\ work'[u].sid = work[u].sid /\ work'[u].cur = work[u].cur
    PROVE  ShareInv'
<1>1. \A u \in Ticks, s \in Strategies : Scored(u, s)' = Scored(u, s)
  BY DEF Scored
<1>2. /\ DOMAIN decisions \subseteq DOMAIN decisions'
      /\ \A i \in DOMAIN decisions : decisions'[i] = decisions[i]
      /\ \A u \in Ticks : work'[u].todo = work[u].todo
      /\ \A u \in Ticks, i \in DOMAIN decisions : ~IsOpen(i) /\ i \notin work[u].open => i \notin work'[u].open
      /\ \A u \in Ticks, s \in Strategies : pc'[u] = "write" /\ work'[u].sid = s =>
            \/ work'[u].cur.n = rates[s].n
            \/ pc[u] = "write" /\ work[u].sid = s /\ work'[u].cur.n = work[u].cur.n
  OBVIOUS
<1> QED BY <1>1, <1>2, ShareGrows

LEMMA ShareEnd ==
    ASSUME LInv, LInv', ShareInv, NEW t \in Ticks, Begin(t) \/ EndUnlearned(t) \/ EndRun(t)
    PROVE  ShareInv'
<1>0. LType /\ Shape(t)
  BY DEF LInv
<1>1. /\ pc'[t] \in {"idle", "trade"} /\ work'[t] = NoWork /\ Aside(t)
      /\ decisions' = decisions /\ rates' = rates
  BY <1>0, BeginDoes DEF learning
<1>2. /\ work'[t].open = {} /\ work'[t].todo = {}
      /\ \A s \in Strategies : work'[t].tally[s].wins = 0 /\ work'[t].tally[s].losses = 0
  BY <1>1, NoWorkType
<1>3. /\ work[t].open = {} /\ work[t].todo = {} /\ \A s \in Strategies : Scored(t, s) = 0
  <2>1. CASE Begin(t) \/ EndUnlearned(t)
    <3>1. work[t].open = {} /\ work[t].todo = {} /\ work[t].tally = NoTally
      BY <1>0, <2>1 DEF Begin, EndUnlearned, Shape
    <3> QED BY <3>1, NoWorkType DEF Scored
  <2>2. CASE EndRun(t)
    <3>1. pc[t] = "resolve" /\ work[t].open = {} /\ Tallied(t) = {}
      BY <2>2 DEF EndRun
    <3>2. work[t].todo = {}
      BY <1>0, <3>1 DEF Shape
    <3>3. ASSUME NEW s \in Strategies PROVE Scored(t, s) = 0
      <4>1. Scored(t, s) \in Nat
        BY <1>0, ScoredIs
      <4>2. ~(Scored(t, s) > 0)
        BY <3>1 DEF Tallied, Scored
      <4> QED BY <4>1, <4>2
    <3> QED BY <3>1, <3>2, <3>3
  <2> QED BY <2>1, <2>2
<1>4. \A u \in Ticks, s \in Strategies : Scored(u, s)' = Scored(u, s)
  BY <1>1, <1>2, <1>3 DEF Scored, Aside
<1>5. /\ DOMAIN decisions \subseteq DOMAIN decisions'
      /\ \A i \in DOMAIN decisions : decisions'[i] = decisions[i]
      /\ \A u \in Ticks : work'[u].todo = work[u].todo
      /\ \A u \in Ticks, i \in DOMAIN decisions : ~IsOpen(i) /\ i \notin work[u].open => i \notin work'[u].open
      /\ \A u \in Ticks, s \in Strategies : pc'[u] = "write" /\ work'[u].sid = s =>
            pc[u] = "write" /\ work[u].sid = s /\ work'[u].cur.n = work[u].cur.n
  BY <1>1, <1>2, <1>3 DEF Aside
<1> QED BY <1>1, <1>4, <1>5, ShareGrows

LEMMA ShareRecord ==
    ASSUME LInv, LInv', ShareInv, NEW t \in Ticks,
           ReadBase(t) \/ RecordDecision(t) \/ ReadOpen(t) \/ ProposeCooldown(t) \/ \E s \in Strategies : ReadRate(t, s)
    PROVE  ShareInv'
<1>0. LType /\ Shape(t)
  BY DEF LInv
<1>1. CASE ReadBase(t)
  <2>1. /\ Aside(t) /\ pc'[t] = "insert" /\ work'[t].tally = work[t].tally
        /\ work'[t].open = work[t].open /\ work'[t].todo = work[t].todo
        /\ decisions' = decisions /\ rates' = rates
    BY <1>0, <1>1, ReadBaseDoes DEF learning
  <2> QED BY <2>1, ShareAside DEF Aside
<1>2. CASE RecordDecision(t)
  <2>0. work[t].bought # <<>>
    BY <1>0, <1>2 DEF Shape, RecordDecision
  <2>1. /\ pc'[t] = "record" /\ Aside(t)
        /\ DOMAIN decisions = 1..Len(decisions) /\ Len(decisions) \in Nat
        /\ DOMAIN decisions' = 1..(Len(decisions) + 1)
        /\ \A i \in DOMAIN decisions : decisions'[i] = decisions[i]
        /\ work'[t].tally = work[t].tally
        /\ work'[t].open = work[t].open /\ work'[t].todo = work[t].todo
        /\ UNCHANGED <<portfolio, rates, proposals, overlap, blurred>>
    BY <1>0, <1>2, <2>0, RecordDecisionDoes
  <2>2. DOMAIN decisions \subseteq DOMAIN decisions'
    BY <2>1
  <2>3. \A u \in Ticks : work'[u].todo = work[u].todo /\ work'[u].open = work[u].open /\ work'[u].tally = work[u].tally
    BY <2>1 DEF Aside
  <2>4. \A u \in Ticks, s \in Strategies : Scored(u, s)' = Scored(u, s)
    BY <2>3 DEF Scored
  <2>5. \A u \in Ticks, s \in Strategies : pc'[u] = "write" /\ work'[u].sid = s =>
           pc[u] = "write" /\ work[u].sid = s /\ work'[u].cur.n = work[u].cur.n
    BY <2>1 DEF Aside
  <2> QED BY <2>1, <2>2, <2>3, <2>4, <2>5, ShareGrows
<1>3. CASE ReadOpen(t)
  <2>1. /\ pc'[t] = "resolve" /\ Aside(t) /\ work'[t].open = {i \in DOMAIN decisions : IsOpen(i)}
        /\ work'[t].tally = work[t].tally /\ work'[t].todo = work[t].todo
        /\ decisions' = decisions /\ rates' = rates
    BY <1>0, <1>3, ReadOpenDoes DEF learning
  <2>2. \A u \in Ticks, s \in Strategies : Scored(u, s)' = Scored(u, s)
    BY <2>1 DEF Scored, Aside
  <2>3. /\ \A u \in Ticks : work'[u].todo = work[u].todo
        /\ \A u \in Ticks, i \in DOMAIN decisions : ~IsOpen(i) /\ i \notin work[u].open => i \notin work'[u].open
        /\ \A u \in Ticks, s \in Strategies : pc'[u] = "write" /\ work'[u].sid = s =>
              pc[u] = "write" /\ work[u].sid = s /\ work'[u].cur.n = work[u].cur.n
    BY <2>1 DEF Aside
  <2> QED BY <2>1, <2>2, <2>3, ShareGrows
<1>4. CASE ProposeCooldown(t)
  <2>1. /\ Aside(t) /\ pc'[t] = "resolve" /\ work'[t].tally = work[t].tally
        /\ work'[t].open = work[t].open /\ work'[t].todo = work[t].todo
        /\ decisions' = decisions /\ rates' = rates
    BY <1>0, <1>4, ProposeDoes
  <2> QED BY <2>1, ShareAside DEF Aside
<1>5. CASE \E s \in Strategies : ReadRate(t, s)
  <2>1. PICK s \in Strategies : ReadRate(t, s)
    BY <1>5
  <2>2. /\ pc'[t] = "write" /\ Aside(t) /\ work'[t].sid = s /\ work'[t].cur = rates[s]
        /\ work'[t].open = work[t].open /\ work'[t].tally = work[t].tally /\ work'[t].todo = work[t].todo
        /\ decisions' = decisions /\ rates' = rates
    BY <1>0, <2>1, ReadRateDoes DEF learning
  <2>3. \A u \in Ticks, v \in Strategies : Scored(u, v)' = Scored(u, v)
    BY <2>2 DEF Scored, Aside
  <2>4. /\ \A u \in Ticks : work'[u].todo = work[u].todo
        /\ \A u \in Ticks, i \in DOMAIN decisions : ~IsOpen(i) /\ i \notin work[u].open => i \notin work'[u].open
        /\ \A u \in Ticks, v \in Strategies : pc'[u] = "write" /\ work'[u].sid = v =>
              \/ work'[u].cur.n = rates[v].n
              \/ pc[u] = "write" /\ work[u].sid = v /\ work'[u].cur.n = work[u].cur.n
    BY <2>2 DEF Aside
  <2> QED BY <2>2, <2>3, <2>4, ShareGrows
<1> QED BY <1>1, <1>2, <1>3, <1>4, <1>5

LEMMA ShareInvStep == LInv /\ LInv' /\ ShareInv /\ [LearningNext]_learningVars => ShareInv'
<1> SUFFICES ASSUME LInv, LInv', ShareInv, [LearningNext]_learningVars PROVE ShareInv'
  OBVIOUS
<1>0. LType
  BY DEF LInv
<1>1. CASE UNCHANGED learningVars
  BY <1>1, ShareAside DEF learningVars, learning
<1>2. ASSUME NEW t \in Ticks, Begin(t) \/ EndUnlearned(t) \/ LearnStep(t) \/ Abandon(t)
      PROVE  ShareInv'
  BY <1>2, ShareEnd, ShareRecord, ShareReadPosition, ShareRecordOutcome, ShareWriteRate, ShareAbandon DEF LearnStep
<1>3. ASSUME NEW t \in Ticks, NEW y \in Symbols, NEW pnl \in -1..1, TickExits(t, y, pnl)
      PROVE  ShareInv'
  <2>1. /\ pc'[t] = "trade" /\ Aside(t) /\ work'[t].open = work[t].open /\ work'[t].todo = work[t].todo
        /\ work'[t].tally = work[t].tally /\ decisions' = decisions /\ rates' = rates
    BY <1>0, <1>3, TickExitsDoes
  <2> QED BY <2>1, ShareAside DEF Aside
<1>4. ASSUME NEW t \in Ticks, NEW y \in Symbols, NEW ss \in Backers, TickBuys(t, y, ss)
      PROVE  ShareInv'
  <2>1. /\ pc'[t] = "trade" /\ Aside(t) /\ work'[t].open = work[t].open /\ work'[t].todo = work[t].todo
        /\ work'[t].tally = work[t].tally /\ decisions' = decisions /\ rates' = rates
    BY <1>0, <1>4, TickBuysDoes
  <2> QED BY <2>1, ShareAside DEF Aside
<1>5. ASSUME NEW y \in Symbols, ByHand(y)
      PROVE  ShareInv'
  <2>1. UNCHANGED <<decisions, rates, pc, work>>
    BY <1>0, <1>5, ByHandDoes DEF learning
  <2> QED BY <2>1, ShareAside
<1>6. ASSUME NEW t \in Ticks, NEW y \in Symbols,
             (\E pnl \in -1..1 : TickExits(t, y, pnl)) \/ \E ss \in Backers : TickBuys(t, y, ss)
      PROVE  ShareInv'
  BY <1>3, <1>4, <1>6
<1> QED BY <1>1, <1>2, <1>5, <1>6, NextIs

\* What a row says never exceeds what ticks saw close.
LEMMA ShareSays ==
    ASSUME LInv, ShareInv, NEW s \in Strategies
    PROVE  rates[s].n <= Cardinality(Ticks) * Cardinality(Resolved(s))
<1>0. LType
  BY DEF LInv
<1> DEFINE O == Owed(s)
           S == Spent(s)
           D == Due(s)
           R == Resolved(s)
           F == {<<t, 1>> : t \in D}
           f == [t \in D |-> <<t, 1>>]
<1>1. /\ IsFiniteSet(O) /\ IsFiniteSet(S) /\ IsFiniteSet(D)
      /\ Cardinality(O) \in Nat /\ Cardinality(S) \in Nat /\ Cardinality(D) \in Nat /\ rates[s].n \in Nat
  BY <1>0, CountsNow, SharesAre DEF Counts
<1>2. ASSUME NEW t \in D PROVE <<t, 1>> \in O
  <2>1. t \in Ticks /\ Scored(t, s) > 0
    BY DEF Due
  <2>2. Scored(t, s) \in Nat
    BY <1>0, <2>1, ScoredIs
  <2>3. 1 \in 1..Scored(t, s)
    BY <2>1, <2>2
  <2> QED BY <2>1, <2>3 DEF Owed
<1>3. F \in SUBSET O
  BY <1>2
<1>4. f \in Bijection(D, F)
  BY DEF Bijection, Injection, Surjection, IsInjective
<1>5. ExistsBijection(D, F)
  BY <1>4 DEF ExistsBijection
<1>6. rates[s].n + Cardinality(O) <= Cardinality(S) + Cardinality(D)
  BY DEF ShareInv
<1>7. IsFiniteSet(R)
  <2>1. DOMAIN decisions = 1..Len(decisions) /\ Len(decisions) \in Nat
    BY <1>0 DEF LType, PType
  <2> DEFINE m == Len(decisions)
  <2>2. m \in Int /\ R \in SUBSET (1..m)
    BY <2>1 DEF Resolved
  <2> HIDE DEF m, R
  <2>3. IsFiniteSet(1..m)
    BY <2>2, FS_Interval
  <2> QED BY <2>2, <2>3, FS_Subset
<1>8. S \in SUBSET (Ticks \X R)
  <2>1. \A i \in DOMAIN decisions : s \in decisions[i].strats /\ ~IsOpen(i) => i \in R
    <3> TAKE i \in DOMAIN decisions
    <3>1. decisions[i].outcome \in {"open", "closed"}
      BY <1>0, DecisionIs
    <3> QED BY <3>1 DEF Resolved, IsOpen
  <2> QED BY <2>1 DEF Spent
<1> HIDE DEF O, S, D, R, F, f
<1>9. Cardinality(D) <= Cardinality(O)
  <2>1. IsFiniteSet(F) /\ Cardinality(F) = Cardinality(D)
    BY <1>1, <1>5, FS_Bijection
  <2>2. Cardinality(F) <= Cardinality(O)
    BY <1>1, <1>3, FS_Subset
  <2> QED BY <2>1, <2>2
<1>10. Cardinality(S) <= Cardinality(Ticks) * Cardinality(R)
  <2>1. IsFiniteSet(Ticks \X R) /\ Cardinality(Ticks \X R) = Cardinality(Ticks) * Cardinality(R)
    BY <1>7, FS_Product, LearningConstants
  <2>2. Cardinality(S) <= Cardinality(Ticks \X R)
    BY <1>8, <2>1, FS_Subset
  <2> QED BY <2>1, <2>2
<1> DEFINE q == Cardinality(Ticks) * Cardinality(R)
<1>11. q \in Nat
  <2>1. Cardinality(Ticks) \in Nat /\ Cardinality(R) \in Nat
    BY <1>7, FS_CardinalityType, LearningConstants
  <2> QED BY <2>1
<1>12. Cardinality(S) <= q
  BY <1>10
<1>13. rates[s].n <= q
  <2> HIDE DEF q
  <2> QED BY <1>1, <1>6, <1>9, <1>11, <1>12
<1> QED BY <1>13 DEF q, R

----------------------------------------------------------------------------
(* While nobody overlaps. *)

LEMMA SoloIdle ==
    ASSUME NEW u \in Ticks, Shape(u), pc[u] = "idle"
    PROVE  SoloAt(u)
<1>1. work[u] = NoWork
  BY DEF Shape
<1>2. work[u].bought = <<>> /\ work[u].open = {} /\ work[u].todo = {}
  BY <1>1, NoWorkType
<1>3. DOMAIN work[u].bought = {}
  BY <1>2
<1> QED BY <1>2, <1>3 DEF SoloAt

LEMMA SoloIdleNow == LInv => \A u \in Ticks : pc[u] = "idle" => SoloAt(u)
BY SoloIdle DEF LInv

LEMMA SoloIdleNext == LInv' => (\A u \in Ticks : pc[u] = "idle" => SoloAt(u))'
BY SoloIdleNow, PTL

\* The tick at work is the only one: a step of it keeps the invariant if it keeps its own part.
LEMMA SoloKept ==
    ASSUME LInv', SoloInv, NEW t \in Ticks, pc[t] # "idle", Aside(t), overlap' = overlap,
           ~overlap => FlatIsOver' /\ (pc'[t] # "idle" => SoloAt(t)')
    PROVE  SoloInv'
<1> SUFFICES ASSUME ~overlap PROVE OneAtWork' /\ FlatIsOver' /\ \A u \in Ticks : SoloAt(u)'
  BY DEF SoloInv
<1>1. \A u \in Ticks : u # t => pc'[u] = "idle"
  BY DEF SoloInv, OneAtWork, Aside
<1>2. OneAtWork'
  BY <1>1 DEF OneAtWork
<1>3. ASSUME NEW u \in Ticks PROVE SoloAt(u)'
  <2>1. CASE pc'[u] = "idle"
    BY <2>1, SoloIdleNext
  <2>2. CASE pc'[u] # "idle"
    BY <1>1, <2>2
  <2> QED BY <2>1, <2>2
<1> QED BY <1>2, <1>3

\* What holds of the tick at work while it holds no decision.
LEMMA SoloLight ==
    ASSUME NEW t \in Ticks, work'[t].open = {}, work'[t].todo = {}, pc'[t] # "write",
           \A k \in DOMAIN work'[t].bought :
              held'[work'[t].bought[k].sym] /\ work'[t].bought[k].strats \subseteq trip'[work'[t].bought[k].sym]
    PROVE  SoloAt(t)'
BY DEF SoloAt

LEMMA FlatSame == UNCHANGED <<held, trip>> /\ FlatIsOver => FlatIsOver'
BY DEF FlatIsOver

LEMMA FlatSold ==
    ASSUME LType, FlatIsOver, NEW y \in Symbols, NEW pnl \in -1..1, Sold(y, pnl)
    PROVE  FlatIsOver'
<1>1. CASE PartSold(y, pnl)
  BY <1>1, FlatSame, PartSoldDoes
<1>2. CASE GoneFlat(y, pnl)
  <2>1. held' = [held EXCEPT ![y] = FALSE] /\ trip' = [trip EXCEPT ![y] = {}]
    BY <1>2, GoneFlatDoes
  <2> QED BY <2>1 DEF FlatIsOver, LType, PType
<1> QED BY <1>1, <1>2 DEF Sold

LEMMA SoloTrade ==
    ASSUME LInv, LInv', SoloInv, NEW t \in Ticks, NEW y \in Symbols,
           \/ \E pnl \in -1..1 : TickExits(t, y, pnl)
           \/ \E ss \in Backers : TickBuys(t, y, ss)
    PROVE  SoloInv'
<1>0. LType /\ Shape(t) /\ (~overlap => FlatIsOver /\ SoloAt(t))
  BY DEF LInv, SoloInv
<1>1. CASE \E pnl \in -1..1 : TickExits(t, y, pnl)
  <2>1. PICK pnl \in -1..1 : TickExits(t, y, pnl)
    BY <1>1
  <2>2. /\ Sold(y, pnl) /\ pc[t] = "trade" /\ pc'[t] = "trade" /\ Aside(t)
        /\ work'[t].bought = <<>> /\ work'[t].open = work[t].open /\ work'[t].todo = work[t].todo
        /\ overlap' = overlap
    BY <1>0, <2>1, TickExitsDoes
  <2>4. ~overlap => FlatIsOver'
    BY <1>0, <2>2, FlatSold
  <2>5. work'[t].open = {} /\ work'[t].todo = {} /\ DOMAIN work'[t].bought = {}
    BY <1>0, <2>2 DEF Shape
  <2>6. SoloAt(t)'
    BY <2>2, <2>5, SoloLight
  <2> QED BY <2>2, <2>4, <2>6, SoloKept
<1>2. CASE \E ss \in Backers : TickBuys(t, y, ss)
  <2>1. PICK ss \in Backers : TickBuys(t, y, ss)
    BY <1>2
  <2> DEFINE b == [sym |-> y, strats |-> ss]
             q == work[t].bought
  <2>2. /\ pc[t] = "trade" /\ pc'[t] = "trade" /\ Aside(t)
        /\ held' = [held EXCEPT ![y] = TRUE] /\ trip' = [trip EXCEPT ![y] = @ \cup ss]
        /\ work'[t].bought = Append(q, b)
        /\ work'[t].open = work[t].open /\ work'[t].todo = work[t].todo
        /\ overlap' = overlap
    BY <1>0, <2>1, TickBuysDoes
  <2>3. /\ \A z \in Symbols : held[z] => held'[z]
        /\ \A z \in Symbols : trip[z] \subseteq trip'[z]
        /\ held'[y] /\ ss \subseteq trip'[y]
        /\ \A z \in Symbols : z # y => held'[z] = held[z] /\ trip'[z] = trip[z]
    BY <1>0, <2>2 DEF LType, PType
  <2>4. ~overlap => FlatIsOver'
    BY <1>0, <2>3 DEF FlatIsOver
  <2>5. work'[t].open = {} /\ work'[t].todo = {}
    BY <1>0, <2>2 DEF Shape
  <2>6. q \in Seq(Bought)
    BY <1>0 DEF LType, PType, Works
  <2>7. ASSUME ~overlap, NEW k \in DOMAIN work'[t].bought
        PROVE  held'[work'[t].bought[k].sym] /\ work'[t].bought[k].strats \subseteq trip'[work'[t].bought[k].sym]
    <3> DEFINE a == Append(q, b)
    <3>1. DOMAIN a = 1..(Len(q) + 1) /\ a[Len(q) + 1] = b /\ \A j \in 1..Len(q) : a[j] = q[j]
      BY <2>6
    <3>2. Len(q) \in Nat /\ DOMAIN q = 1..Len(q)
      BY <2>6
    <3>3. k \in DOMAIN a /\ work'[t].bought[k] = a[k]
      BY <2>2
    <3>4. CASE k = Len(q) + 1
      BY <2>3, <3>1, <3>3, <3>4
    <3>5. CASE k # Len(q) + 1
      <4>1. k \in DOMAIN q /\ work'[t].bought[k] = q[k]
        BY <3>1, <3>2, <3>3, <3>5
      <4>2. held[q[k].sym] /\ q[k].strats \subseteq trip[q[k].sym] /\ q[k].sym \in Symbols
        <5>1. q[k] \in Bought
          BY <2>6, <4>1
        <5>2. held[q[k].sym] /\ q[k].strats \subseteq trip[q[k].sym]
          BY <1>0, <2>7, <4>1 DEF SoloAt
        <5> QED BY <5>1, <5>2 DEF Bought
      <4> QED BY <2>3, <4>1, <4>2
    <3> QED BY <3>4, <3>5
  <2>8. ~overlap => SoloAt(t)'
    BY <2>2, <2>5, <2>7, SoloLight
  <2> QED BY <2>2, <2>4, <2>8, SoloKept
<1> QED BY <1>1, <1>2

LEMMA SoloBegin ==
    ASSUME LInv, LInv', SoloInv, NEW t \in Ticks, Begin(t) \/ EndUnlearned(t) \/ EndRun(t) \/ Abandon(t)
    PROVE  SoloInv'
<1>0. LType /\ Shape(t)
  BY DEF LInv
<1>1. /\ pc'[t] \in {"idle", "trade"} /\ work'[t] = NoWork /\ Aside(t)
      /\ UNCHANGED <<held, trip>>
  BY <1>0, BeginDoes DEF portfolio
<1>2. work'[t].bought = <<>> /\ work'[t].open = {} /\ work'[t].todo = {}
  BY <1>1, NoWorkType
<1>3. DOMAIN work'[t].bought = {}
  BY <1>2
<1>4. SoloAt(t)'
  BY <1>1, <1>2, <1>3, SoloLight
<1>5. CASE EndUnlearned(t) \/ EndRun(t) \/ Abandon(t)
  <2>1. pc[t] # "idle" /\ overlap' = overlap
    BY <1>5 DEF EndUnlearned, EndRun, Abandon
  <2>2. ~overlap => FlatIsOver'
    BY <1>1, FlatSame DEF SoloInv
  <2> QED BY <1>1, <1>4, <2>1, <2>2, SoloKept
<1>6. CASE Begin(t)
  <2>1. overlap' = (overlap \/ Busy)
    BY <1>6 DEF Begin
  <2> SUFFICES ASSUME ~overlap' PROVE OneAtWork' /\ FlatIsOver' /\ \A u \in Ticks : SoloAt(u)'
    BY DEF SoloInv
  <2>2. ~overlap /\ \A u \in Ticks : pc[u] = "idle"
    BY <2>1 DEF Busy
  <2>3. \A u \in Ticks : u # t => pc'[u] = "idle"
    BY <1>1, <2>2 DEF Aside
  <2>4. OneAtWork'
    BY <2>3 DEF OneAtWork
  <2>5. FlatIsOver'
    BY <1>1, <2>2, FlatSame DEF SoloInv
  <2>6. \A u \in Ticks : SoloAt(u)'
    BY <1>4, <2>3, SoloIdleNext
  <2> QED BY <2>4, <2>5, <2>6
<1> QED BY <1>5, <1>6

LEMMA SoloManual ==
    ASSUME LInv, LInv', SoloInv, NEW y \in Symbols, ByHand(y)
    PROVE  SoloInv'
<1>0. LType
  BY DEF LInv
<1>1. /\ overlap' = (overlap \/ Busy) /\ pc' = pc
      /\ \/ held' = [held EXCEPT ![y] = TRUE] /\ trip' = trip
         \/ \E pnl \in -1..1 : Sold(y, pnl)
  BY <1>0, ByHandDoes
<1> SUFFICES ASSUME ~overlap' PROVE OneAtWork' /\ FlatIsOver' /\ \A u \in Ticks : SoloAt(u)'
  BY DEF SoloInv
<1>2. ~overlap /\ \A u \in Ticks : pc'[u] = "idle"
  BY <1>1 DEF Busy
<1>3. FlatIsOver
  BY <1>2 DEF SoloInv
<1>4. FlatIsOver'
  <2>1. CASE held' = [held EXCEPT ![y] = TRUE] /\ trip' = trip
    BY <1>0, <1>3, <2>1 DEF FlatIsOver, LType, PType
  <2>2. CASE \E pnl \in -1..1 : Sold(y, pnl)
    BY <1>0, <1>3, <2>2, FlatSold
  <2> QED BY <1>1, <2>1, <2>2
<1>5. OneAtWork' /\ \A u \in Ticks : SoloAt(u)'
  BY <1>2, SoloIdleNext DEF OneAtWork
<1> QED BY <1>4, <1>5

LEMMA SoloRecord ==
    ASSUME LInv, LInv', SoloInv, NEW t \in Ticks, ReadBase(t) \/ RecordDecision(t) \/ ReadOpen(t)
    PROVE  SoloInv'
<1>0. LType /\ Shape(t) /\ (~overlap => FlatIsOver /\ SoloAt(t))
  BY DEF LInv, SoloInv
<1>1. CASE ReadBase(t)
  <2>1. /\ Recording(t) /\ pc'[t] = "insert" /\ Aside(t)
        /\ work'[t].bought = work[t].bought
        /\ work'[t].open = work[t].open /\ work'[t].todo = work[t].todo
        /\ UNCHANGED <<held, trip, overlap>>
    BY <1>0, <1>1, ReadBaseDoes DEF portfolio
  <2>2. pc[t] # "idle" /\ work'[t].open = {} /\ work'[t].todo = {}
    BY <1>0, <2>1 DEF Shape, Recording
  <2>3. ~overlap => SoloAt(t)'
    <3>1. ~overlap => \A k \in DOMAIN work'[t].bought :
             held'[work'[t].bought[k].sym] /\ work'[t].bought[k].strats \subseteq trip'[work'[t].bought[k].sym]
      BY <1>0, <2>1 DEF SoloAt
    <3> QED BY <2>1, <2>2, <3>1, SoloLight
  <2>4. ~overlap => FlatIsOver'
    BY <1>0, <2>1, FlatSame
  <2> QED BY <2>1, <2>2, <2>3, <2>4, SoloKept
<1>2. CASE RecordDecision(t)
  <2> DEFINE q == work[t].bought
  <2>0. q # <<>> /\ pc[t] = "insert"
    BY <1>0, <1>2 DEF Shape, RecordDecision
  <2>1. /\ pc'[t] = "record" /\ Aside(t) /\ work'[t].bought = Tail(q)
        /\ work'[t].open = work[t].open /\ work'[t].todo = work[t].todo
        /\ UNCHANGED <<held, trip, overlap>>
    BY <1>0, <1>2, <2>0, RecordDecisionDoes DEF portfolio
  <2>2. work'[t].open = {} /\ work'[t].todo = {}
    BY <1>0, <2>0, <2>1 DEF Shape
  <2>3. q \in Seq(Bought)
    BY <1>0 DEF LType, PType, Works
  <2>4. ASSUME ~overlap, NEW k \in DOMAIN work'[t].bought
        PROVE  held'[work'[t].bought[k].sym] /\ work'[t].bought[k].strats \subseteq trip'[work'[t].bought[k].sym]
    <3>1. k + 1 \in DOMAIN q /\ work'[t].bought[k] = q[k + 1]
      <4> DEFINE r == Tail(q)
      <4>1. k \in DOMAIN r /\ work'[t].bought[k] = r[k]
        BY <2>1
      <4>2. DOMAIN r = 1..(Len(q) - 1) /\ DOMAIN q = 1..Len(q) /\ Len(q) \in Nat
        BY <2>0, <2>3
      <4>3. k + 1 \in DOMAIN q
        BY <4>1, <4>2
      <4>4. r[k] = q[k + 1]
        BY <2>0, <2>3, <4>1
      <4> QED BY <4>1, <4>3, <4>4
    <3>2. held[q[k + 1].sym] /\ q[k + 1].strats \subseteq trip[q[k + 1].sym]
      BY <1>0, <2>4, <3>1 DEF SoloAt
    <3> QED BY <2>1, <3>1, <3>2
  <2>5. ~overlap => SoloAt(t)'
    BY <2>1, <2>2, <2>4, SoloLight
  <2>6. ~overlap => FlatIsOver'
    BY <1>0, <2>1, FlatSame
  <2> QED BY <2>0, <2>1, <2>5, <2>6, SoloKept
<1>3. CASE ReadOpen(t)
  <2>1. /\ Recording(t) /\ pc'[t] = "resolve" /\ Aside(t)
        /\ work'[t].open = {i \in DOMAIN decisions : IsOpen(i)}
        /\ work'[t].bought = <<>> /\ work'[t].todo = work[t].todo
        /\ UNCHANGED <<held, trip, overlap>> /\ decisions' = decisions
    BY <1>0, <1>3, ReadOpenDoes DEF portfolio, learning
  <2>2. pc[t] # "idle" /\ work'[t].todo = {} /\ DOMAIN work'[t].bought = {}
    BY <1>0, <2>1 DEF Shape, Recording
  <2>3. SoloAt(t)'
    BY <2>1, <2>2 DEF SoloAt, IsOpen
  <2>4. ~overlap => FlatIsOver'
    BY <1>0, <2>1, FlatSame
  <2> QED BY <2>1, <2>2, <2>3, <2>4, SoloKept
<1> QED BY <1>1, <1>2, <1>3

LEMMA SoloResolve ==
    ASSUME LInv, LInv', SoloInv, NEW t \in Ticks, ReadPosition(t) \/ RecordOutcome(t)
    PROVE  SoloInv'
<1>0. LType /\ Shape(t) /\ (~overlap => FlatIsOver /\ SoloAt(t))
  BY DEF LInv, SoloInv
<1>1. CASE ReadPosition(t)
  <2>a. PICK ids : ids = Next1(t)
    OBVIOUS
  <2>b. PICK y : y = decisions[Min(work[t].open)].sym
    OBVIOUS
  <2> DEFINE pnl == realized[y] - TripBase(ids)
  <2>1. /\ pc[t] = "resolve" /\ ids # {} /\ ids \subseteq work[t].open
        /\ \A i \in work[t].open : i \in ids <=> decisions[i].sym = y
        /\ work[t].todo = {} /\ work'[t].open = work[t].open \ ids
        /\ work'[t].bought = work[t].bought /\ Aside(t)
        /\ held[y] => pc'[t] = "resolve" /\ work'[t].todo = {}
        /\ ~held[y] => pc'[t] = "outcome" /\ work'[t].todo = ids
        /\ UNCHANGED <<portfolio, learning, overlap, blurred>>
    BY <1>0, <1>1, <2>a, <2>b, ReadPositionDoes
  <2>2. UNCHANGED <<held, trip, overlap>> /\ decisions' = decisions
    BY <2>1 DEF portfolio, learning
  <2>3. work'[t].bought = <<>> /\ DOMAIN work'[t].bought = {} /\ pc'[t] # "write"
    BY <1>0, <2>1 DEF Shape
  <2>4. ASSUME ~overlap PROVE SoloAt(t)'
    <3>1. /\ \A i \in work[t].open : IsOpen(i)
          /\ \A i, j \in DOMAIN decisions :
                IsOpen(j) /\ i \in work[t].open /\ decisions[i].sym = decisions[j].sym => j \in work[t].open
      BY <1>0, <2>4 DEF SoloAt
    <3>2. /\ \A i \in work'[t].open : IsOpen(i)
          /\ \A i \in work'[t].todo : ~held[decisions[i].sym]
          /\ \A i, j \in DOMAIN decisions :
                IsOpen(j) /\ i \in work'[t].open /\ decisions[i].sym = decisions[j].sym => j \in work'[t].open
          /\ \A i, j \in DOMAIN decisions :
                IsOpen(j) /\ i \in work'[t].todo /\ decisions[i].sym = decisions[j].sym => j \in work'[t].todo
      BY <2>1, <3>1
    <3> QED BY <2>2, <2>3, <3>2 DEF SoloAt, IsOpen
  <2>5. ~overlap => FlatIsOver'
    BY <1>0, <2>2, FlatSame
  <2> QED BY <2>1, <2>2, <2>4, <2>5, SoloKept
<1>2. CASE RecordOutcome(t)
  <2>a. PICK i : i = Min(work[t].todo)
    OBVIOUS
  <2>1. /\ pc[t] = "outcome" /\ i \in work[t].todo /\ i \in DOMAIN decisions /\ Aside(t)
        /\ DOMAIN decisions' = DOMAIN decisions
        /\ decisions'[i].sym = decisions[i].sym /\ decisions'[i].outcome = "closed"
        /\ \A j \in DOMAIN decisions : j # i => decisions'[j] = decisions[j]
        /\ work'[t].todo = work[t].todo \ {i}
        /\ pc'[t] = (IF work[t].todo \ {i} = {} THEN "resolve" ELSE "outcome")
        /\ work'[t].open = work[t].open /\ work'[t].bought = work[t].bought
        /\ UNCHANGED <<held, trip, overlap>>
    BY <1>0, <1>2, <2>a, RecordOutcomeDoes DEF portfolio
  <2>2. pc'[t] # "write" /\ pc[t] # "idle"
    BY <2>1
  <2>3. /\ work[t].bought = <<>> /\ DOMAIN work[t].bought = {} /\ work[t].open \cap work[t].todo = {}
        /\ work[t].open \subseteq DOMAIN decisions /\ work[t].todo \subseteq DOMAIN decisions
    BY <1>0, <2>1 DEF Shape
  <2>4. ASSUME ~overlap PROVE SoloAt(t)'
    <3>1. /\ \A j \in work[t].open : IsOpen(j)
          /\ \A j \in work[t].todo : ~held[decisions[j].sym]
          /\ \A j, k \in DOMAIN decisions :
                IsOpen(k) /\ j \in work[t].open /\ decisions[j].sym = decisions[k].sym => k \in work[t].open
          /\ \A j, k \in DOMAIN decisions :
                IsOpen(k) /\ j \in work[t].todo /\ IsOpen(j) /\ decisions[j].sym = decisions[k].sym => k \in work[t].todo
      BY <1>0, <2>4 DEF SoloAt
    <3>2. \A j \in DOMAIN decisions : decisions'[j].sym = decisions[j].sym /\ (IsOpen(j)' <=> IsOpen(j) /\ j # i)
      BY <2>1 DEF IsOpen
    <3>3. \A j \in work'[t].open : IsOpen(j)'
      BY <2>1, <2>3, <3>1, <3>2
    <3>4. \A j \in work'[t].todo : ~held'[decisions'[j].sym]
      BY <2>1, <2>3, <3>1, <3>2
    <3>5. /\ \A j, k \in DOMAIN decisions' :
                IsOpen(k)' /\ j \in work'[t].open /\ decisions'[j].sym = decisions'[k].sym => k \in work'[t].open
          /\ \A j, k \in DOMAIN decisions' :
                IsOpen(k)' /\ j \in work'[t].todo /\ IsOpen(j)' /\ decisions'[j].sym = decisions'[k].sym => k \in work'[t].todo
      BY <2>1, <2>3, <3>1, <3>2
    <3> QED BY <2>1, <2>2, <2>3, <3>3, <3>4, <3>5 DEF SoloAt
  <2>5. ~overlap => FlatIsOver'
    BY <1>0, <2>1, FlatSame
  <2> QED BY <2>1, <2>2, <2>4, <2>5, SoloKept
<1> QED BY <1>1, <1>2

LEMMA SoloRate ==
    ASSUME LInv, LInv', SoloInv, NEW t \in Ticks, (\E s \in Strategies : ReadRate(t, s)) \/ WriteRate(t) \/ ProposeCooldown(t)
    PROVE  SoloInv'
<1>0. LType /\ Shape(t) /\ RowInv /\ (~overlap => FlatIsOver)
  BY DEF LInv, SoloInv
<1>1. /\ pc[t] # "idle" /\ Aside(t) /\ work'[t].open = {} /\ work'[t].todo = {}
      /\ DOMAIN work'[t].bought = {} /\ UNCHANGED <<held, trip, overlap>>
      /\ pc'[t] = "write" => work'[t].cur = rates'[work'[t].sid]
  <2>1. CASE \E s \in Strategies : ReadRate(t, s)
    <3>1. PICK s \in Strategies : ReadRate(t, s)
      BY <2>1
    <3>2. /\ pc[t] = "resolve" /\ work[t].open = {}
          /\ pc'[t] = "write" /\ Aside(t) /\ work'[t].sid = s /\ work'[t].cur = rates[s]
          /\ work'[t].open = work[t].open /\ work'[t].bought = work[t].bought /\ work'[t].todo = work[t].todo
          /\ UNCHANGED <<held, trip, overlap>> /\ rates' = rates
      BY <1>0, <3>1, ReadRateDoes DEF portfolio, learning
    <3>3. work[t].bought = <<>> /\ work[t].todo = {}
      BY <1>0, <3>2 DEF Shape
    <3> QED BY <3>2, <3>3
  <2>2. CASE WriteRate(t)
    <3>0. pc[t] = "write" /\ Honest(work[t].cur)
      BY <1>0, <2>2 DEF WriteRate, RowInv
    <3>1. /\ pc'[t] \in {"propose", "resolve"} /\ Aside(t)
          /\ work'[t].open = work[t].open /\ work'[t].bought = work[t].bought /\ work'[t].todo = work[t].todo
          /\ UNCHANGED <<held, trip, overlap>>
      BY <1>0, <2>2, <3>0, WriteRateDoes DEF portfolio
    <3>2. work[t].bought = <<>> /\ work[t].todo = {} /\ work[t].open = {}
      BY <1>0, <3>0 DEF Shape
    <3> QED BY <3>0, <3>1, <3>2
  <2>3. CASE ProposeCooldown(t)
    <3>1. /\ pc[t] = "propose" /\ pc'[t] = "resolve" /\ Aside(t)
          /\ work'[t].open = work[t].open /\ work'[t].bought = work[t].bought /\ work'[t].todo = work[t].todo
          /\ UNCHANGED <<held, trip, overlap>>
      BY <1>0, <2>3, ProposeDoes DEF portfolio
    <3>2. work[t].bought = <<>> /\ work[t].todo = {} /\ work[t].open = {}
      BY <1>0, <3>1 DEF Shape
    <3> QED BY <3>1, <3>2
  <2> QED BY <2>1, <2>2, <2>3
<1>2. SoloAt(t)'
  BY <1>1 DEF SoloAt
<1>3. ~overlap => FlatIsOver'
  BY <1>0, <1>1, FlatSame
<1> QED BY <1>1, <1>2, <1>3, SoloKept

LEMMA SoloInvStep == LInv /\ LInv' /\ SoloInv /\ [LearningNext]_learningVars => SoloInv'
<1> SUFFICES ASSUME LInv, LInv', SoloInv, [LearningNext]_learningVars PROVE SoloInv'
  OBVIOUS
<1>1. CASE UNCHANGED learningVars
  <2>1. UNCHANGED <<held, trip, decisions, rates, pc, work, overlap>>
    BY <1>1 DEF learningVars, portfolio, learning
  <2> QED BY <2>1 DEF SoloInv, OneAtWork, FlatIsOver, SoloAt, IsOpen
<1>2. ASSUME NEW t \in Ticks, Begin(t) \/ EndUnlearned(t) \/ LearnStep(t) \/ Abandon(t)
      PROVE  SoloInv'
  BY <1>2, SoloBegin, SoloRecord, SoloResolve, SoloRate DEF LearnStep
<1>3. ASSUME NEW t \in Ticks, NEW y \in Symbols,
             (\E pnl \in -1..1 : TickExits(t, y, pnl)) \/ \E ss \in Backers : TickBuys(t, y, ss)
      PROVE  SoloInv'
  BY <1>3, SoloTrade
<1>5. ASSUME NEW y \in Symbols, ByHand(y)
      PROVE  SoloInv'
  BY <1>5, SoloManual
<1> QED BY <1>1, <1>2, <1>3, <1>5, NextIs

LEMMA SoloInvInit == LearningInit => SoloInv
<1> SUFFICES ASSUME LearningInit PROVE SoloInv
  OBVIOUS
<1>1. (\A t \in Ticks : pc[t] = "idle") /\ \A y \in Symbols : trip[y] = {}
  BY DEF LearningInit
<1>2. \A t \in Ticks : SoloAt(t)
  BY <1>1, LInvInit, SoloIdleNow
<1> QED BY <1>1, <1>2 DEF SoloInv, OneAtWork, FlatIsOver

----------------------------------------------------------------------------
(* What is counted came of closes. *)

Names == {decisions[i].sym : i \in DOMAIN decisions}

LEMMA NamesFinite == LType => IsFiniteSet(Names)
<1> SUFFICES ASSUME LType PROVE IsFiniteSet(Names)
  OBVIOUS
<1> DEFINE D == DOMAIN decisions
           T == {decisions[i].sym : i \in D}
           f == [i \in D |-> decisions[i].sym]
<1>1. IsFiniteSet(D)
  <2>1. D = 1..Len(decisions) /\ Len(decisions) \in Nat
    BY DEF LType, PType
  <2> DEFINE m == Len(decisions)
  <2>2. m \in Int /\ D = 1..m
    BY <2>1
  <2> HIDE DEF m, D
  <2> QED BY <2>2, FS_Interval
<1>2. f \in Surjection(D, T)
  BY DEF Surjection
<1>3. IsFiniteSet(T)
  <2> HIDE DEF D, T, f
  <2> QED BY <1>1, <1>2, FS_Surjection
<1> QED BY <1>3 DEF Names

\* What is pending is a number.
Sizes ==
    \A s \in Strategies :
        /\ IsFiniteSet(Pending(s)) /\ Cardinality(Pending(s)) \in Nat
        /\ IsFiniteSet(WinsPending(s)) /\ Cardinality(WinsPending(s)) \in Nat
        /\ IsFiniteSet(LossesPending(s)) /\ Cardinality(LossesPending(s)) \in Nat

LEMMA SizesNow == LType => Sizes
<1> SUFFICES ASSUME LType, NEW s \in Strategies
             PROVE  /\ IsFiniteSet(Pending(s)) /\ Cardinality(Pending(s)) \in Nat
                    /\ IsFiniteSet(WinsPending(s)) /\ Cardinality(WinsPending(s)) \in Nat
                    /\ IsFiniteSet(LossesPending(s)) /\ Cardinality(LossesPending(s)) \in Nat
  BY DEF Sizes
<1>1. /\ Pending(s) \in SUBSET Names /\ WinsPending(s) \in SUBSET Names
      /\ LossesPending(s) \in SUBSET Names
  BY DEF Pending, WinsPending, LossesPending, Waits, Names
<1>2. IsFiniteSet(Pending(s)) /\ IsFiniteSet(WinsPending(s)) /\ IsFiniteSet(LossesPending(s))
  BY <1>1, NamesFinite, FS_Subset
<1> QED BY <1>2, FS_CardinalityType

LEMMA SizesNext == LType' => Sizes'
BY SizesNow, PTL

\* What is tallied, and what has happened, are numbers.
Tolds ==
    \A s \in Strategies :
        /\ Outcomes(s) \in Nat /\ rates[s].n \in Nat
        /\ ended[s].wins \in Nat /\ ended[s].losses \in Nat /\ ended[s].evens \in Nat
        /\ \A t \in Ticks : Told(t, s) \in Nat /\ (pc[t] = "idle" => Told(t, s) = 0)

LEMMA ToldsNow == LInv => Tolds
<1> SUFFICES ASSUME LInv, NEW s \in Strategies
             PROVE  /\ Outcomes(s) \in Nat /\ rates[s].n \in Nat
                    /\ ended[s].wins \in Nat /\ ended[s].losses \in Nat /\ ended[s].evens \in Nat
                    /\ \A t \in Ticks : Told(t, s) \in Nat /\ (pc[t] = "idle" => Told(t, s) = 0)
  BY DEF Tolds
<1>0. LType /\ \A t \in Ticks : Shape(t)
  BY DEF LInv
<1>1. ended[s] \in Tallies /\ rates[s] \in Rows
  BY <1>0 DEF LType, PType
<1>2. ASSUME NEW t \in Ticks PROVE Told(t, s) \in Nat /\ (pc[t] = "idle" => Told(t, s) = 0)
  <2>1. Told(t, s) \in Nat
    BY <1>0, ScoredIs DEF Told
  <2>2. ASSUME pc[t] = "idle" PROVE Told(t, s) = 0
    <3>1. work[t].tally = NoTally
      BY <1>0, <2>2 DEF Shape
    <3> QED BY <3>1, NoWorkType DEF Told, Scored
  <2> QED BY <2>1, <2>2
<1> QED BY <1>1, <1>2 DEF Outcomes, Tallies, Rows

LEMMA ToldsNext == LInv' => Tolds'
BY ToldsNow, PTL

\* The tick at work keeps the count if it adds no more than happened.
LEMMA CountKept ==
    ASSUME LInv, LInv', SoloInv, CountInv, NEW t \in Ticks, pc[t] # "idle", Aside(t), overlap' = overlap,
           ~overlap => \A s \in Strategies :
              rates'[s].n + Told(t, s)' + Cardinality(Pending(s))' + Outcomes(s)
                 <= rates[s].n + Told(t, s) + Cardinality(Pending(s)) + Outcomes(s)'
    PROVE  CountInv'
<1> SUFFICES ASSUME ~overlap, NEW s \in Strategies
             PROVE  /\ rates'[s].n + Cardinality(Pending(s))' <= Outcomes(s)'
                    /\ \A u \in Ticks : rates'[s].n + Told(u, s)' + Cardinality(Pending(s))' <= Outcomes(s)'
  BY DEF CountInv
<1>1. Sizes /\ Sizes' /\ Tolds /\ Tolds'
  BY SizesNow, SizesNext, ToldsNow, ToldsNext DEF LInv
<1>2. \A u \in Ticks : u # t => pc'[u] = "idle"
  BY DEF SoloInv, OneAtWork, Aside
<1>3. \A u \in Ticks : u # t => Told(u, s)' = 0
  BY <1>1, <1>2 DEF Tolds
<1> DEFINE n == rates[s].n
           w == Told(t, s)
           p == Cardinality(Pending(s))
           e == Outcomes(s)
           n1 == rates'[s].n
           w1 == Told(t, s)'
           p1 == Cardinality(Pending(s))'
           e1 == Outcomes(s)'
<1>4. /\ n \in Nat /\ w \in Nat /\ p \in Nat /\ e \in Nat
      /\ n1 \in Nat /\ w1 \in Nat /\ p1 \in Nat /\ e1 \in Nat
  BY <1>1 DEF Sizes, Tolds
<1>5. n + w + p <= e /\ n1 + w1 + p1 + e <= n + w + p + e1
  BY DEF CountInv
<1>6. \A u \in Ticks : Told(u, s)' = w1 \/ Told(u, s)' = 0
  BY <1>3
<1> HIDE DEF n, w, p, e, n1, w1, p1, e1
<1>7. n1 + w1 + p1 <= e1 /\ n1 + p1 <= e1 /\ n1 + 0 + p1 <= e1
  BY <1>4, <1>5
<1> QED BY <1>6, <1>7 DEF n1, p1, e1

\* Nor does a step that takes nothing on.
LEMMA CountShrinks ==
    ASSUME LInv, LInv', SoloInv, CountInv, NEW t \in Ticks, pc[t] # "idle", Aside(t), overlap' = overlap,
           rates' = rates, ended' = ended,
           ~overlap => \A s \in Strategies : Told(t, s)' <= Told(t, s) /\ Pending(s)' \subseteq Pending(s)
    PROVE  CountInv'
<1>1. ASSUME ~overlap, NEW s \in Strategies
      PROVE  rates'[s].n + Told(t, s)' + Cardinality(Pending(s))' + Outcomes(s)
                <= rates[s].n + Told(t, s) + Cardinality(Pending(s)) + Outcomes(s)'
  <2>1. Sizes /\ Sizes' /\ Tolds /\ Tolds'
    BY SizesNow, SizesNext, ToldsNow, ToldsNext DEF LInv
  <2> DEFINE P == Pending(s)
             P1 == Pending(s)'
             n == rates[s].n
             w == Told(t, s)
             w1 == Told(t, s)'
             e == Outcomes(s)
             p == Cardinality(P)
             p1 == Cardinality(P1)
  <2>2. IsFiniteSet(P) /\ P1 \in SUBSET P /\ w1 <= w
    BY <1>1, <2>1 DEF Sizes
  <2>3. p1 <= p
    <3> HIDE DEF P, P1
    <3> QED BY <2>2, FS_Subset
  <2>4. n \in Nat /\ w \in Nat /\ p \in Nat /\ e \in Nat /\ w1 \in Nat /\ p1 \in Nat
    BY <2>1 DEF Sizes, Tolds
  <2>5. Outcomes(s)' = e /\ rates'[s].n = n
    BY DEF Outcomes
  <2> HIDE DEF P, P1, n, w, p, e, w1, p1
  <2>6. n + w1 + p1 + e <= n + w + p + e
    BY <2>2, <2>3, <2>4
  <2> QED BY <2>5, <2>6 DEF n, w, p, e, w1, p1, P, P1
<1> QED BY <1>1, CountKept

LEMMA PendingSame ==
    ASSUME UNCHANGED <<trip, decisions>>, \A u \in Ticks : work'[u].todo = work[u].todo
    PROVE  \A s \in Strategies : Pending(s)' = Pending(s)
<1>1. \A i \in DOMAIN decisions : Waiting(i)' <=> Waiting(i)
  BY DEF Waiting, IsOpen
<1> QED BY <1>1 DEF Pending

\* A name that goes flat is pending for the strategies whose result it is, at the most.
LEMMA CountGoneFlat ==
    ASSUME LInv, LInv', NEW y \in Symbols, NEW pnl \in -1..1, GoneFlat(y, pnl), decisions' = decisions,
           \A u \in Ticks : work'[u].todo = work[u].todo, NEW s \in Strategies
    PROVE  Cardinality(Pending(s))' + Outcomes(s) <= Cardinality(Pending(s)) + Outcomes(s)'
<1>0. LType
  BY DEF LInv
<1>1. /\ trip' = [trip EXCEPT ![y] = {}]
      /\ ended'[s].wins = ended[s].wins + (IF s \in trip[y] /\ realized'[y] > since[y] THEN 1 ELSE 0)
      /\ ended'[s].losses = ended[s].losses + (IF s \in trip[y] /\ realized'[y] < since[y] THEN 1 ELSE 0)
      /\ ended'[s].evens = ended[s].evens + (IF s \in trip[y] /\ realized'[y] = since[y] THEN 1 ELSE 0)
  BY <1>0, GoneFlatDoes
<1> DEFINE P == Pending(s)
           P1 == Pending(s)'
           e == Outcomes(s)
           e1 == Outcomes(s)'
           on == s \in trip[y]
<1>2. Sizes /\ Sizes' /\ Tolds /\ Tolds'
  BY SizesNow, SizesNext, ToldsNow, ToldsNext DEF LInv
<1>3. e1 = e + (IF on THEN 1 ELSE 0)
  <2> DEFINE a == ended[s].wins
             b == ended[s].losses
             c == ended[s].evens
  <2>1. a \in Nat /\ b \in Nat /\ c \in Nat
    BY <1>2 DEF Tolds
  <2> DEFINE r == realized'[y]
             z == since[y]
  <2>2. /\ ended'[s].wins = a + (IF on /\ r > z THEN 1 ELSE 0)
        /\ ended'[s].losses = b + (IF on /\ r < z THEN 1 ELSE 0)
        /\ ended'[s].evens = c + (IF on /\ r = z THEN 1 ELSE 0)
    BY <1>1
  <2>4. r \in Int /\ z \in Int
    BY <1>0, GoneFlatDoes DEF LType, PType
  <2>3. e = a + b + c /\ e1 = ended'[s].wins + ended'[s].losses + ended'[s].evens
    BY DEF Outcomes
  <2> HIDE DEF a, b, c, on, e, e1, r, z
  <2> QED BY <2>1, <2>2, <2>3, <2>4
<1>4. \A z \in Symbols : z # y => trip'[z] = trip[z]
  BY <1>0, <1>1 DEF LType, PType
<1>5. \A i \in DOMAIN decisions : Waiting(i)' <=> Waiting(i)
  BY DEF Waiting, IsOpen
<1>6. P1 \in SUBSET (P \cup {y})
  BY <1>4, <1>5 DEF Pending
<1>7. ~on => P1 \in SUBSET P
  BY <1>4, <1>5 DEF Pending
<1>8. IsFiniteSet(P) /\ IsFiniteSet(P1) /\ Cardinality(P) \in Nat /\ Cardinality(P1) \in Nat /\ e \in Nat
  BY <1>2 DEF Sizes, Tolds
<1> HIDE DEF P, P1, e, e1, on
<1>9. Cardinality(P1) <= Cardinality(P) + 1
  <2>1. /\ IsFiniteSet(P \cup {y})
        /\ Cardinality(P \cup {y}) = IF y \in P THEN Cardinality(P) ELSE Cardinality(P) + 1
    BY <1>8, FS_AddElement
  <2>2. Cardinality(P1) <= Cardinality(P \cup {y})
    BY <1>6, <2>1, FS_Subset
  <2> QED BY <1>8, <2>1, <2>2
<1>10. ~on => Cardinality(P1) <= Cardinality(P)
  BY <1>7, <1>8, FS_Subset
<1>11. Cardinality(P1) + e <= Cardinality(P) + e1
  BY <1>3, <1>8, <1>9, <1>10
<1> QED BY <1>11 DEF P, P1, e, e1

LEMMA CountSold ==
    ASSUME LInv, LInv', NEW y \in Symbols, NEW pnl \in -1..1, Sold(y, pnl), decisions' = decisions,
           \A u \in Ticks : work'[u].todo = work[u].todo, NEW s \in Strategies
    PROVE  Cardinality(Pending(s))' + Outcomes(s) <= Cardinality(Pending(s)) + Outcomes(s)'
<1>1. CASE PartSold(y, pnl)
  <2>1. trip' = trip /\ ended' = ended
    BY <1>1 DEF PartSold
  <2>2. Pending(s)' = Pending(s) /\ Outcomes(s)' = Outcomes(s)
    BY <2>1, PendingSame DEF Outcomes
  <2>3. Cardinality(Pending(s)) \in Nat /\ Outcomes(s) \in Nat
    BY SizesNow, ToldsNow DEF LInv, Sizes, Tolds
  <2> QED BY <2>2, <2>3
<1>2. CASE GoneFlat(y, pnl)
  BY <1>2, CountGoneFlat
<1> QED BY <1>1, <1>2 DEF Sold

LEMMA CountTrade ==
    ASSUME LInv, LInv', SoloInv, CountInv, NEW t \in Ticks, NEW y \in Symbols,
           \/ \E pnl \in -1..1 : TickExits(t, y, pnl)
           \/ \E ss \in Backers : TickBuys(t, y, ss)
    PROVE  CountInv'
<1>0. LType
  BY DEF LInv
<1>1. CASE \E pnl \in -1..1 : TickExits(t, y, pnl)
  <2>1. PICK pnl \in -1..1 : TickExits(t, y, pnl)
    BY <1>1
  <2>2. /\ Sold(y, pnl) /\ pc[t] = "trade" /\ Aside(t)
        /\ work'[t].todo = work[t].todo /\ work'[t].tally = work[t].tally
        /\ decisions' = decisions /\ rates' = rates /\ overlap' = overlap
    BY <1>0, <2>1, TickExitsDoes
  <2>3. \A u \in Ticks : work'[u].todo = work[u].todo
    BY <2>2 DEF Aside
  <2>4. ASSUME NEW s \in Strategies
        PROVE  rates'[s].n + Told(t, s)' + Cardinality(Pending(s))' + Outcomes(s)
                 <= rates[s].n + Told(t, s) + Cardinality(Pending(s)) + Outcomes(s)'
    <3> DEFINE n == rates[s].n
               w == Told(t, s)
               p == Cardinality(Pending(s))
               e == Outcomes(s)
               p1 == Cardinality(Pending(s))'
               e1 == Outcomes(s)'
    <3>1. p1 + e <= p + e1
      BY <2>2, <2>3, CountSold
    <3>2. rates'[s].n = n /\ Told(t, s)' = w
      BY <2>2 DEF Told, Scored
    <3>3. n \in Nat /\ w \in Nat /\ p \in Nat /\ e \in Nat /\ p1 \in Nat /\ e1 \in Nat
      <4>1. Sizes /\ Sizes' /\ Tolds /\ Tolds'
        BY SizesNow, SizesNext, ToldsNow, ToldsNext DEF LInv
      <4> QED BY <4>1 DEF Sizes, Tolds
    <3> HIDE DEF n, w, p, e, p1, e1
    <3>4. n + w + p1 + e <= n + w + p + e1
      BY <3>1, <3>3
    <3> QED BY <3>2, <3>4 DEF n, w, p, e, p1, e1
  <2> QED BY <2>2, <2>4, CountKept
<1>2. CASE \E ss \in Backers : TickBuys(t, y, ss)
  <2>1. PICK ss \in Backers : TickBuys(t, y, ss)
    BY <1>2
  <2>a. trip' = [trip EXCEPT ![y] = @ \cup ss]
    BY <2>1 DEF TickBuys
  <2>2. /\ pc[t] = "trade" /\ Aside(t)
        /\ work'[t].todo = work[t].todo /\ work'[t].tally = work[t].tally
        /\ UNCHANGED <<realized, ended, decisions, rates, proposals, overlap>>
    BY <1>0, <2>1, TickBuysDoes
  <2>3. \A u \in Ticks : work'[u].todo = work[u].todo
    BY <2>2 DEF Aside
  <2>4. \A i \in DOMAIN decisions : Waiting(i)' <=> Waiting(i)
    BY <2>2, <2>3 DEF Waiting, IsOpen
  <2>5. \A z \in Symbols : trip[z] \subseteq trip'[z]
    BY <1>0, <2>a DEF LType, PType
  <2>6. ASSUME NEW s \in Strategies PROVE Told(t, s)' <= Told(t, s) /\ Pending(s)' \subseteq Pending(s)
    <3>1. Told(t, s)' = Told(t, s) /\ Told(t, s) \in Nat
      BY <2>2, ToldsNow DEF Told, Scored, Tolds
    <3>2. Pending(s)' \subseteq Pending(s)
      BY <2>2, <2>4, <2>5 DEF Pending
    <3> QED BY <3>1, <3>2
  <2> QED BY <2>2, <2>6, CountShrinks
<1> QED BY <1>1, <1>2

\* A tick that stands still in the count.
LEMMA CountStill ==
    ASSUME LInv, LInv', SoloInv, CountInv, NEW t \in Ticks, pc[t] # "idle", Aside(t),
           UNCHANGED <<overlap, rates, ended, trip, decisions>>,
           work'[t].todo = work[t].todo, work'[t].tally = work[t].tally
    PROVE  CountInv'
<1>1. \A u \in Ticks : work'[u].todo = work[u].todo
  BY DEF Aside
<1>2. \A s \in Strategies : Told(t, s)' = Told(t, s) /\ Told(t, s) \in Nat
  BY ToldsNow DEF Told, Scored, Tolds
<1>3. \A s \in Strategies : Told(t, s)' <= Told(t, s) /\ Pending(s)' \subseteq Pending(s)
  BY <1>1, <1>2, PendingSame
<1> QED BY <1>3, CountShrinks

LEMMA CountEnd ==
    ASSUME LInv, LInv', SoloInv, CountInv, NEW t \in Ticks, EndUnlearned(t) \/ EndRun(t)
    PROVE  CountInv'
<1>0. LType /\ Shape(t)
  BY DEF LInv
<1>1. /\ work'[t] = NoWork /\ Aside(t) /\ UNCHANGED <<trip, ended, decisions, rates>>
      /\ pc'[t] = "idle" /\ pc[t] \in {"trade", "resolve"} /\ overlap' = overlap
  <2>1. work'[t] = NoWork /\ Aside(t) /\ UNCHANGED <<trip, ended, decisions, rates>>
    BY <1>0, BeginDoes DEF portfolio, learning
  <2>2. Goto(t, "idle", NoWork) /\ pc[t] \in {"trade", "resolve"} /\ overlap' = overlap
    BY DEF EndUnlearned, EndRun
  <2>3. pc'[t] = "idle"
    BY <1>0, <2>2 DEF Goto, LType, PType
  <2> QED BY <2>1, <2>2, <2>3
<1>2. work[t].todo = {} /\ work'[t].todo = {}
  BY <1>0, <1>1, NoWorkType DEF Shape
<1>3. \A u \in Ticks : work'[u].todo = work[u].todo
  BY <1>1, <1>2 DEF Aside
<1>4. \A s \in Strategies : Told(t, s)' = 0 /\ Told(t, s) \in Nat
  BY <1>1, ToldsNow, ToldsNext DEF Tolds
<1>5. \A s \in Strategies : Told(t, s)' <= Told(t, s) /\ Pending(s)' \subseteq Pending(s)
  BY <1>1, <1>3, <1>4, PendingSame
<1> QED BY <1>1, <1>5, CountShrinks

\* What a run drops in the middle is a close that it had tallied.
LEMMA CountAbandon ==
    ASSUME LInv, LInv', SoloInv, CountInv, NEW t \in Ticks, Abandon(t)
    PROVE  CountInv'
<1>0. LType /\ Shape(t)
  BY DEF LInv
<1>1. /\ work'[t] = NoWork /\ Aside(t) /\ UNCHANGED <<trip, ended, decisions, rates>>
      /\ pc'[t] = "idle" /\ pc[t] # "idle" /\ overlap' = overlap
  <2>1. work'[t] = NoWork /\ Aside(t) /\ UNCHANGED <<trip, ended, decisions, rates>>
    BY <1>0, BeginDoes DEF portfolio, learning
  <2>2. Goto(t, "idle", NoWork) /\ pc[t] # "idle" /\ overlap' = overlap
    BY DEF Abandon
  <2>3. pc'[t] = "idle"
    BY <1>0, <2>2 DEF Goto, LType, PType
  <2> QED BY <2>1, <2>2, <2>3
<1>2. work'[t].todo = {}
  BY <1>1, NoWorkType
<1>3. ASSUME ~overlap, NEW s \in Strategies
      PROVE  rates'[s].n + Told(t, s)' + Cardinality(Pending(s))' + Outcomes(s)
                <= rates[s].n + Told(t, s) + Cardinality(Pending(s)) + Outcomes(s)'
  <2> DEFINE P == Pending(s)
             P1 == Pending(s)'
             n == rates[s].n
             w == Told(t, s)
             e == Outcomes(s)
             p == Cardinality(P)
             p1 == Cardinality(P1)
             ours == {i \in work[t].todo : s \in decisions[i].strats}
  <2>1. Sizes /\ Sizes' /\ Tolds /\ Tolds'
    BY SizesNow, SizesNext, ToldsNow, ToldsNext DEF LInv
  <2>2. Told(t, s)' = 0 /\ Outcomes(s)' = e /\ rates'[s].n = n
    BY <1>1, <2>1 DEF Tolds, Outcomes
  <2>3. /\ n \in Nat /\ w \in Nat /\ e \in Nat /\ p \in Nat /\ p1 \in Nat
        /\ IsFiniteSet(P) /\ IsFiniteSet(P1)
    BY <2>1 DEF Sizes, Tolds
  <2>4. \A i \in DOMAIN decisions : i \notin work[t].todo => (Waiting(i)' <=> Waiting(i))
    BY <1>1, <1>2 DEF Waiting, IsOpen, Aside
  <2>5. CASE ours = {}
    <3>1. P1 \in SUBSET P
      BY <1>1, <2>4, <2>5 DEF Pending
    <3>2. p1 <= p
      <4> HIDE DEF P, P1
      <4> QED BY <2>3, <3>1, FS_Subset
    <3> HIDE DEF n, w, e, p, p1
    <3>3. n + 0 + p1 + e <= n + w + p + e
      BY <2>3, <3>2
    <3> QED BY <2>2, <3>3 DEF n, w, e, p, p1, P, P1
  <2>6. CASE ours # {}
    <3>1. PICK i \in work[t].todo : s \in decisions[i].strats
      BY <2>6
    <3>2. Scored(t, s) + work[t].tally[s].evens > 0 /\ i \in DOMAIN decisions
      BY <1>0, <3>1 DEF Shape
    <3>3. w > 0
      BY <3>2 DEF Told
    <3>a. PICK y : y = decisions[i].sym
      OBVIOUS
    <3>4. \A j \in work[t].todo : decisions[j].sym = y
      BY <1>0, <3>1, <3>a DEF Shape
    <3>5. P1 \in SUBSET (P \cup {y})
      BY <1>1, <2>4, <3>4 DEF Pending
    <3>6. p1 <= p + 1
      <4> HIDE DEF P, P1
      <4>1. /\ IsFiniteSet(P \cup {y})
            /\ Cardinality(P \cup {y}) = IF y \in P THEN Cardinality(P) ELSE Cardinality(P) + 1
        BY <2>3, FS_AddElement
      <4>2. Cardinality(P1) <= Cardinality(P \cup {y})
        BY <3>5, <4>1, FS_Subset
      <4> QED BY <2>3, <4>1, <4>2
    <3> HIDE DEF n, w, e, p, p1
    <3>7. n + 0 + p1 + e <= n + w + p + e
      BY <2>3, <3>3, <3>6
    <3> QED BY <2>2, <3>7 DEF n, w, e, p, p1, P, P1
  <2> QED BY <2>5, <2>6
<1> QED BY <1>1, <1>3, CountKept

LEMMA CountRecord ==
    ASSUME LInv, LInv', SoloInv, CountInv, NEW t \in Ticks, RecordDecision(t)
    PROVE  CountInv'
<1>0. LType /\ Shape(t) /\ (~overlap => SoloAt(t))
  BY DEF LInv, SoloInv
<1> DEFINE q == work[t].bought
<1>a. PICK b : b = Head(q)
  OBVIOUS
<1>b. PICK m : m = Len(decisions) + 1
  OBVIOUS
<1>1. q # <<>> /\ pc[t] = "insert"
  BY <1>0 DEF Shape, RecordDecision
<1>2. /\ Aside(t) /\ b \in Bought
      /\ DOMAIN decisions = 1..Len(decisions) /\ Len(decisions) \in Nat
      /\ DOMAIN decisions' = 1..m
      /\ \A i \in DOMAIN decisions : decisions'[i] = decisions[i]
      /\ decisions'[m] = [sym |-> b.sym, strats |-> b.strats, base |-> work[t].base, outcome |-> "open"]
      /\ work'[t].tally = work[t].tally /\ work'[t].todo = work[t].todo
      /\ UNCHANGED <<portfolio, rates, proposals, overlap, blurred>>
  BY <1>0, <1>1, <1>a, <1>b, RecordDecisionDoes
<1>3. UNCHANGED <<trip, ended, rates, overlap>>
  BY <1>2 DEF portfolio
<1>4. \A u \in Ticks : work'[u].todo = work[u].todo
  BY <1>2 DEF Aside
<1>5. \A i \in DOMAIN decisions' : i \in DOMAIN decisions \/ i = m
  BY <1>b, <1>2
<1>6. \A i \in DOMAIN decisions : Waiting(i)' <=> Waiting(i)
  BY <1>2, <1>4 DEF Waiting, IsOpen
<1>7. ASSUME ~overlap, NEW s \in Strategies
      PROVE  Told(t, s)' <= Told(t, s) /\ Pending(s)' \subseteq Pending(s)
  <2>1. Told(t, s)' = Told(t, s) /\ Told(t, s) \in Nat
    BY <1>2, ToldsNow DEF Told, Scored, Tolds
  <2>2. b.strats \subseteq trip[b.sym]
    <3>1. 1 \in DOMAIN q /\ b = q[1]
      <4>1. q \in Seq(Bought)
        BY <1>0 DEF LType, PType, Works
      <4> QED BY <1>1, <1>a, <4>1
    <3> QED BY <1>0, <1>7, <3>1 DEF SoloAt
  <2>3. ASSUME NEW y \in Pending(s)' PROVE y \in Pending(s)
    <3>1. y \in Symbols /\ s \notin trip[y]
      BY <1>3 DEF Pending
    <3>2. PICK i \in DOMAIN decisions' : decisions'[i].sym = y /\ s \in decisions'[i].strats /\ Waiting(i)'
      BY DEF Pending
    <3>3. i \in DOMAIN decisions
      <4>1. SUFFICES ASSUME i = m PROVE FALSE
        BY <1>5
      <4>2. b.sym = y /\ s \in b.strats
        BY <1>2, <3>2, <4>1
      <4> QED BY <2>2, <3>1, <4>2
    <3> QED BY <1>2, <1>6, <3>1, <3>2, <3>3 DEF Pending
  <2> QED BY <2>1, <2>3
<1> QED BY <1>1, <1>2, <1>3, <1>7, CountShrinks

LEMMA CountRecordOutcome ==
    ASSUME LInv, LInv', SoloInv, CountInv, NEW t \in Ticks, RecordOutcome(t)
    PROVE  CountInv'
<1>0. LType /\ Shape(t)
  BY DEF LInv
<1>a. PICK i : i = Min(work[t].todo)
  OBVIOUS
<1>1. /\ pc[t] = "outcome" /\ i \in work[t].todo /\ i \in DOMAIN decisions /\ Aside(t)
      /\ DOMAIN decisions' = DOMAIN decisions /\ decisions'[i].outcome = "closed"
      /\ \A j \in DOMAIN decisions : j # i => decisions'[j] = decisions[j]
      /\ work'[t].todo = work[t].todo \ {i} /\ work'[t].tally = work[t].tally
      /\ UNCHANGED <<portfolio, rates, proposals, overlap, blurred>>
  BY <1>0, <1>a, RecordOutcomeDoes
<1>2. UNCHANGED <<trip, ended, rates, overlap>>
  BY <1>1 DEF portfolio
<1>3. \A u \in Ticks : u # t => work'[u].todo = work[u].todo
  BY <1>1 DEF Aside
<1>4. ~Waiting(i)'
  BY <1>1 DEF Waiting, IsOpen
<1>5. \A j \in DOMAIN decisions : j # i => (Waiting(j)' <=> Waiting(j))
  BY <1>1, <1>3 DEF Waiting, IsOpen
<1>6. ASSUME NEW s \in Strategies
      PROVE  Told(t, s)' <= Told(t, s) /\ Pending(s)' \subseteq Pending(s)
  <2>1. Told(t, s)' = Told(t, s) /\ Told(t, s) \in Nat
    BY <1>1, ToldsNow DEF Told, Scored, Tolds
  <2>2. Pending(s)' \subseteq Pending(s)
    BY <1>1, <1>2, <1>4, <1>5 DEF Pending
  <2> QED BY <2>1, <2>2
<1> QED BY <1>1, <1>2, <1>6, CountShrinks

\* A close that is tallied was pending.
LEMMA CountReadPosition ==
    ASSUME LInv, LInv', SoloInv, CountInv, NEW t \in Ticks, ReadPosition(t)
    PROVE  CountInv'
<1>0. LType /\ Shape(t) /\ (\A u \in Ticks : Shape(u)) /\ (~overlap => OneAtWork /\ FlatIsOver /\ SoloAt(t))
  BY DEF LInv, SoloInv
<1>a. PICK ids : ids = Next1(t)
  OBVIOUS
<1>b. PICK y : y = decisions[Min(work[t].open)].sym
  OBVIOUS
<1>c. PICK pnl : pnl = realized[y] - TripBase(ids)
  OBVIOUS
<1>1. /\ pc[t] = "resolve" /\ y \in Symbols /\ ids # {} /\ ids \subseteq work[t].open
      /\ \A i \in work[t].open : i \in ids <=> decisions[i].sym = y
      /\ work[t].todo = {} /\ Aside(t)
      /\ held[y] => work'[t].todo = {} /\ work'[t].tally = work[t].tally
      /\ ~held[y] =>
            /\ work'[t].todo = ids /\ pnl \in Int
            /\ \A s \in Strategies :
                  LET new == (\E i \in ids : s \in decisions[i].strats) IN
                  /\ work'[t].tally[s].wins = work[t].tally[s].wins + (IF new /\ pnl > 0 THEN 1 ELSE 0)
                  /\ work'[t].tally[s].losses = work[t].tally[s].losses + (IF new /\ pnl < 0 THEN 1 ELSE 0)
                  /\ work'[t].tally[s].evens = work[t].tally[s].evens + (IF new /\ pnl = 0 THEN 1 ELSE 0)
      /\ UNCHANGED <<portfolio, learning, overlap, blurred>>
  BY <1>0, <1>a, <1>b, <1>c, ReadPositionDoes
<1>2. UNCHANGED <<trip, ended, rates, overlap, decisions>> /\ work[t].open \subseteq DOMAIN decisions
  BY <1>0, <1>1 DEF portfolio, learning, Shape
<1>3. CASE held[y]
  BY <1>1, <1>2, <1>3, CountStill
<1>4. CASE ~held[y]
  <2>1. ASSUME ~overlap, NEW s \in Strategies
        PROVE  rates'[s].n + Told(t, s)' + Cardinality(Pending(s))' + Outcomes(s)
                  <= rates[s].n + Told(t, s) + Cardinality(Pending(s)) + Outcomes(s)'
    <3> DEFINE P == Pending(s)
               P1 == Pending(s)'
               n == rates[s].n
               w == Told(t, s)
               w1 == Told(t, s)'
               e == Outcomes(s)
               p == Cardinality(P)
               p1 == Cardinality(P1)
               news == \E i \in ids : s \in decisions[i].strats
    <3>1. Sizes /\ Sizes' /\ Tolds /\ Tolds'
      BY SizesNow, SizesNext, ToldsNow, ToldsNext DEF LInv
    <3>2. Outcomes(s)' = e /\ rates'[s].n = n
      BY <1>2 DEF Outcomes
    <3>3. /\ n \in Nat /\ w \in Nat /\ e \in Nat /\ p \in Nat /\ p1 \in Nat
          /\ IsFiniteSet(P) /\ IsFiniteSet(P1)
      BY <3>1 DEF Sizes, Tolds
    <3>4. w1 = w + (IF news THEN 1 ELSE 0)
      <4> DEFINE a == work[t].tally[s].wins
                 b == work[t].tally[s].losses
                 c == work[t].tally[s].evens
                 a1 == work'[t].tally[s].wins
                 b1 == work'[t].tally[s].losses
                 c1 == work'[t].tally[s].evens
      <4>1. a \in Nat /\ b \in Nat /\ c \in Nat /\ pnl \in Int
        BY <1>0, <1>1, <1>4, ScoredIs
      <4>2. /\ a1 = a + (IF news /\ pnl > 0 THEN 1 ELSE 0)
            /\ b1 = b + (IF news /\ pnl < 0 THEN 1 ELSE 0)
            /\ c1 = c + (IF news /\ pnl = 0 THEN 1 ELSE 0)
        BY <1>1, <1>4
      <4>3. w = a + b + c /\ w1 = a1 + b1 + c1
        BY DEF Told, Scored
      <4> HIDE DEF a, b, c, a1, b1, c1, news, w, w1
      <4> QED BY <4>1, <4>2, <4>3
    <3>5. \A u \in Ticks : u # t => work[u].todo = {} /\ work'[u].todo = {}
      <4>1. \A u \in Ticks : u # t => pc[u] = "idle" /\ work'[u] = work[u]
        BY <1>0, <1>1, <2>1 DEF OneAtWork, Aside
      <4> QED BY <1>0, <4>1 DEF Shape
    <3>6. \A i \in DOMAIN decisions : Waiting(i) <=> IsOpen(i)
      BY <1>1, <3>5 DEF Waiting
    <3>7. \A i \in DOMAIN decisions : Waiting(i)' <=> IsOpen(i) /\ i \notin ids
      BY <1>1, <1>2, <1>4, <3>5 DEF Waiting, IsOpen
    <3>8. P1 \in SUBSET P
      BY <1>2, <3>6, <3>7 DEF Pending
    <3>9. ASSUME news PROVE y \in P /\ y \notin P1
      <4>1. PICK i \in ids : s \in decisions[i].strats
        BY <3>9
      <4>2. i \in DOMAIN decisions /\ i \in work[t].open /\ decisions[i].sym = y /\ IsOpen(i)
        BY <1>0, <1>1, <1>2, <2>1, <4>1 DEF SoloAt
      <4>3. s \notin trip[y]
        BY <1>0, <1>1, <1>4, <2>1 DEF FlatIsOver
      <4>4. y \in P
        BY <1>1, <3>6, <4>1, <4>2, <4>3 DEF Pending
      <4>5. \A j \in DOMAIN decisions : IsOpen(j) /\ decisions[j].sym = y => j \in ids
        BY <1>0, <1>1, <2>1, <4>2 DEF SoloAt
      <4>6. y \notin P1
        BY <1>2, <3>7, <4>5 DEF Pending
      <4> QED BY <4>4, <4>6
    <3> HIDE DEF P, P1
    <3>10. p1 <= p
      BY <3>3, <3>8, FS_Subset
    <3>11. news => p1 + 1 <= p
      <4>1. news => P1 \in SUBSET (P \ {y}) /\ y \in P
        BY <3>8, <3>9
      <4>2. IsFiniteSet(P \ {y}) /\ (y \in P => Cardinality(P \ {y}) = p - 1)
        BY <3>3, FS_RemoveElement
      <4>3. news => Cardinality(P1) <= Cardinality(P \ {y})
        BY <4>1, <4>2, FS_Subset
      <4> HIDE DEF news
      <4> QED BY <3>3, <4>1, <4>2, <4>3
    <3> HIDE DEF n, w, w1, e, p, p1, news
    <3>12. n + w1 + p1 + e <= n + w + p + e
      BY <3>3, <3>4, <3>10, <3>11
    <3> QED BY <3>2, <3>12 DEF n, w, w1, e, p, p1, P, P1
  <2> QED BY <1>1, <1>2, <2>1, CountKept
<1> QED BY <1>3, <1>4

\* What was tallied goes into the row.
LEMMA CountWrite ==
    ASSUME LInv, LInv', SoloInv, CountInv, NEW t \in Ticks, WriteRate(t)
    PROVE  CountInv'
<1>0. LType /\ Shape(t) /\ RowInv /\ (~overlap => SoloAt(t))
  BY DEF LInv, SoloInv
<1>a. PICK s : s = work[t].sid
  OBVIOUS
<1>b. PICK new : new = work[t].tally[s]
  OBVIOUS
<1>c. PICK cur : cur = work[t].cur
  OBVIOUS
<1>1. pc[t] = "write" /\ Honest(work[t].cur)
  BY <1>0 DEF WriteRate, RowInv
<1>2. /\ s \in Strategies /\ cur \in Rows /\ new \in Tallies
      /\ rates'[s].n = cur.n + new.wins + new.losses
      /\ \A u \in Strategies \ {s} : rates'[u] = rates[u]
      /\ Aside(t) /\ work'[t].todo = work[t].todo
      /\ work'[t].tally[s].wins = 0 /\ work'[t].tally[s].losses = 0 /\ work'[t].tally[s].evens = 0
      /\ \A u \in Strategies \ {s} : work'[t].tally[u] = work[t].tally[u]
      /\ UNCHANGED <<portfolio, decisions, proposals, overlap, blurred>>
  BY <1>0, <1>a, <1>b, <1>c, <1>1, WriteRateDoes
<1>3. UNCHANGED <<trip, ended, decisions, overlap>> /\ \A u \in Ticks : work'[u].todo = work[u].todo
  BY <1>2 DEF portfolio, Aside
<1>4. ASSUME ~overlap, NEW v \in Strategies
      PROVE  rates'[v].n + Told(t, v)' + Cardinality(Pending(v))' + Outcomes(v)
                <= rates[v].n + Told(t, v) + Cardinality(Pending(v)) + Outcomes(v)'
  <2> DEFINE n == rates[v].n
             w == Told(t, v)
             n1 == rates'[v].n
             w1 == Told(t, v)'
             e == Outcomes(v)
             p == Cardinality(Pending(v))
  <2>1. Cardinality(Pending(v))' = p /\ Outcomes(v)' = e
    BY <1>3, PendingSame DEF Outcomes
  <2>2. n \in Nat /\ w \in Nat /\ e \in Nat /\ p \in Nat
    <3>1. Sizes /\ Tolds
      BY SizesNow, ToldsNow DEF LInv
    <3> QED BY <3>1 DEF Sizes, Tolds
  <2>3. n1 + w1 <= n + w
    <3>1. CASE v # s
      <4>1. n1 = n /\ w1 = w
        BY <1>2, <3>1 DEF Told, Scored
      <4> HIDE DEF n, w, n1, w1
      <4> QED BY <2>2, <4>1
    <3>2. CASE v = s
      <4>1. cur = rates[s]
        BY <1>0, <1>a, <1>c, <1>1, <1>4 DEF SoloAt
      <4>2. new.wins \in Nat /\ new.losses \in Nat /\ new.evens \in Nat
        BY <1>2 DEF Tallies
      <4>3. w = new.wins + new.losses + new.evens /\ w1 = 0
        BY <1>b, <1>2, <3>2 DEF Told, Scored
      <4>4. n1 = n + new.wins + new.losses
        BY <1>2, <3>2, <4>1
      <4> HIDE DEF n, w, n1, w1
      <4> QED BY <2>2, <4>2, <4>3, <4>4
    <3> QED BY <3>1, <3>2
  <2>5. n1 \in Nat /\ w1 \in Nat
    BY ToldsNext DEF Tolds
  <2> HIDE DEF n, w, n1, w1, e, p
  <2>6. n1 + w1 + p + e <= n + w + p + e
    BY <2>2, <2>3, <2>5
  <2> QED BY <2>1, <2>6 DEF n, w, n1, w1, e, p
<1> QED BY <1>1, <1>2, <1>3, <1>4, CountKept

LEMMA CountBegin ==
    ASSUME LInv, LInv', CountInv, NEW t \in Ticks, Begin(t)
    PROVE  CountInv'
<1>0. LType /\ \A u \in Ticks : Shape(u)
  BY DEF LInv
<1>1. work'[t] = NoWork /\ Aside(t) /\ UNCHANGED <<trip, ended, decisions, rates>> /\ overlap' = (overlap \/ Busy)
  BY <1>0, BeginDoes DEF portfolio, learning, Begin
<1> SUFFICES ASSUME ~overlap', NEW s \in Strategies
             PROVE  /\ rates'[s].n + Cardinality(Pending(s))' <= Outcomes(s)'
                    /\ \A u \in Ticks : rates'[s].n + Told(u, s)' + Cardinality(Pending(s))' <= Outcomes(s)'
  BY DEF CountInv
<1>2. ~overlap /\ \A u \in Ticks : pc[u] = "idle"
  BY <1>1 DEF Busy
<1>3. \A u \in Ticks : work[u] = NoWork /\ work'[u] = NoWork
  BY <1>0, <1>1, <1>2 DEF Shape, Aside
<1>4. Cardinality(Pending(s))' = Cardinality(Pending(s)) /\ Outcomes(s)' = Outcomes(s) /\ rates'[s].n = rates[s].n
  BY <1>1, <1>3, PendingSame DEF Outcomes
<1>5. \A u \in Ticks : Told(u, s)' = Told(u, s)
  BY <1>3 DEF Told, Scored
<1> QED BY <1>2, <1>4, <1>5 DEF CountInv

LEMMA CountManual ==
    ASSUME LInv, LInv', CountInv, NEW y \in Symbols, ByHand(y)
    PROVE  CountInv'
<1>1. /\ overlap' = (overlap \/ Busy) /\ UNCHANGED <<pc, work, decisions, rates>>
      /\ (trip' = trip /\ ended' = ended) \/ \E pnl \in -1..1 : Sold(y, pnl)
  BY ByHandDoes DEF LInv, learning
<1> SUFFICES ASSUME ~overlap', NEW s \in Strategies
             PROVE  /\ rates'[s].n + Cardinality(Pending(s))' <= Outcomes(s)'
                    /\ \A u \in Ticks : rates'[s].n + Told(u, s)' + Cardinality(Pending(s))' <= Outcomes(s)'
  BY DEF CountInv
<1>2. ~overlap /\ \A u \in Ticks : pc'[u] = "idle"
  BY <1>1 DEF Busy
<1>3. Sizes /\ Sizes' /\ Tolds /\ Tolds'
  BY SizesNow, SizesNext, ToldsNow, ToldsNext DEF LInv
<1>4. \A u \in Ticks : Told(u, s)' = 0
  BY <1>2, <1>3 DEF Tolds
<1> DEFINE n == rates[s].n
           p == Cardinality(Pending(s))
           e == Outcomes(s)
           p1 == Cardinality(Pending(s))'
           e1 == Outcomes(s)'
<1>6. n \in Nat /\ p \in Nat /\ e \in Nat /\ p1 \in Nat /\ e1 \in Nat
  BY <1>3 DEF Sizes, Tolds
<1>5. p1 + e <= p + e1
  <2>1. CASE trip' = trip /\ ended' = ended
    <3>1. Pending(s)' = Pending(s) /\ e1 = e
      BY <1>1, <2>1, PendingSame DEF Outcomes
    <3> QED BY <1>6, <3>1
  <2>2. CASE \E pnl \in -1..1 : Sold(y, pnl)
    BY <1>1, <2>2, CountSold
  <2> QED BY <1>1, <2>1, <2>2
<1>7. n + p <= e
  BY <1>2 DEF CountInv
<1>8. rates'[s].n = n
  BY <1>1
<1> HIDE DEF n, p, e, p1, e1
<1>9. n + p1 <= e1 /\ n + 0 + p1 <= e1
  BY <1>5, <1>6, <1>7
<1> QED BY <1>4, <1>8, <1>9 DEF p1, e1

LEMMA CountInvStep ==
    LInv /\ LInv' /\ SoloInv /\ CountInv /\ [LearningNext]_learningVars => CountInv'
<1> SUFFICES ASSUME LInv, LInv', SoloInv, CountInv, [LearningNext]_learningVars PROVE CountInv'
  OBVIOUS
<1>0. LType
  BY DEF LInv
<1>1. CASE UNCHANGED learningVars
  <2>1. UNCHANGED <<trip, ended, decisions, rates, pc, work, overlap>>
    BY <1>1 DEF learningVars, portfolio, learning
  <2>2. \A s \in Strategies : Cardinality(Pending(s))' = Cardinality(Pending(s)) /\ Outcomes(s)' = Outcomes(s)
    BY <2>1, PendingSame DEF Outcomes
  <2>3. \A u \in Ticks, s \in Strategies : Told(u, s)' = Told(u, s)
    BY <2>1 DEF Told, Scored
  <2> QED BY <2>1, <2>2, <2>3 DEF CountInv
<1>2. ASSUME NEW t \in Ticks,
             Begin(t) \/ EndUnlearned(t) \/ EndRun(t) \/ Abandon(t) \/ RecordDecision(t)
             \/ ReadPosition(t) \/ RecordOutcome(t) \/ WriteRate(t)
      PROVE  CountInv'
  BY <1>2, CountBegin, CountEnd, CountAbandon, CountRecord, CountReadPosition, CountRecordOutcome, CountWrite
<1>3. ASSUME NEW t \in Ticks, ReadBase(t) \/ ReadOpen(t) \/ ProposeCooldown(t) \/ \E s \in Strategies : ReadRate(t, s)
      PROVE  CountInv'
  <2>0. Shape(t)
    BY DEF LInv
  <2>1. CASE ReadBase(t)
    <3>1. /\ Recording(t) /\ Aside(t) /\ work'[t].tally = work[t].tally /\ work'[t].todo = work[t].todo
          /\ UNCHANGED <<portfolio, learning, overlap, blurred>>
      BY <1>0, <2>1, ReadBaseDoes
    <3> QED BY <3>1, CountStill DEF portfolio, learning, Recording
  <2>2. CASE ReadOpen(t)
    <3>1. /\ Recording(t) /\ Aside(t) /\ work'[t].tally = work[t].tally /\ work'[t].todo = work[t].todo
          /\ UNCHANGED <<portfolio, learning, overlap, blurred>>
      BY <1>0, <2>2, ReadOpenDoes
    <3> QED BY <3>1, CountStill DEF portfolio, learning, Recording
  <2>3. CASE ProposeCooldown(t)
    <3>1. /\ pc[t] = "propose" /\ Aside(t) /\ work'[t].tally = work[t].tally /\ work'[t].todo = work[t].todo
          /\ UNCHANGED <<portfolio, decisions, rates, overlap, blurred>>
      BY <1>0, <2>0, <2>3, ProposeDoes
    <3> QED BY <3>1, CountStill DEF portfolio
  <2>4. CASE \E s \in Strategies : ReadRate(t, s)
    <3>1. PICK s \in Strategies : ReadRate(t, s)
      BY <2>4
    <3>2. /\ pc[t] = "resolve" /\ Aside(t) /\ work'[t].tally = work[t].tally /\ work'[t].todo = work[t].todo
          /\ UNCHANGED <<portfolio, learning, overlap, blurred>>
      BY <1>0, <3>1, ReadRateDoes
    <3> QED BY <3>2, CountStill DEF portfolio, learning
  <2> QED BY <1>3, <2>1, <2>2, <2>3, <2>4
<1>4. ASSUME NEW t \in Ticks, NEW y \in Symbols,
             (\E pnl \in -1..1 : TickExits(t, y, pnl)) \/ \E ss \in Backers : TickBuys(t, y, ss)
      PROVE  CountInv'
  BY <1>4, CountTrade
<1>6. ASSUME NEW y \in Symbols, ByHand(y)
      PROVE  CountInv'
  BY <1>6, CountManual
<1> QED BY <1>1, <1>2, <1>3, <1>4, <1>6, NextIs DEF LearnStep

LEMMA NothingPending ==
    LearningInit => /\ \A s \in Strategies : /\ Cardinality(Pending(s)) = 0 /\ Cardinality(WinsPending(s)) = 0
                                             /\ Cardinality(LossesPending(s)) = 0
                    /\ \A s \in Strategies, t \in Ticks : /\ Told(t, s) = 0
                                             /\ work[t].tally[s].wins = 0 /\ work[t].tally[s].losses = 0
<1> SUFFICES ASSUME LearningInit, NEW s \in Strategies
             PROVE  /\ Cardinality(Pending(s)) = 0 /\ Cardinality(WinsPending(s)) = 0
                    /\ Cardinality(LossesPending(s)) = 0
                    /\ \A t \in Ticks : /\ Told(t, s) = 0
                                        /\ work[t].tally[s].wins = 0 /\ work[t].tally[s].losses = 0
  OBVIOUS
<1>1. DOMAIN decisions = {} /\ \A t \in Ticks : work[t] = NoWork
  <2>1. decisions = <<>> /\ \A t \in Ticks : work[t] = NoWork
    BY DEF LearningInit
  <2> QED BY <2>1
<1>2. Pending(s) = {} /\ WinsPending(s) = {} /\ LossesPending(s) = {}
  BY <1>1 DEF Pending, WinsPending, LossesPending
<1>3. \A t \in Ticks : work[t].tally = NoTally
  BY <1>1, NoWorkType
<1>4. \A t \in Ticks : work[t].tally[s].wins = 0 /\ work[t].tally[s].losses = 0 /\ work[t].tally[s].evens = 0
  BY <1>3, NoWorkType
<1>5. \A t \in Ticks : Told(t, s) = 0
  BY <1>4 DEF Told, Scored
<1> QED BY <1>2, <1>4, <1>5, FS_EmptySet

LEMMA CountInvInit == LearningInit => CountInv
<1> SUFFICES ASSUME LearningInit, NEW s \in Strategies
             PROVE  /\ rates[s].n + Cardinality(Pending(s)) <= Outcomes(s)
                    /\ \A t \in Ticks : rates[s].n + Told(t, s) + Cardinality(Pending(s)) <= Outcomes(s)
  BY DEF CountInv
<1>1. rates[s].n = 0
  BY DEF LearningInit, NoRate
<1>2. Outcomes(s) = 0
  <2>1. ended = NoTally
    BY DEF LearningInit
  <2> QED BY <2>1, NoWorkType DEF Outcomes
<1>3. Cardinality(Pending(s)) = 0 /\ \A t \in Ticks : Told(t, s) = 0
  BY NothingPending
<1> QED BY <1>1, <1>2, <1>3

----------------------------------------------------------------------------
(* While every trade is written down. *)

LEMMA ClearBack ==
    ASSUME LType, [LearningNext]_learningVars, Clear'
    PROVE  Clear
<1>1. CASE UNCHANGED learningVars
  BY <1>1 DEF learningVars, Clear
<1>2. CASE LearningNext
  <2>1. ASSUME NEW t \in Ticks, Begin(t) \/ EndUnlearned(t) \/ Abandon(t) PROVE Clear
    <3>1. CASE Begin(t)
      <4>1. overlap' = (overlap \/ Busy) /\ blurred' = blurred
        BY <3>1 DEF Begin
      <4> QED BY <4>1 DEF Clear
    <3>2. CASE EndUnlearned(t)
      <4>1. overlap' = overlap /\ blurred' = (blurred \/ work[t].bought # <<>>)
        BY <3>2 DEF EndUnlearned
      <4> QED BY <4>1 DEF Clear
    <3>3. CASE Abandon(t)
      BY <3>3 DEF Abandon, Clear
    <3> QED BY <2>1, <3>1, <3>2, <3>3
  <2>2. ASSUME NEW t \in Ticks, LearnStep(t) PROVE Clear
    <3>1. CASE ReadBase(t) \/ RecordDecision(t) \/ ReadOpen(t)
      BY <3>1 DEF ReadBase, RecordDecision, ReadOpen, Clear
    <3>2. CASE ReadPosition(t) \/ RecordOutcome(t)
      BY <3>2 DEF ReadPosition, RecordOutcome, Clear
    <3>3. CASE WriteRate(t) \/ ProposeCooldown(t) \/ EndRun(t)
      BY <3>3 DEF WriteRate, ProposeCooldown, EndRun, Clear
    <3>4. CASE \E s \in Strategies : ReadRate(t, s)
      BY <3>4 DEF ReadRate, Clear
    <3> QED BY <2>2, <3>1, <3>2, <3>3, <3>4 DEF LearnStep
  <2>3. ASSUME NEW t \in Ticks, NEW y \in Symbols, NEW pnl \in -1..1, TickExits(t, y, pnl) PROVE Clear
    BY <2>3 DEF TickExits, Clear
  <2>4. ASSUME NEW t \in Ticks, NEW y \in Symbols, NEW ss \in Backers, TickBuys(t, y, ss) PROVE Clear
    <3>1. blurred' = (blurred \/ Merges(y)) /\ overlap' = overlap
      BY <2>4 DEF TickBuys
    <3> QED BY <3>1 DEF Clear
  <2>5. ASSUME NEW y \in Symbols, ByHand(y) PROVE Clear
    <3>1. overlap' = (overlap \/ Busy) /\ (blurred => blurred')
      BY <2>5, ByHandDoes
    <3> QED BY <3>1 DEF Clear
  <2>6. ASSUME NEW t \in Ticks, NEW y \in Symbols,
               (\E pnl \in -1..1 : TickExits(t, y, pnl)) \/ \E ss \in Backers : TickBuys(t, y, ss)
        PROVE  Clear
    BY <2>3, <2>4, <2>6
  <2> QED BY <1>2, <2>1, <2>2, <2>5, <2>6, NextIs
<1> QED BY <1>1, <1>2

\* The tick at work is the only one that can be unsteady.
LEMMA SteadyKept ==
    ASSUME SoloInv, ~overlap, NEW t \in Ticks, pc[t] # "idle", Aside(t), Steady(t)'
    PROVE  \A u \in Ticks : Steady(u)'
<1>1. \A u \in Ticks : u # t => pc'[u] = "idle"
  BY DEF SoloInv, OneAtWork, Aside
<1> QED BY <1>1 DEF Steady

\* Who is behind a name is read off the decisions and the trades in hand.
LEMMA BehindSame ==
    ASSUME decisions' = decisions, \A u \in Ticks : work'[u].bought = work[u].bought
    PROVE  /\ \A y, s : Booked(y, s)' <=> Booked(y, s)
           /\ \A y, s : InHand(y, s)' <=> InHand(y, s)
           /\ \A y : Fresh(y)' <=> Fresh(y)
           /\ \A y : OpenOf(y)' = OpenOf(y)
<1>1. \A y, s : Booked(y, s)' <=> Booked(y, s)
  BY DEF Booked, IsOpen
<1>2. \A y, s : InHand(y, s)' <=> InHand(y, s)
  BY DEF InHand
<1>3. \A y : Fresh(y)' <=> Fresh(y)
  BY <1>2 DEF Fresh
<1>4. \A y : OpenOf(y)' = OpenOf(y)
  BY DEF OpenOf
<1> QED BY <1>1, <1>2, <1>3, <1>4

\* A step that leaves positions, decisions and trades in hand alone.
LEMMA TripSame ==
    ASSUME NoneBelow, OneStarts, TripKnown, UNCHANGED <<held, realized, trip, since, lowered, decisions>>,
           \A u \in Ticks : work'[u].bought = work[u].bought
    PROVE  NoneBelow' /\ OneStarts' /\ TripKnown'
<1>1. /\ \A y, s : Booked(y, s)' <=> Booked(y, s)
      /\ \A y, s : InHand(y, s)' <=> InHand(y, s)
      /\ \A y : Fresh(y)' <=> Fresh(y)
      /\ \A y : OpenOf(y)' = OpenOf(y)
  BY BehindSame
<1>2. NoneBelow'
  BY <1>1 DEF NoneBelow
<1>3. OneStarts'
  BY <1>1 DEF OneStarts
<1>4. TripKnown'
  BY <1>1 DEF TripKnown
<1> QED BY <1>2, <1>3, <1>4

\* A sell while no trade waits to be written down.
LEMMA TripSold ==
    ASSUME LType, NoneBelow, OneStarts, TripKnown, NEW y \in Symbols, NEW pnl \in -1..1, Sold(y, pnl),
           decisions' = decisions, \A u \in Ticks : work'[u].bought = work[u].bought,
           \A x \in Symbols : ~Fresh(x)
    PROVE  NoneBelow' /\ OneStarts' /\ TripKnown'
<1>1. /\ \A z, s : Booked(z, s)' <=> Booked(z, s)
      /\ \A z, s : InHand(z, s)' <=> InHand(z, s)
      /\ \A z : Fresh(z)' <=> Fresh(z)
      /\ \A z : OpenOf(z)' = OpenOf(z)
  BY BehindSame
<1>2. \A z \in Symbols : held'[z] => held[z] /\ trip'[z] = trip[z] /\ since'[z] = since[z] /\ lowered'[z] = lowered[z]
  <2>1. CASE PartSold(y, pnl)
    BY <2>1 DEF PartSold
  <2>2. CASE GoneFlat(y, pnl)
    <3>1. /\ held' = [held EXCEPT ![y] = FALSE] /\ trip' = [trip EXCEPT ![y] = {}]
          /\ since' = [since EXCEPT ![y] = 0] /\ lowered' = [lowered EXCEPT ![y] = FALSE]
      BY <2>2, GoneFlatDoes
    <3> QED BY <3>1 DEF LType, PType
  <2> QED BY <2>1, <2>2 DEF Sold
<1>3. NoneBelow'
  BY <1>1, <1>2 DEF NoneBelow
<1>4. OneStarts'
  BY <1>1, <1>2 DEF OneStarts
<1>5. TripKnown'
  BY <1>1, <1>2 DEF TripKnown
<1> QED BY <1>3, <1>4, <1>5

\* Only a tick at work has trades in hand.
LEMMA IdleNotFresh ==
    ASSUME \A u \in Ticks : Shape(u), \A u \in Ticks : pc[u] = "idle" \/ work[u].bought = <<>>
    PROVE  \A z : ~Fresh(z) /\ \A s : ~InHand(z, s)
<1>1. \A u \in Ticks : work[u].bought = <<>>
  BY NoWorkType DEF Shape
<1>2. \A u \in Ticks : DOMAIN work[u].bought = {}
  BY <1>1
<1> QED BY <1>2 DEF Fresh, InHand

\* A name without strategies has no open decision: each decision has somebody behind it.
LEMMA NoneOpen ==
    ASSUME LType, TripKnown, NEW y \in Symbols, held[y], trip[y] = {}
    PROVE  OpenOf(y) = {}
<1> SUFFICES ASSUME NEW i \in OpenOf(y) PROVE FALSE
  OBVIOUS
<1>1. i \in DOMAIN decisions /\ decisions[i].sym = y /\ IsOpen(i)
  BY DEF OpenOf, IsOpen
<1>2. PICK s \in Strategies : s \in decisions[i].strats
  BY <1>1, DecisionIs
<1>3. Booked(y, s)
  BY <1>1, <1>2 DEF Booked
<1> QED BY <1>2, <1>3 DEF TripKnown

LEMMA TripTrade ==
    ASSUME LInv, SoloInv, TripInv, NEW t \in Ticks, NEW y \in Symbols,
           \/ \E pnl \in -1..1 : TickExits(t, y, pnl)
           \/ \E ss \in Backers : TickBuys(t, y, ss)
    PROVE  TripInv'
<1>0. LType /\ (\A u \in Ticks : Shape(u)) /\ Shape(t)
  BY DEF LInv
<1>1. CASE \E pnl \in -1..1 : TickExits(t, y, pnl)
  <2>1. PICK pnl \in -1..1 : TickExits(t, y, pnl)
    BY <1>1
  <2>2. /\ Sold(y, pnl) /\ pc[t] = "trade" /\ work[t].bought = <<>>
        /\ pc'[t] = "trade" /\ Aside(t) /\ work'[t].bought = <<>>
        /\ decisions' = decisions /\ overlap' = overlap /\ blurred' = blurred
    BY <1>0, <2>1, TickExitsDoes
  <2> SUFFICES ASSUME Clear PROVE NoneBelow' /\ OneStarts' /\ TripKnown' /\ \A u \in Ticks : Steady(u)'
    BY <2>2 DEF TripInv, Clear
  <2>3. \A u \in Ticks : work'[u].bought = work[u].bought
    BY <2>2 DEF Aside
  <2>6. \A u \in Ticks : u # t => pc[u] = "idle"
    BY <2>2 DEF SoloInv, OneAtWork, Clear
  <2>7. \A x \in Symbols : ~Fresh(x)
    BY <1>0, <2>2, <2>6, IdleNotFresh
  <2>4. NoneBelow' /\ OneStarts' /\ TripKnown'
    BY <1>0, <2>2, <2>3, <2>7, TripSold DEF TripInv
  <2>5. \A u \in Ticks : Steady(u)'
    BY <2>2, SteadyKept DEF Steady, Clear
  <2> QED BY <2>4, <2>5
<1>2. CASE \E ss \in Backers : TickBuys(t, y, ss)
  <2>1. PICK ss \in Backers : TickBuys(t, y, ss)
    BY <1>2
  <2>a. PICK q : q = work[t].bought
    OBVIOUS
  <2>b. PICK b : b = [sym |-> y, strats |-> ss]
    OBVIOUS
  <2>2. /\ pc[t] = "trade" /\ pc'[t] = "trade" /\ Aside(t)
        /\ \A i \in DOMAIN q : q[i].sym # y
        /\ work'[t].bought = Append(q, b)
        /\ UNCHANGED <<realized, ended, decisions, rates, proposals, overlap>>
    BY <1>0, <2>1, <2>a, <2>b, TickBuysDoes
  <2>3. /\ held' = [held EXCEPT ![y] = TRUE] /\ trip' = [trip EXCEPT ![y] = @ \cup ss]
        /\ since' = [since EXCEPT ![y] = IF trip[y] = {} THEN realized[y] ELSE @]
        /\ lowered' = [lowered EXCEPT ![y] = @ \/ (trip[y] # {} /\ realized[y] < since[y])]
        /\ blurred' = (blurred \/ Merges(y))
    BY <2>1 DEF TickBuys
  <2> SUFFICES ASSUME Clear' PROVE NoneBelow' /\ OneStarts' /\ TripKnown' /\ \A u \in Ticks : Steady(u)'
    BY DEF TripInv
  <2>4. Clear /\ (held[y] \/ OpenOf(y) = {})
    BY <2>2, <2>3 DEF Clear, Merges
  <2>5. NoneBelow /\ OneStarts /\ TripKnown /\ FlatIsOver /\ OneAtWork
    BY <2>4 DEF TripInv, SoloInv, Clear
  <2>6. /\ held'[y] /\ trip'[y] = trip[y] \cup ss
        /\ since'[y] = (IF trip[y] = {} THEN realized[y] ELSE since[y])
        /\ lowered'[y] = (lowered[y] \/ (trip[y] # {} /\ realized[y] < since[y]))
        /\ \A z \in Symbols : z # y => /\ held'[z] = held[z] /\ trip'[z] = trip[z]
                                     /\ since'[z] = since[z] /\ lowered'[z] = lowered[z]
        /\ realized[y] \in Int /\ since[y] \in Int /\ realized' = realized
    BY <1>0, <2>2, <2>3 DEF LType, PType
  <2>7. q \in Seq(Bought) /\ b.sym = y /\ b.strats = ss
    BY <1>0, <2>a, <2>b DEF LType, PType, Works
  <2>8. \A z, s : Booked(z, s)' <=> Booked(z, s)
    BY <2>2 DEF Booked, IsOpen
  <2>9. \A z, s : InHand(z, s)' <=> InHand(z, s) \/ (z = y /\ s \in ss)
    <3>1. \A u \in Ticks : u # t => work'[u].bought = work[u].bought
      BY <2>2 DEF Aside
    <3> DEFINE a == Append(q, b)
    <3>2. /\ DOMAIN a = 1..(Len(q) + 1) /\ a[Len(q) + 1] = b /\ \A j \in 1..Len(q) : a[j] = q[j]
          /\ Len(q) \in Nat /\ DOMAIN q = 1..Len(q)
      BY <2>7
    <3>3. DOMAIN q \subseteq DOMAIN a /\ Len(q) + 1 \in DOMAIN a
          /\ \A k \in DOMAIN a : k \in DOMAIN q \/ k = Len(q) + 1
      BY <3>2
    <3>4. work'[t].bought = a
      BY <2>2
    <3> HIDE DEF a
    <3>5. \A z, s : (\E k \in DOMAIN a : a[k].sym = z /\ s \in a[k].strats)
                      <=> (\E k \in DOMAIN q : q[k].sym = z /\ s \in q[k].strats) \/ (z = y /\ s \in ss)
      BY <2>7, <3>2, <3>3
    <3> TAKE z, s
    <3>6. (\E k \in DOMAIN work'[t].bought : work'[t].bought[k].sym = z /\ s \in work'[t].bought[k].strats)
            <=> (\E k \in DOMAIN q : q[k].sym = z /\ s \in q[k].strats) \/ (z = y /\ s \in ss)
      BY <3>4, <3>5
    <3>7. ASSUME InHand(z, s)' PROVE InHand(z, s) \/ (z = y /\ s \in ss)
      <4>1. PICK u \in Ticks : \E k \in DOMAIN work'[u].bought :
                work'[u].bought[k].sym = z /\ s \in work'[u].bought[k].strats
        BY <3>7 DEF InHand
      <4>2. CASE u = t
        BY <2>a, <3>6, <4>1, <4>2 DEF InHand
      <4>3. CASE u # t
        BY <3>1, <4>1, <4>3 DEF InHand
      <4> QED BY <4>2, <4>3
    <3>8. ASSUME InHand(z, s) PROVE InHand(z, s)'
      <4>1. PICK u \in Ticks : \E k \in DOMAIN work[u].bought :
                work[u].bought[k].sym = z /\ s \in work[u].bought[k].strats
        BY <3>8 DEF InHand
      <4>2. CASE u = t
        BY <2>a, <3>6, <4>1, <4>2 DEF InHand
      <4>3. CASE u # t
        BY <3>1, <4>1, <4>3 DEF InHand
      <4> QED BY <4>2, <4>3
    <3>9. ASSUME z = y, s \in ss PROVE InHand(z, s)'
      BY <3>6, <3>9 DEF InHand
    <3> QED BY <3>7, <3>8, <3>9
  <2>14. \A z : OpenOf(z)' = OpenOf(z)
    BY <2>2 DEF OpenOf
  <2>15. /\ \A z \in Symbols : z # y => (Fresh(z)' <=> Fresh(z))
         /\ Fresh(y)' /\ (trip[y] = {} => OpenOf(y) = {}) /\ (trip[y] # {} => held[y])
    <3>1. \A z \in Symbols : z # y => (Fresh(z)' <=> Fresh(z))
      BY <2>9 DEF Fresh
    <3>2. Fresh(y)'
      <4>1. PICK s \in Strategies : s \in ss
        BY BackersAre
      <4>2. InHand(y, s)'
        BY <2>9, <4>1
      <4> QED BY <4>2 DEF Fresh
    <3>3. trip[y] = {} => OpenOf(y) = {}
      BY <1>0, <2>4, <2>5, NoneOpen
    <3>4. trip[y] # {} => held[y]
      BY <2>5 DEF FlatIsOver
    <3> QED BY <3>1, <3>2, <3>3, <3>4
  <2>10. NoneBelow'
    <3>1. ASSUME NEW z \in Symbols, held'[z], ~lowered'[z]
          PROVE  /\ \A i \in OpenOf(z) : decisions[i].base >= since'[z]
                 /\ Fresh(z)' => realized[z] >= since'[z]
      <4>1. CASE z # y
        BY <2>5, <2>6, <2>15, <3>1, <4>1 DEF NoneBelow
      <4>2. CASE z = y /\ trip[y] = {}
        BY <2>6, <2>15, <4>2
      <4>3. CASE z = y /\ trip[y] # {}
        <5>1. held[y] /\ ~lowered[y] /\ ~(realized[y] < since[y]) /\ since'[y] = since[y]
          BY <2>6, <2>15, <3>1, <4>3
        <5>2. \A i \in OpenOf(y) : decisions[i].base >= since[y]
          BY <2>5, <5>1 DEF NoneBelow
        <5> QED BY <2>6, <4>3, <5>1, <5>2
      <4> QED BY <4>1, <4>2, <4>3
    <3> QED BY <2>2, <2>6, <2>14, <3>1 DEF NoneBelow
  <2>11. OneStarts'
    <3>1. ASSUME NEW z \in Symbols, held'[z], trip'[z] # {}
          PROVE  \/ \E i \in OpenOf(z) : decisions[i].base = since'[z]
                 \/ Fresh(z)' /\ realized[z] = since'[z]
      <4>1. CASE z # y
        BY <2>5, <2>6, <2>15, <3>1, <4>1 DEF OneStarts
      <4>2. CASE z = y /\ trip[y] = {}
        BY <2>6, <2>15, <4>2
      <4>3. CASE z = y /\ trip[y] # {}
        <5>1. held[y] /\ since'[y] = since[y]
          BY <2>6, <2>15, <4>3
        <5>2. (\E i \in OpenOf(y) : decisions[i].base = since[y]) \/ realized[y] = since[y]
          BY <2>5, <4>3, <5>1 DEF OneStarts
        <5> QED BY <2>15, <4>3, <5>1, <5>2
      <4> QED BY <4>1, <4>2, <4>3
    <3> QED BY <2>2, <2>6, <2>14, <3>1 DEF OneStarts
  <2>12. TripKnown'
    <3>1. ASSUME NEW z \in Symbols, NEW s \in Strategies, held'[z]
          PROVE  s \in trip'[z] <=> Booked(z, s) \/ InHand(z, s) \/ (z = y /\ s \in ss)
      <4>1. CASE z # y
        BY <2>5, <2>6, <3>1, <4>1 DEF TripKnown
      <4>2. CASE z = y /\ held[y]
        BY <2>5, <2>6, <3>1, <4>2 DEF TripKnown
      <4>3. CASE z = y /\ ~held[y]
        <5>1. trip[y] = {} /\ OpenOf(y) = {}
          BY <2>4, <2>5, <4>3 DEF FlatIsOver
        <5>2. ~Booked(y, s)
          BY <5>1 DEF Booked, OpenOf, IsOpen
        <5>3. ~InHand(y, s)
          <6>1. \A u \in Ticks : u # t => work[u].bought = <<>>
            <7>1. \A u \in Ticks : u # t => pc[u] = "idle"
              BY <2>2, <2>5 DEF OneAtWork
            <7>2. \A u \in Ticks : pc[u] = "idle" => work[u] = NoWork
              BY <1>0 DEF Shape
            <7> QED BY <7>1, <7>2, NoWorkType
          <6>2. \A u \in Ticks : u # t => DOMAIN work[u].bought = {}
            BY <6>1
          <6> QED BY <2>a, <2>2, <6>2 DEF InHand
        <5> QED BY <2>6, <4>3, <5>1, <5>2, <5>3
      <4> QED BY <4>1, <4>2, <4>3
    <3> QED BY <2>8, <2>9, <3>1 DEF TripKnown
  <2>13. \A u \in Ticks : Steady(u)'
    BY <2>2, <2>4, SteadyKept DEF Steady, Clear
  <2> QED BY <2>10, <2>11, <2>12, <2>13
<1> QED BY <1>1, <1>2

LEMMA TripEnd ==
    ASSUME LInv, SoloInv, TripInv, NEW t \in Ticks, Begin(t) \/ EndUnlearned(t) \/ EndRun(t) \/ Abandon(t),
           Clear' => Clear
    PROVE  TripInv'
<1> SUFFICES ASSUME Clear' PROVE NoneBelow' /\ OneStarts' /\ TripKnown' /\ \A u \in Ticks : Steady(u)'
  BY DEF TripInv
<1>0. LType /\ Shape(t) /\ Clear
  BY DEF LInv
<1>1. /\ pc'[t] \in {"idle", "trade"} /\ work'[t] = NoWork /\ Aside(t)
      /\ UNCHANGED <<held, realized, trip, since, lowered, decisions>>
  BY <1>0, BeginDoes DEF portfolio, learning
<1>2. work'[t].bought = <<>>
  BY <1>1, NoWorkType
<1>3. work[t].bought = <<>>
  <2>1. CASE Begin(t)
    BY <1>0, <2>1, NoWorkType DEF Begin, Shape
  <2>2. CASE EndUnlearned(t)
    <3>1. blurred' = (blurred \/ work[t].bought # <<>>)
      BY <2>2 DEF EndUnlearned
    <3> QED BY <3>1 DEF Clear
  <2>3. CASE EndRun(t)
    BY <1>0, <2>3 DEF EndRun, Shape
  <2>4. CASE Abandon(t)
    BY <2>4 DEF Abandon, Clear
  <2> QED BY <2>1, <2>2, <2>3, <2>4
<1>4. \A u \in Ticks : work'[u].bought = work[u].bought
  BY <1>1, <1>2, <1>3 DEF Aside
<1>5. NoneBelow' /\ OneStarts' /\ TripKnown'
  BY <1>0, <1>1, <1>4, TripSame DEF TripInv
<1>6. \A u \in Ticks : Steady(u)'
  <2>1. Steady(t)'
    BY <1>1 DEF Steady
  <2>2. CASE pc[t] # "idle"
    BY <1>0, <1>1, <2>1, <2>2, SteadyKept DEF Clear
  <2>3. CASE pc[t] = "idle"
    <3>1. Begin(t)
      BY <2>3 DEF EndUnlearned, EndRun, Abandon
    <3>2. overlap' = (overlap \/ Busy)
      BY <3>1 DEF Begin
    <3>3. \A u \in Ticks : pc[u] = "idle"
      BY <3>2 DEF Clear, Busy
    <3>4. \A u \in Ticks : u # t => pc'[u] = "idle"
      BY <1>1, <3>3 DEF Aside
    <3> QED BY <2>1, <3>4 DEF Steady
  <2> QED BY <2>2, <2>3
<1> QED BY <1>5, <1>6

LEMMA TripManual ==
    ASSUME LInv, SoloInv, TripInv, NEW y \in Symbols, ByHand(y), Clear' => Clear
    PROVE  TripInv'
<1> SUFFICES ASSUME Clear' PROVE NoneBelow' /\ OneStarts' /\ TripKnown' /\ \A u \in Ticks : Steady(u)'
  BY DEF TripInv
<1>0. LType /\ (\A u \in Ticks : Shape(u)) /\ Clear
  BY DEF LInv
<1>1. /\ overlap' = (overlap \/ Busy) /\ UNCHANGED <<pc, work, decisions>>
      /\ \/ /\ held' = [held EXCEPT ![y] = TRUE] /\ blurred' = (blurred \/ Merges(y))
            /\ UNCHANGED <<realized, trip, since, lowered, ended, scaled>>
         \/ \E pnl \in -1..1 : Sold(y, pnl)
  BY <1>0, ByHandDoes DEF learning
<1>2. \A u \in Ticks : pc[u] = "idle" /\ pc'[u] = "idle"
  BY <1>1 DEF Clear, Busy
<1>3. \A z : ~Fresh(z) /\ \A s : ~InHand(z, s)
  BY <1>0, <1>2, IdleNotFresh
<1>4. NoneBelow /\ OneStarts /\ TripKnown /\ FlatIsOver
  BY <1>0 DEF TripInv, SoloInv, Clear
<1>5. NoneBelow' /\ OneStarts' /\ TripKnown'
  <2>1. CASE \E pnl \in -1..1 : Sold(y, pnl)
    BY <1>0, <1>1, <1>3, <1>4, <2>1, TripSold
  <2>2. CASE /\ held' = [held EXCEPT ![y] = TRUE] /\ blurred' = (blurred \/ Merges(y))
             /\ UNCHANGED <<realized, trip, since, lowered, ended, scaled>>
    <3>1. /\ \A z, s : Booked(z, s)' <=> Booked(z, s)
          /\ \A z, s : InHand(z, s)' <=> InHand(z, s)
          /\ \A z : Fresh(z)' <=> Fresh(z)
          /\ \A z : OpenOf(z)' = OpenOf(z)
      BY <1>1, BehindSame
    <3>2. held[y] \/ (OpenOf(y) = {} /\ trip[y] = {})
      BY <1>4, <2>2 DEF Clear, Merges, FlatIsOver
    <3>3. \A z \in Symbols : z # y => held'[z] = held[z]
      BY <1>0, <2>2 DEF LType, PType
    <3>4. ~held[y] => \A s : ~Booked(y, s)
      BY <3>2 DEF Booked, OpenOf, IsOpen
    <3>5. NoneBelow'
      <4>1. ASSUME NEW z \in Symbols, held'[z], ~lowered'[z]
            PROVE  \A i \in OpenOf(z) : decisions[i].base >= since[z]
        <5>1. CASE held[z]
          BY <1>4, <2>2, <4>1, <5>1 DEF NoneBelow
        <5>2. CASE ~held[z]
          BY <3>2, <3>3, <4>1, <5>2
        <5> QED BY <5>1, <5>2
      <4> QED BY <1>1, <1>3, <2>2, <3>1, <4>1 DEF NoneBelow
    <3>6. OneStarts'
      <4>1. ASSUME NEW z \in Symbols, held'[z], trip'[z] # {}
            PROVE  \E i \in OpenOf(z) : decisions[i].base = since[z]
        <5>1. held[z]
          BY <2>2, <3>2, <3>3, <4>1
        <5> QED BY <1>3, <1>4, <2>2, <4>1, <5>1 DEF OneStarts
      <4> QED BY <1>1, <2>2, <3>1, <4>1 DEF OneStarts
    <3>7. TripKnown'
      BY <1>3, <1>4, <2>2, <3>1, <3>2, <3>3, <3>4 DEF TripKnown
    <3> QED BY <3>5, <3>6, <3>7
  <2> QED BY <1>1, <2>1, <2>2
<1> QED BY <1>2, <1>5 DEF Steady

\* A tick that only looks, or writes rates.
LEMMA TripStill ==
    ASSUME SoloInv, TripInv, NEW t \in Ticks, pc[t] # "idle", Aside(t),
           UNCHANGED <<held, realized, trip, since, lowered, decisions, overlap, blurred>>,
           work'[t].bought = work[t].bought, Clear => Steady(t)'
    PROVE  TripInv'
<1> SUFFICES ASSUME Clear PROVE NoneBelow' /\ OneStarts' /\ TripKnown' /\ \A u \in Ticks : Steady(u)'
  BY DEF TripInv, Clear
<1>1. \A u \in Ticks : work'[u].bought = work[u].bought
  BY DEF Aside
<1>2. NoneBelow' /\ OneStarts' /\ TripKnown'
  BY <1>1, TripSame DEF TripInv
<1>3. \A u \in Ticks : Steady(u)'
  BY SteadyKept DEF Clear
<1> QED BY <1>2, <1>3

LEMMA TripLook ==
    ASSUME LInv, SoloInv, TripInv, NEW t \in Ticks,
           ReadBase(t) \/ ReadOpen(t) \/ ReadPosition(t) \/ WriteRate(t) \/ ProposeCooldown(t)
           \/ \E s \in Strategies : ReadRate(t, s)
    PROVE  TripInv'
<1>0. LType /\ Shape(t) /\ RowInv
  BY DEF LInv
<1>1. CASE ReadBase(t)
  <2>1. /\ Recording(t) /\ pc'[t] = "insert" /\ Aside(t)
        /\ work'[t].base = realized[Head(work[t].bought).sym] /\ work'[t].bought = work[t].bought
        /\ UNCHANGED <<portfolio, learning, overlap, blurred>>
    BY <1>0, <1>1, ReadBaseDoes
  <2>2. UNCHANGED <<held, realized, trip, since, lowered, decisions, overlap, blurred>> /\ pc[t] # "idle"
    BY <2>1 DEF portfolio, learning, Recording
  <2>3. Steady(t)'
    BY <2>1, <2>2 DEF Steady
  <2> QED BY <2>1, <2>2, <2>3, TripStill
<1>2. CASE ReadOpen(t)
  <2>1. /\ Recording(t) /\ work[t].bought = <<>> /\ pc'[t] = "resolve" /\ Aside(t) /\ work'[t].bought = <<>>
        /\ UNCHANGED <<portfolio, learning, overlap, blurred>>
    BY <1>0, <1>2, ReadOpenDoes
  <2>2. UNCHANGED <<held, realized, trip, since, lowered, decisions, overlap, blurred>> /\ pc[t] # "idle"
    BY <2>1 DEF portfolio, learning, Recording
  <2>3. Steady(t)'
    BY <2>1 DEF Steady
  <2> QED BY <2>1, <2>2, <2>3, TripStill
<1>3. CASE ReadPosition(t)
  <2> DEFINE ids == Next1(t)
             y == decisions[Min(work[t].open)].sym
             pnl == realized[y] - TripBase(ids)
  <2>1. /\ pc[t] = "resolve" /\ work'[t].bought = work[t].bought /\ Aside(t)
        /\ held[y] => pc'[t] = "resolve"
        /\ ~held[y] => pc'[t] = "outcome"
        /\ UNCHANGED <<portfolio, learning, overlap, blurred>>
    BY <1>0, <1>3, ReadPositionDoes
  <2> HIDE DEF ids, y, pnl
  <2>2. UNCHANGED <<held, realized, trip, since, lowered, decisions, overlap, blurred>> /\ pc[t] # "idle"
    BY <2>1 DEF portfolio, learning
  <2>3. Steady(t)'
    BY <2>1 DEF Steady
  <2> QED BY <2>1, <2>2, <2>3, TripStill
<1>4. CASE WriteRate(t)
  <2>0. pc[t] = "write" /\ Honest(work[t].cur)
    BY <1>0, <1>4 DEF WriteRate, RowInv
  <2>a. PICK s : s = work[t].sid
    OBVIOUS
  <2>1. /\ pc'[t] \in {"propose", "resolve"} /\ Aside(t)
        /\ pc'[t] = "propose" => work'[t].cur = rates'[s] /\ work'[t].sid = s
        /\ work'[t].bought = work[t].bought
        /\ UNCHANGED <<portfolio, decisions, proposals, overlap, blurred>>
    BY <1>0, <1>4, <2>0, <2>a, WriteRateDoes
  <2>2. UNCHANGED <<held, realized, trip, since, lowered, decisions, overlap, blurred>> /\ pc[t] # "idle"
    BY <2>0, <2>1 DEF portfolio
  <2>3. Steady(t)'
    BY <2>1 DEF Steady
  <2> QED BY <2>1, <2>2, <2>3, TripStill
<1>5. CASE ProposeCooldown(t)
  <2>1. /\ pc[t] = "propose" /\ pc'[t] = "resolve" /\ Aside(t) /\ work'[t].bought = work[t].bought
        /\ UNCHANGED <<portfolio, decisions, rates, overlap, blurred>>
    BY <1>0, <1>5, ProposeDoes
  <2>2. UNCHANGED <<held, realized, trip, since, lowered, decisions, overlap, blurred>> /\ pc[t] # "idle"
    BY <2>1 DEF portfolio
  <2>3. Steady(t)'
    BY <2>1 DEF Steady
  <2> QED BY <2>1, <2>2, <2>3, TripStill
<1>6. CASE \E s \in Strategies : ReadRate(t, s)
  <2>0. PICK s \in Strategies : ReadRate(t, s)
    BY <1>6
  <2>1. /\ pc[t] = "resolve" /\ pc'[t] = "write" /\ Aside(t) /\ work'[t].bought = work[t].bought
        /\ UNCHANGED <<portfolio, learning, overlap, blurred>>
    BY <1>0, <2>0, ReadRateDoes
  <2>2. UNCHANGED <<held, realized, trip, since, lowered, decisions, overlap, blurred>> /\ pc[t] # "idle"
    BY <2>1 DEF portfolio, learning
  <2>3. Steady(t)'
    BY <2>1 DEF Steady
  <2> QED BY <2>1, <2>2, <2>3, TripStill
<1> QED BY <1>1, <1>2, <1>3, <1>4, <1>5, <1>6

LEMMA TripRecord ==
    ASSUME LInv, SoloInv, TripInv, NEW t \in Ticks, RecordDecision(t)
    PROVE  TripInv'
<1>0. LType /\ Shape(t)
  BY DEF LInv
<1>a. PICK q : q = work[t].bought
  OBVIOUS
<1>b. PICK b : b = Head(q)
  OBVIOUS
<1>c. PICK m : m = Len(decisions) + 1
  OBVIOUS
<1>1. q # <<>> /\ pc[t] = "insert" /\ q \in Seq(Bought)
  BY <1>0, <1>a DEF Shape, RecordDecision, LType, PType, Works
<1>2. /\ Aside(t) /\ b \in Bought /\ pc'[t] = "record"
      /\ DOMAIN decisions = 1..Len(decisions) /\ Len(decisions) \in Nat
      /\ DOMAIN decisions' = 1..m
      /\ \A i \in DOMAIN decisions : decisions'[i] = decisions[i]
      /\ decisions'[m] = [sym |-> b.sym, strats |-> b.strats, base |-> work[t].base, outcome |-> "open"]
      /\ work'[t].bought = Tail(q)
      /\ UNCHANGED <<portfolio, rates, proposals, overlap, blurred>>
  BY <1>0, <1>1, <1>a, <1>b, <1>c, RecordDecisionDoes
<1>3. UNCHANGED <<held, realized, trip, since, lowered, overlap, blurred>>
  BY <1>2 DEF portfolio
<1> SUFFICES ASSUME Clear PROVE NoneBelow' /\ OneStarts' /\ TripKnown' /\ \A u \in Ticks : Steady(u)'
  BY <1>3 DEF TripInv, Clear
<1>4. NoneBelow /\ OneStarts /\ TripKnown /\ Steady(t) /\ SoloAt(t)
  BY DEF TripInv, SoloInv, Clear
<1>5. /\ \A i \in DOMAIN decisions' : i \in DOMAIN decisions \/ i = m
      /\ DOMAIN decisions \subseteq DOMAIN decisions' /\ m \in DOMAIN decisions'
  BY <1>c, <1>2
<1>6. /\ \A i \in DOMAIN decisions : IsOpen(i)' <=> IsOpen(i)
      /\ decisions'[m].sym = b.sym /\ decisions'[m].strats = b.strats /\ decisions'[m].base = work[t].base
      /\ IsOpen(m)'
  BY <1>2 DEF IsOpen
<1>7. held[b.sym] /\ work[t].base = realized[b.sym] /\ b.sym \in Symbols
  <2>1. 1 \in DOMAIN q /\ b = q[1]
    BY <1>1, <1>b
  <2> QED BY <1>a, <1>b, <1>1, <1>2, <1>4, <2>1 DEF SoloAt, Steady, Bought
<1>10. \A y, s : Booked(y, s)' <=> Booked(y, s) \/ (y = b.sym /\ s \in b.strats)
  <2> TAKE y, s
  <2>1. ASSUME Booked(y, s)' PROVE Booked(y, s) \/ (y = b.sym /\ s \in b.strats)
    <3>1. PICK i \in DOMAIN decisions' : IsOpen(i)' /\ decisions'[i].sym = y /\ s \in decisions'[i].strats
      BY <2>1 DEF Booked
    <3> QED BY <1>2, <1>5, <1>6, <3>1 DEF Booked
  <2>2. ASSUME Booked(y, s) PROVE Booked(y, s)'
    BY <1>2, <1>5, <1>6, <2>2 DEF Booked
  <2>3. ASSUME y = b.sym, s \in b.strats PROVE Booked(y, s)'
    BY <1>5, <1>6, <2>3 DEF Booked
  <2> QED BY <2>1, <2>2, <2>3
<1>11. \A y, s : InHand(y, s) <=> InHand(y, s)' \/ (y = b.sym /\ s \in b.strats)
  <2>a. PICK r : r = Tail(q)
    OBVIOUS
  <2>1. /\ DOMAIN q = 1..Len(q) /\ Len(q) \in Nat /\ Len(q) > 0 /\ b = q[1]
        /\ DOMAIN r = 1..(Len(q) - 1) /\ \A k \in DOMAIN r : r[k] = q[k + 1]
    <3>1. DOMAIN q = 1..Len(q) /\ Len(q) \in Nat /\ Len(q) > 0 /\ b = q[1]
      BY <1>1, <1>b
    <3>2. DOMAIN r = 1..(Len(q) - 1)
      BY <1>1, <2>a
    <3>3. \A k \in DOMAIN r : r[k] = q[k + 1]
      BY <1>1, <2>a, <3>1, <3>2
    <3> QED BY <3>1, <3>2, <3>3
  <2>2. ASSUME NEW y, NEW s
        PROVE  (\E k \in DOMAIN q : q[k].sym = y /\ s \in q[k].strats)
                 <=> (\E k \in DOMAIN r : r[k].sym = y /\ s \in r[k].strats) \/ (y = b.sym /\ s \in b.strats)
    <3>1. ASSUME NEW k \in DOMAIN q, q[k].sym = y, s \in q[k].strats
          PROVE  (\E j \in DOMAIN r : r[j].sym = y /\ s \in r[j].strats) \/ (y = b.sym /\ s \in b.strats)
      <4>1. CASE k = 1
        BY <2>1, <3>1, <4>1
      <4>2. CASE k # 1
        <5>1. k - 1 \in DOMAIN r /\ (k - 1) + 1 = k
          BY <2>1, <4>2
        <5>2. r[k - 1] = q[k]
          BY <2>1, <5>1
        <5> QED BY <3>1, <5>1, <5>2
      <4> QED BY <4>1, <4>2
    <3>2. ASSUME NEW k \in DOMAIN r, r[k].sym = y, s \in r[k].strats
          PROVE  \E j \in DOMAIN q : q[j].sym = y /\ s \in q[j].strats
      <4>1. k + 1 \in DOMAIN q /\ r[k] = q[k + 1]
        BY <2>1
      <4> QED BY <3>2, <4>1
    <3>3. ASSUME y = b.sym, s \in b.strats
          PROVE  \E j \in DOMAIN q : q[j].sym = y /\ s \in q[j].strats
      <4>1. 1 \in DOMAIN q
        BY <2>1
      <4> QED BY <2>1, <3>3, <4>1
    <3> QED BY <3>1, <3>2, <3>3
  <2>3. work'[t].bought = r /\ \A u \in Ticks : u # t => work'[u].bought = work[u].bought
    BY <1>2, <2>a DEF Aside
  <2> TAKE y, s
  <2>4. ASSUME InHand(y, s)' PROVE InHand(y, s)
    <3>1. PICK u \in Ticks : \E k \in DOMAIN work'[u].bought :
              work'[u].bought[k].sym = y /\ s \in work'[u].bought[k].strats
      BY <2>4 DEF InHand
    <3>2. CASE u = t
      <4>1. \E k \in DOMAIN r : r[k].sym = y /\ s \in r[k].strats
        BY <2>3, <3>1, <3>2
      <4>2. \E k \in DOMAIN q : q[k].sym = y /\ s \in q[k].strats
        BY <2>2, <4>1
      <4> QED BY <1>a, <4>2 DEF InHand
    <3>3. CASE u # t
      BY <2>3, <3>1, <3>3 DEF InHand
    <3> QED BY <3>2, <3>3
  <2>5. ASSUME InHand(y, s) PROVE InHand(y, s)' \/ (y = b.sym /\ s \in b.strats)
    <3>1. PICK u \in Ticks : \E k \in DOMAIN work[u].bought :
              work[u].bought[k].sym = y /\ s \in work[u].bought[k].strats
      BY <2>5 DEF InHand
    <3>2. CASE u = t
      <4>1. (\E k \in DOMAIN r : r[k].sym = y /\ s \in r[k].strats) \/ (y = b.sym /\ s \in b.strats)
        <5>1. \E k \in DOMAIN q : q[k].sym = y /\ s \in q[k].strats
          BY <1>a, <3>1, <3>2
        <5> QED BY <2>2, <5>1
      <4> QED BY <2>3, <4>1 DEF InHand
    <3>3. CASE u # t
      BY <2>3, <3>1, <3>3 DEF InHand
    <3> QED BY <3>2, <3>3
  <2>6. ASSUME y = b.sym, s \in b.strats PROVE InHand(y, s)
    BY <1>a, <2>2, <2>6 DEF InHand
  <2> QED BY <2>4, <2>5, <2>6
<1>12. TripKnown'
  BY <1>3, <1>4, <1>10, <1>11 DEF TripKnown
<1>14. \A y \in Symbols : /\ \A i \in OpenOf(y) : i \in OpenOf(y)' /\ decisions'[i].base = decisions[i].base
                          /\ \A i \in OpenOf(y)' : i \in OpenOf(y) \/ (i = m /\ y = b.sym)
  BY <1>2, <1>5, <1>6 DEF OpenOf, IsOpen
<1>15. m \in OpenOf(b.sym)' /\ decisions'[m].base = realized[b.sym]
  BY <1>5, <1>6, <1>7 DEF OpenOf, IsOpen
<1>16. \A y \in Symbols : Fresh(y) <=> Fresh(y)' \/ y = b.sym
  <2>0. b.strats \in Backers
    BY <1>2 DEF Bought
  <2>1. PICK s \in Strategies : s \in b.strats
    BY <2>0, BackersAre
  <2>2. InHand(b.sym, s)
    BY <1>11, <2>1
  <2> QED BY <1>11, <2>1, <2>2 DEF Fresh
<1>8. NoneBelow'
  <2>1. ASSUME NEW y \in Symbols, held[y], ~lowered[y]
        PROVE  /\ \A i \in OpenOf(y)' : decisions'[i].base >= since[y]
               /\ Fresh(y)' => realized[y] >= since[y]
    <3>1. /\ \A i \in OpenOf(y) : decisions[i].base >= since[y]
          /\ Fresh(y) => realized[y] >= since[y]
      BY <1>4, <2>1 DEF NoneBelow
    <3>2. ASSUME NEW i \in OpenOf(y)' PROVE decisions'[i].base >= since[y]
      <4>1. CASE i \in OpenOf(y)
        BY <1>14, <3>1, <4>1
      <4>2. CASE i = m /\ y = b.sym
        BY <1>15, <1>16, <3>1, <4>2
      <4> QED BY <1>14, <4>1, <4>2
    <3> QED BY <1>16, <3>1, <3>2
  <2> QED BY <1>3, <2>1 DEF NoneBelow
<1>9. OneStarts'
  <2>1. ASSUME NEW y \in Symbols, held[y], trip[y] # {}
        PROVE  \/ \E i \in OpenOf(y)' : decisions'[i].base = since[y]
               \/ Fresh(y)' /\ realized[y] = since[y]
    <3>1. CASE \E i \in OpenOf(y) : decisions[i].base = since[y]
      BY <1>14, <3>1
    <3>2. CASE Fresh(y) /\ realized[y] = since[y]
      BY <1>15, <1>16, <3>2
    <3> QED BY <1>4, <2>1, <3>1, <3>2 DEF OneStarts
  <2> QED BY <1>3, <2>1 DEF OneStarts
<1>13. \A u \in Ticks : Steady(u)'
  BY <1>1, <1>2, SteadyKept DEF Steady, Clear
<1> QED BY <1>8, <1>9, <1>12, <1>13

LEMMA TripRecordOutcome ==
    ASSUME LInv, SoloInv, TripInv, NEW t \in Ticks, RecordOutcome(t)
    PROVE  TripInv'
<1>0. LType /\ Shape(t)
  BY DEF LInv
<1>a. PICK i : i = Min(work[t].todo)
  OBVIOUS
<1>1. /\ pc[t] = "outcome" /\ i \in work[t].todo /\ i \in DOMAIN decisions /\ Aside(t)
      /\ DOMAIN decisions' = DOMAIN decisions
      /\ decisions'[i].sym = decisions[i].sym /\ decisions'[i].strats = decisions[i].strats
      /\ decisions'[i].base = decisions[i].base /\ decisions'[i].outcome = "closed"
      /\ \A j \in DOMAIN decisions : j # i => decisions'[j] = decisions[j]
      /\ pc'[t] = (IF work[t].todo \ {i} = {} THEN "resolve" ELSE "outcome")
      /\ work'[t].bought = work[t].bought
      /\ UNCHANGED <<portfolio, rates, proposals, overlap, blurred>>
  BY <1>0, <1>a, RecordOutcomeDoes
<1>2. UNCHANGED <<held, realized, trip, since, lowered, overlap, blurred>> /\ pc'[t] \in {"resolve", "outcome"}
  BY <1>1 DEF portfolio
<1> SUFFICES ASSUME Clear PROVE NoneBelow' /\ OneStarts' /\ TripKnown' /\ \A u \in Ticks : Steady(u)'
  BY <1>2 DEF TripInv, Clear
<1>3. NoneBelow /\ OneStarts /\ TripKnown /\ SoloAt(t)
  BY DEF TripInv, SoloInv, Clear
<1>4. \A j \in DOMAIN decisions :
         /\ IsOpen(j)' <=> IsOpen(j) /\ j # i
         /\ decisions'[j].sym = decisions[j].sym /\ decisions'[j].strats = decisions[j].strats
         /\ decisions'[j].base = decisions[j].base
  BY <1>1 DEF IsOpen
<1>5. ~held[decisions[i].sym]
  BY <1>1, <1>3 DEF SoloAt
<1>7. \A y, s : held[y] => (Booked(y, s)' <=> Booked(y, s))
  BY <1>1, <1>4, <1>5 DEF Booked
<1>8. \A y, s : InHand(y, s)' <=> InHand(y, s)
  <2>1. \A u \in Ticks : work'[u].bought = work[u].bought
    BY <1>1 DEF Aside
  <2> QED BY <2>1 DEF InHand
<1>9. TripKnown'
  BY <1>2, <1>3, <1>7, <1>8 DEF TripKnown
<1>12. \A y \in Symbols : held[y] => OpenOf(y)' = OpenOf(y) /\ \A j \in OpenOf(y) : decisions'[j].base = decisions[j].base
  BY <1>1, <1>4, <1>5 DEF OpenOf, IsOpen
<1>13. \A y : Fresh(y)' <=> Fresh(y)
  BY <1>8 DEF Fresh
<1>14. NoneBelow'
  BY <1>2, <1>3, <1>12, <1>13 DEF NoneBelow
<1>15. OneStarts'
  BY <1>2, <1>3, <1>12, <1>13 DEF OneStarts
<1>10. Steady(t)'
  BY <1>2 DEF Steady
<1>11. \A u \in Ticks : Steady(u)'
  BY <1>1, <1>10, SteadyKept DEF Clear
<1> QED BY <1>9, <1>11, <1>14, <1>15

LEMMA TripInvStep == LInv /\ SoloInv /\ TripInv /\ [LearningNext]_learningVars => TripInv'
<1> SUFFICES ASSUME LInv, SoloInv, TripInv, [LearningNext]_learningVars PROVE TripInv'
  OBVIOUS
<1>0. LType /\ (Clear' => Clear)
  BY ClearBack DEF LInv
<1>1. CASE UNCHANGED learningVars
  <2>1. UNCHANGED <<held, realized, trip, since, lowered, decisions, rates, pc, work, overlap, blurred>>
    BY <1>1 DEF learningVars, portfolio, learning
  <2> SUFFICES ASSUME Clear PROVE NoneBelow' /\ OneStarts' /\ TripKnown' /\ \A u \in Ticks : Steady(u)'
    BY <2>1 DEF TripInv, Clear
  <2>2. NoneBelow' /\ OneStarts' /\ TripKnown'
    BY <2>1, TripSame DEF TripInv
  <2>3. \A u \in Ticks : Steady(u)'
    BY <2>1 DEF TripInv, Steady
  <2> QED BY <2>2, <2>3
<1>2. ASSUME NEW t \in Ticks, Begin(t) \/ EndUnlearned(t) \/ LearnStep(t) \/ Abandon(t)
      PROVE  TripInv'
  BY <1>0, <1>2, TripEnd, TripLook, TripRecord, TripRecordOutcome DEF LearnStep
<1>4. ASSUME NEW t \in Ticks, NEW y \in Symbols,
             (\E pnl \in -1..1 : TickExits(t, y, pnl)) \/ \E ss \in Backers : TickBuys(t, y, ss)
      PROVE  TripInv'
  BY <1>4, TripTrade
<1>6. ASSUME NEW y \in Symbols, ByHand(y)
      PROVE  TripInv'
  BY <1>0, <1>6, TripManual
<1> QED BY <1>1, <1>2, <1>4, <1>6, NextIs

LEMMA TripInvInit == LearningInit => TripInv
<1> SUFFICES ASSUME LearningInit PROVE TripInv
  OBVIOUS
<1>1. /\ \A y \in Symbols : ~held[y]
      /\ \A t \in Ticks : pc[t] = "idle"
  BY DEF LearningInit
<1>2. DOMAIN decisions = {}
  <2>1. decisions = <<>>
    BY DEF LearningInit
  <2> QED BY <2>1
<1>3. NoneBelow /\ OneStarts
  BY <1>1 DEF NoneBelow, OneStarts
<1> QED BY <1>1, <1>3 DEF TripInv, TripKnown, Steady

----------------------------------------------------------------------------
(* Wins and losses, once each. *)

Numbers ==
    \A s \in Strategies :
        /\ rates[s].wins \in Nat /\ rates[s].losses \in Nat
        /\ ended[s].wins \in Nat /\ ended[s].losses \in Nat /\ scaled[s] \in Nat
        /\ \A t \in Ticks :
              /\ work[t].tally[s].wins \in Nat /\ work[t].tally[s].losses \in Nat
              /\ pc[t] = "idle" => work[t].tally[s].wins = 0 /\ work[t].tally[s].losses = 0

LEMMA NumbersNow == LInv => Numbers
<1> SUFFICES ASSUME LInv, NEW s \in Strategies
             PROVE  /\ rates[s].wins \in Nat /\ rates[s].losses \in Nat
                    /\ ended[s].wins \in Nat /\ ended[s].losses \in Nat /\ scaled[s] \in Nat
                    /\ \A t \in Ticks :
                          /\ work[t].tally[s].wins \in Nat /\ work[t].tally[s].losses \in Nat
                          /\ pc[t] = "idle" => work[t].tally[s].wins = 0 /\ work[t].tally[s].losses = 0
  BY DEF Numbers
<1>0. LType /\ \A t \in Ticks : Shape(t)
  BY DEF LInv
<1>1. ended[s] \in Tallies /\ rates[s] \in Rows /\ scaled[s] \in Nat
  BY <1>0 DEF LType, PType
<1>2. ASSUME NEW t \in Ticks
      PROVE  /\ work[t].tally[s].wins \in Nat /\ work[t].tally[s].losses \in Nat
             /\ pc[t] = "idle" => work[t].tally[s].wins = 0 /\ work[t].tally[s].losses = 0
  <2>1. work[t].tally[s].wins \in Nat /\ work[t].tally[s].losses \in Nat
    BY <1>0, ScoredIs
  <2>2. pc[t] = "idle" => work[t].tally = NoTally
    BY <1>0 DEF Shape
  <2> QED BY <2>1, <2>2, NoWorkType
<1> QED BY <1>1, <1>2 DEF Tallies, Rows

LEMMA NumbersNext == LInv' => Numbers'
BY NumbersNow, PTL

\* What is counted, tallied and waiting of s while t is at work.
WonOf(t, s) == rates[s].wins + work[t].tally[s].wins + Cardinality(WinsPending(s))
LostOf(t, s) == rates[s].losses + work[t].tally[s].losses + Cardinality(LossesPending(s))

\* A step that takes won to won1 and lost to lost1 keeps up with the trips that end in it.
Tracks(s, won, won1, lost, lost1) ==
    /\ ended'[s].wins + won <= won1 + ended[s].wins
    /\ won1 + ended[s].wins + scaled[s] <= won + ended'[s].wins + scaled'[s]
    /\ lost1 + ended[s].losses <= lost + ended'[s].losses
    /\ ended'[s].losses + lost + scaled[s] <= ended[s].losses + lost1 + scaled'[s]

LEMMA TotalsNat ==
    ASSUME LInv, NEW t \in Ticks, NEW s \in Strategies
    PROVE  WonOf(t, s) \in Nat /\ LostOf(t, s) \in Nat
<1>1. Sizes /\ Numbers
  BY SizesNow, NumbersNow DEF LInv
<1>2. /\ rates[s].wins \in Nat /\ rates[s].losses \in Nat
      /\ work[t].tally[s].wins \in Nat /\ work[t].tally[s].losses \in Nat
      /\ Cardinality(WinsPending(s)) \in Nat /\ Cardinality(LossesPending(s)) \in Nat
  BY <1>1 DEF Sizes, Numbers
<1> QED BY <1>2 DEF WonOf, LostOf

LEMMA TotalsNext ==
    ASSUME LInv', NEW t \in Ticks, NEW s \in Strategies
    PROVE  WonOf(t, s)' \in Nat /\ LostOf(t, s)' \in Nat
<1>1. Sizes' /\ Numbers'
  BY SizesNext, NumbersNext DEF LInv
<1>2. /\ rates'[s].wins \in Nat /\ rates'[s].losses \in Nat
      /\ work'[t].tally[s].wins \in Nat /\ work'[t].tally[s].losses \in Nat
      /\ Cardinality(WinsPending(s))' \in Nat /\ Cardinality(LossesPending(s))' \in Nat
  BY <1>1 DEF Sizes, Numbers
<1> QED BY <1>2 DEF WonOf, LostOf

LEMMA BetweenKept ==
    ASSUME LInv, LInv', NEW s \in Strategies, NEW won \in Nat, NEW lost \in Nat, Between(s, won, lost),
           NEW won1 \in Nat, NEW lost1 \in Nat, Tracks(s, won, won1, lost, lost1)
    PROVE  /\ ended'[s].wins <= won1 /\ won1 <= ended'[s].wins + scaled'[s]
           /\ lost1 <= ended'[s].losses /\ ended'[s].losses <= lost1 + scaled'[s]
<1> DEFINE d == ended[s].wins
           d1 == ended'[s].wins
           h == ended[s].losses
           h1 == ended'[s].losses
           c == scaled[s]
           c1 == scaled'[s]
<1>1. d \in Nat /\ d1 \in Nat /\ h \in Nat /\ h1 \in Nat /\ c \in Nat /\ c1 \in Nat
  BY NumbersNow, NumbersNext DEF Numbers
<1>2. /\ d <= won /\ won <= d + c /\ lost <= h /\ h <= lost + c
      /\ d1 + won <= won1 + d /\ won1 + d + c <= won + d1 + c1
      /\ lost1 + h <= lost + h1 /\ h1 + lost + c <= h + lost1 + c1
  BY DEF Between, Tracks
<1> HIDE DEF d, d1, h, h1, c, c1
<1>3. d1 <= won1 /\ won1 <= d1 + c1 /\ lost1 <= h1 /\ h1 <= lost1 + c1
  BY <1>1, <1>2
<1> QED BY <1>3 DEF d, d1, h, h1, c, c1

\* The tick at work keeps the signs if what it takes it gives.
LEMMA SignKept ==
    ASSUME LInv, LInv', SoloInv, SignInv, NEW t \in Ticks, pc[t] # "idle", Aside(t), Clear' => Clear,
           Clear' => \A s \in Strategies : Tracks(s, WonOf(t, s), WonOf(t, s)', LostOf(t, s), LostOf(t, s)')
    PROVE  SignInv'
<1> SUFFICES ASSUME Clear', Clear
             PROVE  /\ \A u \in Ticks : pc'[u] # "idle" =>
                          \A s \in Strategies : Signed(s, work[u].tally[s].wins, work[u].tally[s].losses)'
                    /\ (\A u \in Ticks : pc'[u] = "idle") => \A s \in Strategies : Signed(s, 0, 0)'
  BY DEF SignInv
<1>1. Numbers'
  BY NumbersNext
<1>2. \A u \in Ticks : u # t => pc'[u] = "idle"
  BY DEF SoloInv, OneAtWork, Aside, Clear
<1>3. ASSUME NEW s \in Strategies
      PROVE  Between(s, WonOf(t, s), LostOf(t, s))'
  <2>1. Between(s, WonOf(t, s), LostOf(t, s))
    BY DEF SignInv, Signed, WonOf, LostOf
  <2>2. /\ WonOf(t, s) \in Nat /\ LostOf(t, s) \in Nat /\ WonOf(t, s)' \in Nat /\ LostOf(t, s)' \in Nat
    BY TotalsNat, TotalsNext
  <2>3. Tracks(s, WonOf(t, s), WonOf(t, s)', LostOf(t, s), LostOf(t, s)')
    OBVIOUS
  <2>4. /\ ended'[s].wins <= WonOf(t, s)' /\ WonOf(t, s)' <= ended'[s].wins + scaled'[s]
        /\ LostOf(t, s)' <= ended'[s].losses /\ ended'[s].losses <= LostOf(t, s)' + scaled'[s]
    BY <2>1, <2>2, <2>3, BetweenKept
  <2> QED BY <2>4 DEF Between
<1>4. ASSUME NEW u \in Ticks, pc'[u] # "idle", NEW s \in Strategies
      PROVE  Signed(s, work[u].tally[s].wins, work[u].tally[s].losses)'
  <2>1. u = t
    BY <1>2, <1>4
  <2> QED BY <1>3, <2>1 DEF Signed, WonOf, LostOf
<1>5. ASSUME \A u \in Ticks : pc'[u] = "idle", NEW s \in Strategies
      PROVE  Signed(s, 0, 0)'
  <2>1. work'[t].tally[s].wins = 0 /\ work'[t].tally[s].losses = 0
    BY <1>1, <1>5 DEF Numbers
  <2> QED BY <1>3, <2>1 DEF Signed, WonOf, LostOf
<1> QED BY <1>4, <1>5

\* While no trip ends, it is enough that the totals stay.
LEMMA SignBalanced ==
    ASSUME LInv, LInv', SoloInv, SignInv, NEW t \in Ticks, pc[t] # "idle", Aside(t), Clear' => Clear,
           ended' = ended, scaled' = scaled,
           Clear' => \A s \in Strategies : WonOf(t, s)' = WonOf(t, s) /\ LostOf(t, s)' = LostOf(t, s)
    PROVE  SignInv'
<1>1. ASSUME Clear', NEW s \in Strategies
      PROVE  Tracks(s, WonOf(t, s), WonOf(t, s)', LostOf(t, s), LostOf(t, s)')
  <2> DEFINE a == WonOf(t, s)
             e == LostOf(t, s)
             d == ended[s].wins
             h == ended[s].losses
             c == scaled[s]
  <2>1. a \in Nat /\ e \in Nat /\ d \in Nat /\ h \in Nat /\ c \in Nat
    BY TotalsNat, NumbersNow DEF Numbers
  <2>2. WonOf(t, s)' = a /\ LostOf(t, s)' = e /\ ended'[s].wins = d /\ ended'[s].losses = h /\ scaled'[s] = c
    BY <1>1
  <2> HIDE DEF a, e, d, h, c
  <2>3. Tracks(s, a, a, e, e)
    <3>1. ended[s].wins = d /\ ended[s].losses = h /\ scaled[s] = c
      BY DEF d, h, c
    <3> QED BY <2>1, <2>2, <3>1 DEF Tracks
  <2> QED BY <2>2, <2>3 DEF a, e
<1> QED BY <1>1, SignKept

\* A step of it that moves nothing that is counted or waits.
LEMMA SignSame ==
    ASSUME LInv, LInv', SoloInv, SignInv, NEW t \in Ticks, pc[t] # "idle", Aside(t), Clear' => Clear,
           rates' = rates, ended' = ended, scaled' = scaled,
           Clear' => \A s \in Strategies :
              /\ WinsPending(s)' = WinsPending(s) /\ LossesPending(s)' = LossesPending(s)
              /\ work'[t].tally[s].wins = work[t].tally[s].wins
              /\ work'[t].tally[s].losses = work[t].tally[s].losses
    PROVE  SignInv'
<1>1. ASSUME Clear', NEW s \in Strategies
      PROVE  WonOf(t, s)' = WonOf(t, s) /\ LostOf(t, s)' = LostOf(t, s)
  <2>1. /\ Cardinality(WinsPending(s))' = Cardinality(WinsPending(s))
        /\ Cardinality(LossesPending(s))' = Cardinality(LossesPending(s))
    BY <1>1
  <2> QED BY <1>1, <2>1 DEF WonOf, LostOf
<1> QED BY <1>1, SignBalanced

LEMMA WaitsSame ==
    ASSUME UNCHANGED <<held, realized, decisions>>, \A u \in Ticks : work'[u].todo = work[u].todo
    PROVE  \A s \in Strategies : WinsPending(s)' = WinsPending(s) /\ LossesPending(s)' = LossesPending(s)
<1>1. \A i \in DOMAIN decisions : Waiting(i)' <=> Waiting(i)
  BY DEF Waiting, IsOpen
<1>2. \A y, s : \A i \in DOMAIN decisions : Waits(y, s, i)' <=> Waits(y, s, i)
  BY <1>1 DEF Waits
<1>3. \A y : OpenOf(y)' = OpenOf(y)
  BY DEF OpenOf
<1>4. \A y : (Gained(y)' <=> Gained(y)) /\ (Fell(y)' <=> Fell(y))
  BY <1>3 DEF Gained, Fell
<1> QED BY <1>2, <1>4 DEF WinsPending, LossesPending

LEMMA SignStill ==
    ASSUME LInv, LInv', SoloInv, SignInv, NEW t \in Ticks, pc[t] # "idle", Aside(t),
           UNCHANGED <<held, realized, decisions, rates, ended, scaled, overlap, blurred>>,
           work'[t].todo = work[t].todo, work'[t].tally = work[t].tally
    PROVE  SignInv'
<1>1. \A u \in Ticks : work'[u].todo = work[u].todo
  BY DEF Aside
<1>2. Clear' => Clear
  BY DEF Clear
<1> QED BY <1>1, <1>2, WaitsSame, SignSame

\* While nobody else is at work, what is open and not in the tick's own hands waits.
LEMMA OnlyHands ==
    ASSUME LInv, SoloInv, ~overlap, NEW t \in Ticks, pc[t] # "idle"
    PROVE  \A u \in Ticks : u # t => pc[u] = "idle" /\ work[u].todo = {} /\ work[u].bought = <<>>
<1>1. \A u \in Ticks : u # t => pc[u] = "idle"
  BY DEF SoloInv, OneAtWork
<1>2. \A u \in Ticks : pc[u] = "idle" => work[u] = NoWork
  BY DEF LInv, Shape
<1> QED BY <1>1, <1>2, NoWorkType

\* A step that touches one name that does not wait before or after it.
LEMMA WaitsBut ==
    ASSUME NEW y \in Symbols, decisions' = decisions, \A u \in Ticks : work'[u].todo = work[u].todo,
           \A z \in Symbols : z # y => held'[z] = held[z] /\ realized'[z] = realized[z],
           NEW s \in Strategies
    PROVE  \A z \in Symbols : z # y => /\ (z \in WinsPending(s)' <=> z \in WinsPending(s))
                                       /\ (z \in LossesPending(s)' <=> z \in LossesPending(s))
<1>1. \A i \in DOMAIN decisions : Waiting(i)' <=> Waiting(i)
  BY DEF Waiting, IsOpen
<1>2. \A z : \A i \in DOMAIN decisions : Waits(z, s, i)' <=> Waits(z, s, i)
  BY <1>1 DEF Waits
<1>3. \A z : OpenOf(z)' = OpenOf(z)
  BY DEF OpenOf
<1>4. \A z \in Symbols : z # y => (Gained(z)' <=> Gained(z)) /\ (Fell(z)' <=> Fell(z))
  BY <1>3 DEF Gained, Fell
<1> QED BY <1>2, <1>4 DEF WinsPending, LossesPending

LEMMA WaitsAside ==
    ASSUME NEW y \in Symbols, decisions' = decisions, \A u \in Ticks : work'[u].todo = work[u].todo,
           \A z \in Symbols : z # y => held'[z] = held[z] /\ realized'[z] = realized[z],
           held'[y], held[y] \/ OpenOf(y) = {}, NEW s \in Strategies
    PROVE  WinsPending(s)' = WinsPending(s) /\ LossesPending(s)' = LossesPending(s)
<1>1. \A i \in DOMAIN decisions : ~held[y] => ~Waits(y, s, i)
  BY DEF Waits, Waiting, IsOpen, OpenOf
<1>2. y \notin WinsPending(s) /\ y \notin LossesPending(s)
  BY <1>1 DEF WinsPending, LossesPending
<1>3. y \notin WinsPending(s)' /\ y \notin LossesPending(s)'
  BY DEF WinsPending, LossesPending
<1>4. \A z \in Symbols : z # y => /\ (z \in WinsPending(s)' <=> z \in WinsPending(s))
                                  /\ (z \in LossesPending(s)' <=> z \in LossesPending(s))
  BY WaitsBut
<1>5. /\ WinsPending(s) \subseteq Symbols /\ WinsPending(s)' \subseteq Symbols
      /\ LossesPending(s) \subseteq Symbols /\ LossesPending(s)' \subseteq Symbols
  BY DEF WinsPending, LossesPending
<1>6. \A z \in Symbols : z \in WinsPending(s)' <=> z \in WinsPending(s)
  BY <1>2, <1>3, <1>4
<1>7. \A z \in Symbols : z \in LossesPending(s)' <=> z \in LossesPending(s)
  BY <1>2, <1>3, <1>4
<1>8. WinsPending(s)' = WinsPending(s)
  BY <1>5, <1>6
<1>9. LossesPending(s)' = LossesPending(s)
  BY <1>5, <1>7
<1> QED BY <1>8, <1>9

\* A name that goes flat waits with the sign of what its trip has made; a trip that was
\* lowered may wait as more than it was, and never as less.
LEMMA SignGoneFlat ==
    ASSUME LInv, LInv', NoneBelow, OneStarts, TripKnown, NEW y \in Symbols, NEW pnl \in -1..1, GoneFlat(y, pnl),
           decisions' = decisions,
           \A u \in Ticks : work[u].todo = {} /\ work'[u].todo = {},
           \A z : ~Fresh(z) /\ \A r : ~InHand(z, r),
           NEW s \in Strategies
    PROVE  Tracks(s, Cardinality(WinsPending(s)), Cardinality(WinsPending(s))',
                     Cardinality(LossesPending(s)), Cardinality(LossesPending(s))')
<1>0. LType
  BY DEF LInv
<1> DEFINE on == s \in trip[y]
           up == realized'[y] > since[y]
           down == realized'[y] < since[y]
           W == WinsPending(s)
           W1 == WinsPending(s)'
           L == LossesPending(s)
           L1 == LossesPending(s)'
<1>1. /\ held[y] /\ held' = [held EXCEPT ![y] = FALSE] /\ PType'
      /\ \A z \in Symbols \ {y} : realized'[z] = realized[z]
      /\ ended'[s].wins = ended[s].wins + (IF on /\ up THEN 1 ELSE 0)
      /\ ended'[s].losses = ended[s].losses + (IF on /\ down THEN 1 ELSE 0)
      /\ scaled'[s] = scaled[s] + (IF lowered[y] /\ on THEN 1 ELSE 0)
  BY <1>0, GoneFlatDoes
<1>2. /\ ~held'[y] /\ realized'[y] \in Int /\ since[y] \in Int
      /\ \A z \in Symbols : z # y => held'[z] = held[z] /\ realized'[z] = realized[z]
  BY <1>0, <1>1 DEF LType, PType
<1>3. \A i \in DOMAIN decisions : (Waiting(i) <=> IsOpen(i)) /\ (Waiting(i)' <=> IsOpen(i))
  BY DEF Waiting, IsOpen
<1>4. on <=> Booked(y, s)
  BY <1>1 DEF TripKnown
<1>5. OpenOf(y)' = OpenOf(y) /\ \A i \in OpenOf(y) : decisions[i].base \in Int
  BY <1>0, DecisionIs DEF OpenOf
<1>6. y \notin W /\ y \notin L
  BY <1>1 DEF WinsPending, LossesPending
<1>7. \A z \in Symbols : z # y => (z \in W1 <=> z \in W) /\ (z \in L1 <=> z \in L)
  <2>1. \A u \in Ticks : work'[u].todo = work[u].todo
    OBVIOUS
  <2>2. \A z \in Symbols : z # y => /\ (z \in WinsPending(s)' <=> z \in WinsPending(s))
                                    /\ (z \in LossesPending(s)' <=> z \in LossesPending(s))
    BY <1>2, <2>1, WaitsBut
  <2>3. \A z \in Symbols : z # y => (z \in WinsPending(s)' <=> z \in WinsPending(s))
    BY <2>2
  <2>4. \A z \in Symbols : z # y => (z \in LossesPending(s)' <=> z \in LossesPending(s))
    BY <2>2
  <2>5. \A z \in Symbols : z # y => (z \in W1 <=> z \in W)
    BY <2>3
  <2>6. \A z \in Symbols : z # y => (z \in L1 <=> z \in L)
    BY <2>4
  <2> QED BY <2>5, <2>6
<1>8. y \in W1 <=> on /\ Gained(y)'
  <2>1. (\E i \in DOMAIN decisions' : Waits(y, s, i)') <=> Booked(y, s)
    BY <1>3 DEF Waits, Booked
  <2> QED BY <1>2, <1>4, <2>1 DEF WinsPending
<1>9. y \in L1 <=> on /\ Fell(y)'
  <2>1. (\E i \in DOMAIN decisions' : Waits(y, s, i)') <=> Booked(y, s)
    BY <1>3 DEF Waits, Booked
  <2> QED BY <1>2, <1>4, <2>1 DEF LossesPending
<1>10. /\ Gained(y)' <=> \E j \in OpenOf(y) : realized'[y] > decisions[j].base
       /\ Fell(y)' <=> \A j \in OpenOf(y) : realized'[y] < decisions[j].base
  BY <1>5 DEF Gained, Fell
<1>11. on => (up => Gained(y)') /\ (Fell(y)' => down)
  <2> SUFFICES ASSUME on PROVE (up => Gained(y)') /\ (Fell(y)' => down)
    OBVIOUS
  <2>1. PICK i \in OpenOf(y) : decisions[i].base = since[y]
    BY <1>1 DEF OneStarts
  <2> QED BY <1>10, <2>1
<1>12. on /\ ~lowered[y] => (Gained(y)' => up) /\ (down => Fell(y)')
  <2> SUFFICES ASSUME ~lowered[y] PROVE (Gained(y)' => up) /\ (down => Fell(y)')
    OBVIOUS
  <2>1. \A i \in OpenOf(y) : decisions[i].base >= since[y]
    BY <1>1 DEF NoneBelow
  <2> QED BY <1>2, <1>5, <1>10, <2>1
<1>13. W \subseteq Symbols /\ W1 \subseteq Symbols /\ L \subseteq Symbols /\ L1 \subseteq Symbols
  BY DEF WinsPending, LossesPending
<1>14. /\ IsFiniteSet(W) /\ IsFiniteSet(L) /\ Cardinality(W) \in Nat /\ Cardinality(L) \in Nat
       /\ ended[s].wins \in Nat /\ ended[s].losses \in Nat /\ scaled[s] \in Nat
  <2>1. Sizes /\ Numbers
    BY <1>0, SizesNow, NumbersNow
  <2> QED BY <2>1 DEF Sizes, Numbers
<1> DEFINE gained == Gained(y)'
           fell == Fell(y)'
           low == lowered[y]
<1>15. (on /\ up => gained) /\ (on /\ fell => down) /\ (on /\ ~low => (gained => up) /\ (down => fell))
  BY <1>11, <1>12
<1>16. ~(up /\ down)
  BY <1>2
<1> HIDE DEF W, W1, L, L1, on, up, down, gained, fell, low
<1>17. Cardinality(W1) = Cardinality(W) + (IF on /\ gained THEN 1 ELSE 0)
  <2>1. CASE on /\ gained
    <3>1. W1 = W \cup {y}
      BY <1>7, <1>8, <1>13, <2>1 DEF gained
    <3> QED BY <1>6, <1>14, <2>1, <3>1, FS_AddElement
  <2>2. CASE ~(on /\ gained)
    <3>1. y \notin W1
      BY <1>8, <2>2 DEF gained
    <3>2. W1 = W
      BY <1>6, <1>7, <1>13, <3>1
    <3> QED BY <1>14, <2>2, <3>2
  <2> QED BY <2>1, <2>2
<1>18. Cardinality(L1) = Cardinality(L) + (IF on /\ fell THEN 1 ELSE 0)
  <2>1. CASE on /\ fell
    <3>1. L1 = L \cup {y}
      BY <1>7, <1>9, <1>13, <2>1 DEF fell
    <3> QED BY <1>6, <1>14, <2>1, <3>1, FS_AddElement
  <2>2. CASE ~(on /\ fell)
    <3>1. y \notin L1
      BY <1>9, <2>2 DEF fell
    <3>2. L1 = L
      BY <1>6, <1>7, <1>13, <3>1
    <3> QED BY <1>14, <2>2, <3>2
  <2> QED BY <2>1, <2>2
<1> DEFINE w == Cardinality(W)
           w1 == Cardinality(W1)
           l == Cardinality(L)
           l1 == Cardinality(L1)
           d == ended[s].wins
           d1 == ended'[s].wins
           h == ended[s].losses
           h1 == ended'[s].losses
           c == scaled[s]
           c1 == scaled'[s]
<1>19. w \in Nat /\ l \in Nat /\ d \in Nat /\ h \in Nat /\ c \in Nat
  BY <1>14
<1>20. /\ w1 = w + (IF on /\ gained THEN 1 ELSE 0) /\ l1 = l + (IF on /\ fell THEN 1 ELSE 0)
       /\ d1 = d + (IF on /\ up THEN 1 ELSE 0) /\ h1 = h + (IF on /\ down THEN 1 ELSE 0)
       /\ c1 = c + (IF low /\ on THEN 1 ELSE 0)
  BY <1>1, <1>17, <1>18 DEF on, up, down, low
<1> HIDE DEF w, w1, l, l1, d, d1, h, h1, c, c1
<1>21. CASE ~on
  <2>1. w1 = w /\ l1 = l /\ d1 = d /\ h1 = h /\ c1 = c
    BY <1>19, <1>20, <1>21
  <2>2. d1 + w <= w1 + d /\ w1 + d + c <= w + d1 + c1 /\ l1 + h <= l + h1 /\ h1 + l + c <= h + l1 + c1
    BY <1>19, <2>1
  <2> QED BY <2>2 DEF Tracks, w, w1, l, l1, d, d1, h, h1, c, c1, W, W1, L, L1
<1>22. CASE on /\ low
  <2>1. /\ w1 = w + (IF gained THEN 1 ELSE 0) /\ l1 = l + (IF fell THEN 1 ELSE 0)
        /\ d1 = d + (IF up THEN 1 ELSE 0) /\ h1 = h + (IF down THEN 1 ELSE 0) /\ c1 = c + 1
        /\ (up => gained) /\ (fell => down)
    BY <1>15, <1>19, <1>20, <1>22
  <2>2. d1 + w <= w1 + d /\ w1 + d + c <= w + d1 + c1
    BY <1>19, <2>1
  <2>3. l1 + h <= l + h1 /\ h1 + l + c <= h + l1 + c1
    BY <1>19, <2>1
  <2> QED BY <2>2, <2>3 DEF Tracks, w, w1, l, l1, d, d1, h, h1, c, c1, W, W1, L, L1
<1>23. CASE on /\ ~low
  <2>1. /\ w1 = w + (IF up THEN 1 ELSE 0) /\ l1 = l + (IF down THEN 1 ELSE 0)
        /\ d1 = d + (IF up THEN 1 ELSE 0) /\ h1 = h + (IF down THEN 1 ELSE 0) /\ c1 = c
    BY <1>15, <1>19, <1>20, <1>23
  <2>2. d1 + w <= w1 + d /\ w1 + d + c <= w + d1 + c1
    BY <1>19, <2>1
  <2>3. l1 + h <= l + h1 /\ h1 + l + c <= h + l1 + c1
    BY <1>19, <2>1
  <2> QED BY <2>2, <2>3 DEF Tracks, w, w1, l, l1, d, d1, h, h1, c, c1, W, W1, L, L1
<1> QED BY <1>21, <1>22, <1>23

\* So it is with any fill of the sell side: what stays open waits for nothing yet.
LEMMA SignSold ==
    ASSUME LInv, LInv', NoneBelow, OneStarts, TripKnown, NEW y \in Symbols, NEW pnl \in -1..1, Sold(y, pnl),
           decisions' = decisions,
           \A u \in Ticks : work[u].todo = {} /\ work'[u].todo = {},
           \A z : ~Fresh(z) /\ \A r : ~InHand(z, r),
           NEW s \in Strategies
    PROVE  Tracks(s, Cardinality(WinsPending(s)), Cardinality(WinsPending(s))',
                     Cardinality(LossesPending(s)), Cardinality(LossesPending(s))')
<1>0. LType
  BY DEF LInv
<1>1. CASE GoneFlat(y, pnl)
  BY <1>1, SignGoneFlat
<1>2. CASE PartSold(y, pnl)
  <2>1. /\ Realise(y, pnl) /\ UNCHANGED <<held, trip, since, lowered, ended, scaled>>
    BY <1>2 DEF PartSold
  <2>2. held[y] /\ \A x \in Symbols \ {y} : realized'[x] = realized[x]
    BY <1>0, <2>1, RealiseDoes
  <2>3. WinsPending(s)' = WinsPending(s) /\ LossesPending(s)' = LossesPending(s)
    BY <2>1, <2>2, WaitsAside
  <2> DEFINE w == Cardinality(WinsPending(s))
             l == Cardinality(LossesPending(s))
             d == ended[s].wins
             h == ended[s].losses
             c == scaled[s]
  <2>4. w \in Nat /\ l \in Nat /\ d \in Nat /\ h \in Nat /\ c \in Nat
    <3>1. Sizes /\ Numbers
      BY <1>0, SizesNow, NumbersNow
    <3> QED BY <3>1 DEF Sizes, Numbers
  <2>5. /\ Cardinality(WinsPending(s))' = w /\ Cardinality(LossesPending(s))' = l
        /\ ended'[s].wins = d /\ ended'[s].losses = h /\ scaled'[s] = c
    BY <2>1, <2>3
  <2> HIDE DEF w, l, d, h, c
  <2>6. d + w <= w + d /\ w + d + c <= w + d + c /\ l + h <= l + h /\ h + l + c <= h + l + c
    BY <2>4
  <2> QED BY <2>5, <2>6 DEF Tracks, w, l, d, h, c
<1> QED BY <1>1, <1>2 DEF Sold

LEMMA SignTrade ==
    ASSUME LInv, LInv', SoloInv, TripInv, SignInv, NEW t \in Ticks, NEW y \in Symbols, Clear' => Clear,
           \/ \E pnl \in -1..1 : TickExits(t, y, pnl)
           \/ \E ss \in Backers : TickBuys(t, y, ss)
    PROVE  SignInv'
<1>0. LType /\ Shape(t) /\ \A u \in Ticks : Shape(u)
  BY DEF LInv
<1>1. CASE \E pnl \in -1..1 : TickExits(t, y, pnl)
  <2>1. PICK pnl \in -1..1 : TickExits(t, y, pnl)
    BY <1>1
  <2>2. /\ Sold(y, pnl) /\ pc[t] = "trade" /\ work[t].bought = <<>> /\ Aside(t)
        /\ work'[t].todo = work[t].todo /\ work'[t].tally = work[t].tally
        /\ UNCHANGED <<decisions, rates, proposals, overlap, blurred>>
    BY <1>0, <2>1, TickExitsDoes
  <2>3. ASSUME Clear, NEW s \in Strategies
        PROVE  Tracks(s, WonOf(t, s), WonOf(t, s)', LostOf(t, s), LostOf(t, s)')
    <3>1. work[t].todo = {}
      BY <1>0, <2>2 DEF Shape
    <3>2. \A u \in Ticks : u # t => pc[u] = "idle" /\ work[u].todo = {}
      BY <2>2, <2>3, OnlyHands DEF Clear
    <3>3. \A u \in Ticks : work[u].todo = {} /\ work'[u].todo = {}
      BY <2>2, <3>1, <3>2 DEF Aside
    <3>4. NoneBelow /\ OneStarts /\ TripKnown
      BY <2>3 DEF TripInv
    <3>5. \A z : ~Fresh(z) /\ \A r : ~InHand(z, r)
      BY <1>0, <2>2, <3>2, IdleNotFresh
    <3>6. Tracks(s, Cardinality(WinsPending(s)), Cardinality(WinsPending(s))',
                    Cardinality(LossesPending(s)), Cardinality(LossesPending(s))')
      BY <2>2, <3>3, <3>4, <3>5, SignSold
    <3> DEFINE a == rates[s].wins
               b == work[t].tally[s].wins
               c == Cardinality(WinsPending(s))
               c1 == Cardinality(WinsPending(s))'
               d == ended[s].wins
               d1 == ended'[s].wins
               e == rates[s].losses
               f == work[t].tally[s].losses
               g == Cardinality(LossesPending(s))
               g1 == Cardinality(LossesPending(s))'
               h == ended[s].losses
               h1 == ended'[s].losses
               k == scaled[s]
               k1 == scaled'[s]
    <3>7. /\ a \in Nat /\ b \in Nat /\ c \in Nat /\ d \in Nat /\ e \in Nat /\ f \in Nat /\ g \in Nat /\ h \in Nat
          /\ c1 \in Nat /\ d1 \in Nat /\ g1 \in Nat /\ h1 \in Nat /\ k \in Nat /\ k1 \in Nat
      <4>1. Sizes /\ Sizes' /\ Numbers /\ Numbers'
        BY SizesNow, SizesNext, NumbersNow, NumbersNext DEF LInv
      <4> QED BY <4>1 DEF Sizes, Numbers
    <3>8. d1 + c <= c1 + d /\ c1 + d + k <= c + d1 + k1 /\ g1 + h <= g + h1 /\ h1 + g + k <= h + g1 + k1
      BY <3>6 DEF Tracks
    <3>9. /\ WonOf(t, s) = a + b + c /\ WonOf(t, s)' = a + b + c1
          /\ LostOf(t, s) = e + f + g /\ LostOf(t, s)' = e + f + g1
      BY <2>2 DEF WonOf, LostOf
    <3> HIDE DEF a, b, c, c1, d, d1, e, f, g, g1, h, h1, k, k1
    <3>10. /\ d1 + (a + b + c) <= (a + b + c1) + d /\ (a + b + c1) + d + k <= (a + b + c) + d1 + k1
           /\ (e + f + g1) + h <= (e + f + g) + h1 /\ h1 + (e + f + g) + k <= h + (e + f + g1) + k1
      BY <3>7, <3>8
    <3> QED BY <3>9, <3>10 DEF Tracks, d, d1, h, h1, k, k1
  <2> QED BY <2>2, <2>3, SignKept
<1>2. CASE \E ss \in Backers : TickBuys(t, y, ss)
  <2>1. PICK ss \in Backers : TickBuys(t, y, ss)
    BY <1>2
  <2>2. /\ pc[t] = "trade" /\ Aside(t) /\ held' = [held EXCEPT ![y] = TRUE] /\ blurred' = (blurred \/ Merges(y))
        /\ work'[t].todo = work[t].todo /\ work'[t].tally = work[t].tally
        /\ UNCHANGED <<realized, ended, scaled, decisions, rates, proposals, overlap>>
    BY <1>0, <2>1, TickBuysDoes
  <2>3. held'[y] /\ \A z \in Symbols : z # y => held'[z] = held[z]
    BY <1>0, <2>2 DEF LType, PType
  <2>4. \A u \in Ticks : work'[u].todo = work[u].todo
    BY <2>2 DEF Aside
  <2>5. Clear' => held[y] \/ OpenOf(y) = {}
    BY <2>2 DEF Clear, Merges
  <2>6. ASSUME Clear', NEW s \in Strategies
        PROVE  WinsPending(s)' = WinsPending(s) /\ LossesPending(s)' = LossesPending(s)
    BY <2>2, <2>3, <2>4, <2>5, <2>6, WaitsAside
  <2> QED BY <2>2, <2>6, SignSame
<1> QED BY <1>1, <1>2

LEMMA SignEnd ==
    ASSUME LInv, LInv', SoloInv, SignInv, NEW t \in Ticks, Begin(t) \/ EndUnlearned(t) \/ EndRun(t) \/ Abandon(t),
           Clear' => Clear
    PROVE  SignInv'
<1>0. LType /\ Shape(t) /\ \A u \in Ticks : Shape(u)
  BY DEF LInv
<1>1. /\ work'[t] = NoWork /\ Aside(t) /\ pc'[t] \in {"idle", "trade"}
      /\ UNCHANGED <<held, realized, ended, scaled, decisions, rates>>
  BY <1>0, BeginDoes DEF portfolio, learning
<1>2. work'[t].todo = {} /\ \A s \in Strategies : work'[t].tally[s].wins = 0 /\ work'[t].tally[s].losses = 0
  BY <1>1, NoWorkType
<1>3. CASE Abandon(t)
  BY <1>3 DEF Abandon, SignInv, Clear
<1>4. CASE EndUnlearned(t) \/ EndRun(t)
  <2>1. pc[t] \in {"trade", "resolve"}
    BY <1>4 DEF EndUnlearned, EndRun
  <2>2. work[t].todo = {}
    BY <1>0, <2>1 DEF Shape
  <2>3. \A u \in Ticks : work'[u].todo = work[u].todo
    BY <1>1, <1>2, <2>2 DEF Aside
  <2>4. \A s \in Strategies : work[t].tally[s].wins = 0 /\ work[t].tally[s].losses = 0
    <3>1. CASE EndUnlearned(t)
      BY <1>0, <3>1, NoWorkType DEF EndUnlearned, Shape
    <3>2. CASE EndRun(t)
      <4>1. Tallied(t) = {}
        BY <3>2 DEF EndRun
      <4> TAKE s \in Strategies
      <4>2. ~(work[t].tally[s].wins + work[t].tally[s].losses > 0)
        BY <4>1 DEF Tallied
      <4>3. work[t].tally[s].wins \in Nat /\ work[t].tally[s].losses \in Nat
        BY <1>0, ScoredIs
      <4> QED BY <4>2, <4>3
    <3> QED BY <1>4, <3>1, <3>2
  <2> QED BY <1>1, <1>2, <2>1, <2>3, <2>4, WaitsSame, SignSame
<1>5. CASE Begin(t)
  <2>1. overlap' = (overlap \/ Busy)
    BY <1>5 DEF Begin
  <2> SUFFICES ASSUME Clear', Clear
               PROVE  /\ \A u \in Ticks : pc'[u] # "idle" =>
                            \A s \in Strategies : Signed(s, work[u].tally[s].wins, work[u].tally[s].losses)'
                      /\ (\A u \in Ticks : pc'[u] = "idle") => \A s \in Strategies : Signed(s, 0, 0)'
    BY DEF SignInv
  <2>2. \A u \in Ticks : pc[u] = "idle"
    BY <2>1 DEF Clear, Busy
  <2>3. \A u \in Ticks : work[u].todo = {} /\ work'[u].todo = {}
    BY <1>0, <1>1, <1>2, <2>2 DEF Shape, Aside
  <2>4. ASSUME NEW s \in Strategies
        PROVE  Signed(s, 0, 0)'
    <3>1. Signed(s, 0, 0)
      BY <2>2 DEF SignInv
    <3>2. WinsPending(s)' = WinsPending(s) /\ LossesPending(s)' = LossesPending(s)
      BY <1>1, <2>3, WaitsSame
    <3>3. /\ Cardinality(WinsPending(s))' = Cardinality(WinsPending(s))
          /\ Cardinality(LossesPending(s))' = Cardinality(LossesPending(s))
      BY <3>2
    <3> QED BY <1>1, <3>1, <3>3 DEF Signed, Between
  <2>5. \A u \in Ticks : pc'[u] # "idle" => u = t
    BY <1>1, <2>2 DEF Aside
  <2> QED BY <1>2, <2>4, <2>5 DEF Signed
<1> QED BY <1>3, <1>4, <1>5

LEMMA SignManual ==
    ASSUME LInv, LInv', TripInv, SignInv, NEW y \in Symbols, ByHand(y), Clear' => Clear
    PROVE  SignInv'
<1>0. LType /\ \A u \in Ticks : Shape(u)
  BY DEF LInv
<1>1. /\ overlap' = (overlap \/ Busy) /\ UNCHANGED <<pc, work, decisions, rates>>
      /\ \/ /\ held' = [held EXCEPT ![y] = TRUE] /\ blurred' = (blurred \/ Merges(y))
            /\ UNCHANGED <<realized, trip, since, lowered, ended, scaled>>
         \/ \E pnl \in -1..1 : Sold(y, pnl)
  BY <1>0, ByHandDoes DEF learning
<1> SUFFICES ASSUME Clear', Clear
             PROVE  /\ \A u \in Ticks : pc'[u] # "idle" =>
                          \A s \in Strategies : Signed(s, work[u].tally[s].wins, work[u].tally[s].losses)'
                    /\ (\A u \in Ticks : pc'[u] = "idle") => \A s \in Strategies : Signed(s, 0, 0)'
  BY DEF SignInv
<1>2. \A u \in Ticks : pc[u] = "idle" /\ pc'[u] = "idle"
  BY <1>1 DEF Clear, Busy
<1>3. \A u \in Ticks : work[u].todo = {} /\ work'[u].todo = {}
  BY <1>0, <1>1, <1>2, NoWorkType DEF Shape
<1>4. \A z : ~Fresh(z) /\ \A r : ~InHand(z, r)
  BY <1>0, <1>2, IdleNotFresh
<1>5. NoneBelow /\ OneStarts /\ TripKnown
  BY DEF TripInv
<1>6. ASSUME NEW s \in Strategies
      PROVE  Signed(s, 0, 0)'
  <2>1. Signed(s, 0, 0)
    BY <1>2 DEF SignInv
  <2>2. CASE /\ held' = [held EXCEPT ![y] = TRUE] /\ blurred' = (blurred \/ Merges(y))
             /\ UNCHANGED <<realized, trip, since, lowered, ended, scaled>>
    <3>1. held'[y] /\ \A z \in Symbols : z # y => held'[z] = held[z]
      BY <1>0, <2>2 DEF LType, PType
    <3>2. held[y] \/ OpenOf(y) = {}
      BY <2>2 DEF Clear, Merges
    <3>3. WinsPending(s)' = WinsPending(s) /\ LossesPending(s)' = LossesPending(s)
      BY <1>1, <2>2, <3>1, <3>2, WaitsAside
    <3>4. /\ Cardinality(WinsPending(s))' = Cardinality(WinsPending(s))
          /\ Cardinality(LossesPending(s))' = Cardinality(LossesPending(s))
      BY <3>3
    <3> QED BY <1>1, <2>1, <2>2, <3>4 DEF Signed, Between
  <2>3. CASE \E pnl \in -1..1 : Sold(y, pnl)
    <3>1. PICK pnl \in -1..1 : Sold(y, pnl)
      BY <2>3
    <3>2. Tracks(s, Cardinality(WinsPending(s)), Cardinality(WinsPending(s))',
                    Cardinality(LossesPending(s)), Cardinality(LossesPending(s))')
      BY <1>1, <1>3, <1>4, <1>5, <3>1, SignSold
    <3> DEFINE a == rates[s].wins
               c == Cardinality(WinsPending(s))
               c1 == Cardinality(WinsPending(s))'
               d == ended[s].wins
               d1 == ended'[s].wins
               e == rates[s].losses
               g == Cardinality(LossesPending(s))
               g1 == Cardinality(LossesPending(s))'
               h == ended[s].losses
               h1 == ended'[s].losses
               k == scaled[s]
               k1 == scaled'[s]
    <3>3. /\ a \in Nat /\ c \in Nat /\ d \in Nat /\ e \in Nat /\ g \in Nat /\ h \in Nat
          /\ c1 \in Nat /\ d1 \in Nat /\ g1 \in Nat /\ h1 \in Nat /\ k \in Nat /\ k1 \in Nat
      <4>1. Sizes /\ Sizes' /\ Numbers /\ Numbers'
        BY SizesNow, SizesNext, NumbersNow, NumbersNext DEF LInv
      <4> QED BY <4>1 DEF Sizes, Numbers
    <3>4. d1 + c <= c1 + d /\ c1 + d + k <= c + d1 + k1 /\ g1 + h <= g + h1 /\ h1 + g + k <= h + g1 + k1
      BY <3>2 DEF Tracks
    <3>5. d <= a + 0 + c /\ a + 0 + c <= d + k /\ e + 0 + g <= h /\ h <= e + 0 + g + k
      BY <2>1 DEF Signed, Between
    <3>6. rates'[s].wins = a /\ rates'[s].losses = e
      BY <1>1
    <3> HIDE DEF a, c, c1, d, d1, e, g, g1, h, h1, k, k1
    <3>7. d1 <= a + 0 + c1 /\ a + 0 + c1 <= d1 + k1 /\ e + 0 + g1 <= h1 /\ h1 <= e + 0 + g1 + k1
      BY <3>3, <3>4, <3>5
    <3> QED BY <3>6, <3>7 DEF Signed, Between, c1, d1, g1, h1, k1
  <2> QED BY <1>1, <2>2, <2>3
<1> QED BY <1>2, <1>6

LEMMA SignRecord ==
    ASSUME LInv, LInv', SoloInv, SignInv, NEW t \in Ticks, RecordDecision(t), Clear' => Clear
    PROVE  SignInv'
<1>0. LType /\ Shape(t) /\ (~overlap => SoloAt(t))
  BY DEF LInv, SoloInv
<1> DEFINE q == work[t].bought
<1>a. PICK b : b = Head(q)
  OBVIOUS
<1>b. PICK m : m = Len(decisions) + 1
  OBVIOUS
<1>1. q # <<>> /\ pc[t] = "insert"
  BY <1>0 DEF Shape, RecordDecision
<1>2. /\ Aside(t) /\ b \in Bought
      /\ DOMAIN decisions = 1..Len(decisions) /\ Len(decisions) \in Nat
      /\ DOMAIN decisions' = 1..m
      /\ \A i \in DOMAIN decisions : decisions'[i] = decisions[i]
      /\ decisions'[m] = [sym |-> b.sym, strats |-> b.strats, base |-> work[t].base, outcome |-> "open"]
      /\ work'[t].tally = work[t].tally /\ work'[t].todo = work[t].todo
      /\ UNCHANGED <<portfolio, rates, proposals, overlap, blurred>>
  BY <1>0, <1>1, <1>a, <1>b, RecordDecisionDoes
<1>3. UNCHANGED <<held, realized, ended, scaled, rates, overlap>>
  BY <1>2 DEF portfolio
<1>4. \A u \in Ticks : work'[u].todo = work[u].todo
  BY <1>2 DEF Aside
<1>5. /\ \A i \in DOMAIN decisions' : i \in DOMAIN decisions \/ i = m
      /\ DOMAIN decisions \subseteq DOMAIN decisions'
  BY <1>b, <1>2
<1>6. \A i \in DOMAIN decisions : Waiting(i)' <=> Waiting(i)
  BY <1>2, <1>4 DEF Waiting, IsOpen
<1>7. ASSUME Clear
      PROVE  \A s \in Strategies : WinsPending(s)' = WinsPending(s) /\ LossesPending(s)' = LossesPending(s)
  <2>1. held[b.sym]
    <3>1. 1 \in DOMAIN q /\ b = q[1]
      <4>1. q \in Seq(Bought)
        BY <1>0 DEF LType, PType, Works
      <4> QED BY <1>1, <1>a, <4>1
    <3> QED BY <1>0, <1>7, <3>1 DEF SoloAt, Clear
  <2>2. decisions'[m].sym = b.sym
    BY <1>2
  <2>3. ASSUME NEW y, ~held[y], NEW s, NEW i \in DOMAIN decisions', Waits(y, s, i)'
        PROVE  i \in DOMAIN decisions
    <3>1. decisions'[i].sym = y
      BY <2>3 DEF Waits
    <3> QED BY <1>5, <2>1, <2>2, <2>3, <3>1
  <2>4. \A y, s : \A i \in DOMAIN decisions : Waits(y, s, i)' <=> Waits(y, s, i)
    BY <1>2, <1>6 DEF Waits
  <2> TAKE s \in Strategies
  <2>5. ASSUME NEW y \in Symbols, ~held[y]
        PROVE  /\ (\E i \in DOMAIN decisions' : Waits(y, s, i)') <=> (\E i \in DOMAIN decisions : Waits(y, s, i))
               /\ (Gained(y)' <=> Gained(y)) /\ (Fell(y)' <=> Fell(y))
    <3>1. (\E i \in DOMAIN decisions' : Waits(y, s, i)') <=> (\E i \in DOMAIN decisions : Waits(y, s, i))
      BY <1>5, <2>3, <2>4, <2>5
    <3>2. decisions'[m].sym # y
      BY <2>1, <2>2, <2>5
    <3>3. OpenOf(y)' = OpenOf(y)
      BY <1>2, <1>5, <3>2 DEF OpenOf
    <3>4. \A i \in OpenOf(y) : decisions'[i] = decisions[i]
      BY <1>2 DEF OpenOf
    <3>5. (Gained(y)' <=> Gained(y)) /\ (Fell(y)' <=> Fell(y))
      BY <1>3, <3>3, <3>4 DEF Gained, Fell
    <3> QED BY <3>1, <3>5
  <2> QED BY <1>3, <2>5 DEF WinsPending, LossesPending
<1> QED BY <1>1, <1>2, <1>3, <1>7, SignSame

LEMMA SignRecordOutcome ==
    ASSUME LInv, LInv', SoloInv, SignInv, NEW t \in Ticks, RecordOutcome(t), Clear' => Clear
    PROVE  SignInv'
<1>0. LType /\ Shape(t) /\ (~overlap => SoloAt(t))
  BY DEF LInv, SoloInv
<1>a. PICK i : i = Min(work[t].todo)
  OBVIOUS
<1>1. /\ pc[t] = "outcome" /\ i \in work[t].todo /\ i \in DOMAIN decisions /\ Aside(t)
      /\ DOMAIN decisions' = DOMAIN decisions /\ decisions'[i].outcome = "closed"
      /\ \A j \in DOMAIN decisions : j # i => decisions'[j] = decisions[j]
      /\ work'[t].todo = work[t].todo \ {i} /\ work'[t].tally = work[t].tally
      /\ UNCHANGED <<portfolio, rates, proposals, overlap, blurred>>
  BY <1>0, <1>a, RecordOutcomeDoes
<1>2. UNCHANGED <<held, realized, ended, scaled, rates, overlap>>
  BY <1>1 DEF portfolio
<1>3. \A u \in Ticks : u # t => work'[u].todo = work[u].todo
  BY <1>1 DEF Aside
<1>4. ~Waiting(i) /\ ~Waiting(i)'
  BY <1>1 DEF Waiting, IsOpen
<1>5. \A j \in DOMAIN decisions : j # i => (Waiting(j)' <=> Waiting(j))
  BY <1>1, <1>3 DEF Waiting, IsOpen
<1>6. \A y, s : (\E j \in DOMAIN decisions' : Waits(y, s, j)') <=> (\E j \in DOMAIN decisions : Waits(y, s, j))
  BY <1>1, <1>4, <1>5 DEF Waits
<1>7. ASSUME Clear, NEW y, NEW s, \E j \in DOMAIN decisions : Waits(y, s, j)
      PROVE  (Gained(y)' <=> Gained(y)) /\ (Fell(y)' <=> Fell(y))
  <2>1. i \notin OpenOf(y)
    <3> SUFFICES ASSUME i \in OpenOf(y) PROVE FALSE
      OBVIOUS
    <3>1. PICK j \in DOMAIN decisions : Waits(y, s, j)
      BY <1>7
    <3>2. j \notin work[t].todo /\ IsOpen(j) /\ decisions[j].sym = y
      BY <3>1 DEF Waits, Waiting
    <3>3. IsOpen(i) /\ decisions[i].sym = y
      BY DEF OpenOf, IsOpen
    <3> QED BY <1>0, <1>1, <1>7, <3>2, <3>3 DEF SoloAt, Clear
  <2>2. OpenOf(y)' = OpenOf(y)
    BY <1>1, <2>1 DEF OpenOf
  <2>3. \A j \in OpenOf(y) : decisions'[j] = decisions[j]
    BY <1>1, <2>1 DEF OpenOf
  <2> QED BY <1>2, <2>2, <2>3 DEF Gained, Fell
<1>8. ASSUME Clear
      PROVE  \A s \in Strategies : WinsPending(s)' = WinsPending(s) /\ LossesPending(s)' = LossesPending(s)
  BY <1>2, <1>6, <1>7, <1>8 DEF WinsPending, LossesPending
<1> QED BY <1>1, <1>2, <1>8, SignSame

\* A set that loses y, if it had it.
LEMMA OneFewer ==
    ASSUME NEW A, IsFiniteSet(A), NEW y
    PROVE  Cardinality(A \ {y}) + (IF y \in A THEN 1 ELSE 0) = Cardinality(A)
<1>1. /\ Cardinality(A) \in Nat
      /\ Cardinality(A \ {y}) = IF y \in A THEN Cardinality(A) - 1 ELSE Cardinality(A)
  BY FS_RemoveElement, FS_CardinalityType
<1> QED BY <1>1

\* A close that is tallied was waiting, with its own sign.
LEMMA SignReadPosition ==
    ASSUME LInv, LInv', SoloInv, SignInv, NEW t \in Ticks, ReadPosition(t), Clear' => Clear
    PROVE  SignInv'
<1>0. LType /\ Shape(t) /\ (~overlap => SoloAt(t))
  BY DEF LInv, SoloInv
<1>a. PICK ids : ids = Next1(t)
  OBVIOUS
<1>b. PICK y : y = decisions[Min(work[t].open)].sym
  OBVIOUS
<1>c. PICK pnl : pnl = realized[y] - TripBase(ids)
  OBVIOUS
<1>1. /\ pc[t] = "resolve" /\ y \in Symbols /\ ids # {} /\ ids \subseteq work[t].open
      /\ \A i \in work[t].open : i \in ids <=> decisions[i].sym = y
      /\ work[t].todo = {} /\ Aside(t)
      /\ held[y] => work'[t].todo = {} /\ work'[t].tally = work[t].tally
      /\ ~held[y] =>
            /\ work'[t].todo = ids /\ pnl \in Int
            /\ \A s \in Strategies :
                  LET new == (\E i \in ids : s \in decisions[i].strats) IN
                  /\ work'[t].tally[s].wins = work[t].tally[s].wins + (IF new /\ pnl > 0 THEN 1 ELSE 0)
                  /\ work'[t].tally[s].losses = work[t].tally[s].losses + (IF new /\ pnl < 0 THEN 1 ELSE 0)
                  /\ work'[t].tally[s].evens = work[t].tally[s].evens + (IF new /\ pnl = 0 THEN 1 ELSE 0)
      /\ UNCHANGED <<portfolio, learning, overlap, blurred>>
  BY <1>0, <1>a, <1>b, <1>c, ReadPositionDoes
<1>2. UNCHANGED <<held, realized, ended, scaled, rates, overlap, blurred, decisions>> /\ work[t].open \subseteq DOMAIN decisions
  BY <1>0, <1>1 DEF portfolio, learning, Shape
<1>3. CASE held[y]
  BY <1>1, <1>2, <1>3, SignStill
<1>4. CASE ~held[y]
  <2>1. ASSUME Clear, NEW s \in Strategies
        PROVE  WonOf(t, s)' = WonOf(t, s) /\ LostOf(t, s)' = LostOf(t, s)
    <3> DEFINE W == WinsPending(s)
               W1 == WinsPending(s)'
               L == LossesPending(s)
               L1 == LossesPending(s)'
               news == \E i \in ids : s \in decisions[i].strats
    <3>1. Sizes /\ Numbers /\ Sizes' /\ Numbers'
      BY SizesNow, NumbersNow, SizesNext, NumbersNext DEF LInv
    <3>2. \A u \in Ticks : u # t => work[u].todo = {} /\ work'[u].todo = {}
      BY <1>1, <2>1, OnlyHands DEF Aside, Clear
    <3>3. \A i \in DOMAIN decisions : Waiting(i) <=> IsOpen(i)
      BY <1>1, <3>2 DEF Waiting
    <3>4. \A i \in DOMAIN decisions : Waiting(i)' <=> IsOpen(i) /\ i \notin ids
      BY <1>1, <1>2, <1>4, <3>2 DEF Waiting, IsOpen
    <3>5. PICK k \in ids : TripBase(ids) = decisions[k].base
      BY <1>0, <1>1, <1>2, TripBaseIs
    <3>6. k \in DOMAIN decisions /\ k \in work[t].open /\ decisions[k].sym = y /\ IsOpen(k)
      BY <1>0, <1>1, <1>2, <2>1 DEF SoloAt, Clear
    <3>7. \A j \in DOMAIN decisions : IsOpen(j) /\ decisions[j].sym = y <=> j \in ids
      BY <1>0, <1>1, <1>2, <2>1, <3>6 DEF SoloAt, Clear
    <3>8. OpenOf(y) = ids
      <4>1. OpenOf(y) \subseteq DOMAIN decisions /\ ids \subseteq DOMAIN decisions
        BY <1>1, <1>2 DEF OpenOf
      <4>2. \A j \in DOMAIN decisions : j \in OpenOf(y) <=> j \in ids
        BY <3>7 DEF OpenOf, IsOpen
      <4> QED BY <4>1, <4>2
    <3>9. (Gained(y) <=> pnl > 0) /\ (Fell(y) <=> pnl < 0)
      <4>1. /\ realized[y] \in Int /\ TripBase(ids) \in Int
            /\ \A j \in ids : TripBase(ids) <= decisions[j].base /\ decisions[j].base \in Int
        BY <1>0, <1>1, <1>2, TripBaseIs, DecisionIs DEF LType, PType
      <4>2. Gained(y) <=> realized[y] > TripBase(ids)
        BY <3>5, <3>8, <4>1 DEF Gained
      <4>3. Fell(y) <=> realized[y] < TripBase(ids)
        BY <3>5, <3>8, <4>1 DEF Fell
      <4> QED BY <1>c, <4>1, <4>2, <4>3
    <3>a. (\E i \in DOMAIN decisions : Waits(y, s, i)) <=> news
      <4>1. \A i \in DOMAIN decisions : Waits(y, s, i) <=> i \in ids /\ s \in decisions[i].strats
        BY <3>3, <3>7 DEF Waits
      <4>2. ids \subseteq DOMAIN decisions
        BY <1>1, <1>2
      <4> QED BY <4>1, <4>2
    <3>10. y \in W <=> news /\ pnl > 0
      BY <1>1, <1>4, <3>9, <3>a DEF WinsPending
    <3>11. y \in L <=> news /\ pnl < 0
      BY <1>1, <1>4, <3>9, <3>a DEF LossesPending
    <3>12. y \notin W1 /\ y \notin L1
      BY <1>2, <3>4, <3>7 DEF WinsPending, LossesPending, Waits
    <3>13. \A z \in Symbols : z # y => (z \in W1 <=> z \in W) /\ (z \in L1 <=> z \in L)
      <4>1. \A i \in DOMAIN decisions : decisions[i].sym # y => (Waiting(i)' <=> Waiting(i))
        BY <3>3, <3>4, <3>7
      <4>2. \A z, i : z # y /\ i \in DOMAIN decisions => (Waits(z, s, i)' <=> Waits(z, s, i))
        BY <1>2, <4>1 DEF Waits
      <4>3. \A z : (Gained(z)' <=> Gained(z)) /\ (Fell(z)' <=> Fell(z))
        BY <1>2 DEF Gained, Fell, OpenOf
      <4> QED BY <1>2, <4>2, <4>3 DEF WinsPending, LossesPending
    <3>14. /\ W \subseteq Symbols /\ W1 \subseteq Symbols /\ L \subseteq Symbols /\ L1 \subseteq Symbols
           /\ IsFiniteSet(W) /\ IsFiniteSet(L)
      BY <3>1 DEF WinsPending, LossesPending, Sizes
    <3> DEFINE a == work[t].tally[s].wins
               a1 == work'[t].tally[s].wins
               b == work[t].tally[s].losses
               b1 == work'[t].tally[s].losses
               r == rates[s].wins
               q == rates[s].losses
               w == Cardinality(W)
               w1 == Cardinality(W1)
               l == Cardinality(L)
               l1 == Cardinality(L1)
    <3>15. /\ a \in Nat /\ b \in Nat /\ r \in Nat /\ q \in Nat
           /\ w \in Nat /\ w1 \in Nat /\ l \in Nat /\ l1 \in Nat
      BY <3>1 DEF Sizes, Numbers
    <3>16. a1 = a + (IF news /\ pnl > 0 THEN 1 ELSE 0) /\ b1 = b + (IF news /\ pnl < 0 THEN 1 ELSE 0)
      BY <1>1, <1>4
    <3>17. rates'[s].wins = r /\ rates'[s].losses = q
      BY <1>2
    <3> HIDE DEF W, W1, L, L1, news
    <3>18. w1 + (IF y \in W THEN 1 ELSE 0) = w
      <4>1. \A z \in Symbols : z \in W1 <=> z \in W /\ z # y
        BY <3>12, <3>13
      <4>2. W1 = W \ {y} /\ IsFiniteSet(W)
        BY <3>14, <4>1
      <4>3. Cardinality(W \ {y}) + (IF y \in W THEN 1 ELSE 0) = Cardinality(W)
        BY <4>2, OneFewer
      <4> QED BY <4>2, <4>3
    <3>19. l1 + (IF y \in L THEN 1 ELSE 0) = l
      <4>1. \A z \in Symbols : z \in L1 <=> z \in L /\ z # y
        BY <3>12, <3>13
      <4>2. L1 = L \ {y} /\ IsFiniteSet(L)
        BY <3>14, <4>1
      <4>3. Cardinality(L \ {y}) + (IF y \in L THEN 1 ELSE 0) = Cardinality(L)
        BY <4>2, OneFewer
      <4> QED BY <4>2, <4>3
    <3> HIDE DEF a, a1, b, b1, r, q, w, w1, l, l1
    <3>20. r + a1 + w1 = r + a + w
      BY <3>10, <3>15, <3>16, <3>18
    <3>21. q + b1 + l1 = q + b + l
      BY <3>11, <3>15, <3>16, <3>19
    <3> QED BY <3>17, <3>20, <3>21 DEF WonOf, LostOf, a, a1, b, b1, r, q, w, w1, l, l1, W, W1, L, L1
  <2> QED BY <1>1, <1>2, <2>1, SignBalanced
<1> QED BY <1>3, <1>4

\* What was tallied goes into the row.
LEMMA SignWrite ==
    ASSUME LInv, LInv', SoloInv, SignInv, NEW t \in Ticks, WriteRate(t), Clear' => Clear
    PROVE  SignInv'
<1>0. LType /\ Shape(t) /\ RowInv /\ (~overlap => SoloAt(t))
  BY DEF LInv, SoloInv
<1>a. PICK s : s = work[t].sid
  OBVIOUS
<1>b. PICK new : new = work[t].tally[s]
  OBVIOUS
<1>c. PICK cur : cur = work[t].cur
  OBVIOUS
<1>1. pc[t] = "write" /\ Honest(work[t].cur)
  BY <1>0 DEF WriteRate, RowInv
<1>2. /\ s \in Strategies /\ cur \in Rows /\ new \in Tallies
      /\ rates'[s].wins = cur.wins + new.wins /\ rates'[s].losses = cur.losses + new.losses
      /\ \A u \in Strategies \ {s} : rates'[u] = rates[u]
      /\ Aside(t) /\ work'[t].todo = work[t].todo
      /\ work'[t].tally[s].wins = 0 /\ work'[t].tally[s].losses = 0
      /\ \A u \in Strategies \ {s} : work'[t].tally[u] = work[t].tally[u]
      /\ UNCHANGED <<portfolio, decisions, proposals, overlap, blurred>>
  BY <1>0, <1>a, <1>b, <1>c, <1>1, WriteRateDoes
<1>3. UNCHANGED <<held, realized, ended, scaled, decisions>> /\ \A u \in Ticks : work'[u].todo = work[u].todo
  BY <1>2 DEF portfolio, Aside
<1>4. ASSUME Clear, NEW v \in Strategies
      PROVE  WonOf(t, v)' = WonOf(t, v) /\ LostOf(t, v)' = LostOf(t, v)
  <2>1. WinsPending(v)' = WinsPending(v) /\ LossesPending(v)' = LossesPending(v)
    BY <1>3, WaitsSame
  <2>2. /\ rates'[v].wins + work'[t].tally[v].wins = rates[v].wins + work[t].tally[v].wins
        /\ rates'[v].losses + work'[t].tally[v].losses = rates[v].losses + work[t].tally[v].losses
    <3>1. CASE v # s
      BY <1>2, <3>1
    <3>2. CASE v = s
      <4>1. cur = rates[s]
        BY <1>0, <1>a, <1>c, <1>1, <1>4 DEF SoloAt, Clear
      <4>2. new.wins \in Nat /\ new.losses \in Nat /\ cur.wins \in Nat /\ cur.losses \in Nat
        BY <1>2 DEF Tallies, Rows
      <4> QED BY <1>b, <1>2, <3>2, <4>1, <4>2
    <3> QED BY <3>1, <3>2
  <2>3. /\ Cardinality(WinsPending(v))' = Cardinality(WinsPending(v))
        /\ Cardinality(LossesPending(v))' = Cardinality(LossesPending(v))
    BY <2>1
  <2> QED BY <2>2, <2>3 DEF WonOf, LostOf
<1> QED BY <1>1, <1>2, <1>3, <1>4, SignBalanced

LEMMA SignInvStep ==
    LInv /\ LInv' /\ SoloInv /\ TripInv /\ SignInv /\ [LearningNext]_learningVars => SignInv'
<1> SUFFICES ASSUME LInv, LInv', SoloInv, TripInv, SignInv, [LearningNext]_learningVars PROVE SignInv'
  OBVIOUS
<1>0. LType /\ (Clear' => Clear)
  BY ClearBack DEF LInv
<1>1. CASE UNCHANGED learningVars
  <2>1. UNCHANGED <<held, realized, ended, scaled, decisions, rates, pc, work, overlap, blurred>>
    BY <1>1 DEF learningVars, portfolio, learning
  <2>2. \A s \in Strategies : /\ Cardinality(WinsPending(s))' = Cardinality(WinsPending(s))
                              /\ Cardinality(LossesPending(s))' = Cardinality(LossesPending(s))
    BY <2>1, WaitsSame
  <2>4. ASSUME Clear', NEW u \in Ticks, pc'[u] # "idle", NEW s \in Strategies
        PROVE  Signed(s, work[u].tally[s].wins, work[u].tally[s].losses)'
    <3>1. rates'[s] = rates[s] /\ ended'[s] = ended[s] /\ work'[u] = work[u] /\ pc'[u] = pc[u]
      BY <2>1
    <3>2. Signed(s, work[u].tally[s].wins, work[u].tally[s].losses)
      BY <1>0, <2>4, <3>1 DEF SignInv
    <3> QED BY <2>1, <2>2, <3>1, <3>2 DEF Signed, Between
  <2>5. ASSUME Clear', \A u \in Ticks : pc'[u] = "idle", NEW s \in Strategies
        PROVE  Signed(s, 0, 0)'
    <3>1. Signed(s, 0, 0)
      BY <1>0, <2>1, <2>5 DEF SignInv
    <3> QED BY <2>1, <2>2, <3>1 DEF Signed, Between
  <2> QED BY <2>4, <2>5 DEF SignInv
<1>2. ASSUME NEW t \in Ticks,
             Begin(t) \/ EndUnlearned(t) \/ EndRun(t) \/ Abandon(t) \/ RecordDecision(t)
             \/ ReadPosition(t) \/ RecordOutcome(t) \/ WriteRate(t)
      PROVE  SignInv'
  BY <1>0, <1>2, SignEnd, SignRecord, SignReadPosition, SignRecordOutcome, SignWrite
<1>3. ASSUME NEW t \in Ticks, ReadBase(t) \/ ReadOpen(t) \/ ProposeCooldown(t) \/ \E s \in Strategies : ReadRate(t, s)
      PROVE  SignInv'
  <2>0. Shape(t)
    BY DEF LInv
  <2>1. CASE ReadBase(t)
    <3>1. /\ Recording(t) /\ Aside(t) /\ work'[t].tally = work[t].tally /\ work'[t].todo = work[t].todo
          /\ UNCHANGED <<portfolio, learning, overlap, blurred>>
      BY <1>0, <2>1, ReadBaseDoes
    <3> QED BY <3>1, SignStill DEF portfolio, learning, Recording
  <2>2. CASE ReadOpen(t)
    <3>1. /\ Recording(t) /\ Aside(t) /\ work'[t].tally = work[t].tally /\ work'[t].todo = work[t].todo
          /\ UNCHANGED <<portfolio, learning, overlap, blurred>>
      BY <1>0, <2>2, ReadOpenDoes
    <3> QED BY <3>1, SignStill DEF portfolio, learning, Recording
  <2>3. CASE ProposeCooldown(t)
    <3>1. /\ pc[t] = "propose" /\ Aside(t) /\ work'[t].tally = work[t].tally /\ work'[t].todo = work[t].todo
          /\ UNCHANGED <<portfolio, decisions, rates, overlap, blurred>>
      BY <1>0, <2>0, <2>3, ProposeDoes
    <3> QED BY <3>1, SignStill DEF portfolio
  <2>4. CASE \E s \in Strategies : ReadRate(t, s)
    <3>1. PICK s \in Strategies : ReadRate(t, s)
      BY <2>4
    <3>2. /\ pc[t] = "resolve" /\ Aside(t) /\ work'[t].tally = work[t].tally /\ work'[t].todo = work[t].todo
          /\ UNCHANGED <<portfolio, learning, overlap, blurred>>
      BY <1>0, <3>1, ReadRateDoes
    <3> QED BY <3>2, SignStill DEF portfolio, learning
  <2> QED BY <1>3, <2>1, <2>2, <2>3, <2>4
<1>4. ASSUME NEW t \in Ticks, NEW y \in Symbols,
             (\E pnl \in -1..1 : TickExits(t, y, pnl)) \/ \E ss \in Backers : TickBuys(t, y, ss)
      PROVE  SignInv'
  BY <1>0, <1>4, SignTrade
<1>5. ASSUME NEW y \in Symbols, ByHand(y)
      PROVE  SignInv'
  BY <1>0, <1>5, SignManual
<1>6. ASSUME NEW t \in Ticks, LearnStep(t)
      PROVE  SignInv'
  BY <1>2, <1>3, <1>6 DEF LearnStep
<1> QED BY <1>1, <1>2, <1>4, <1>5, <1>6, NextIs

LEMMA SignInvInit == LearningInit => SignInv
<1> SUFFICES ASSUME LearningInit PROVE SignInv
  OBVIOUS
<1>1. \A s \in Strategies :
         /\ rates[s].wins = 0 /\ rates[s].losses = 0 /\ ended[s].wins = 0 /\ ended[s].losses = 0
         /\ scaled[s] = 0
  <2>1. ended = NoTally /\ scaled = [s \in Strategies |-> 0]
    BY DEF LearningInit
  <2>2. \A s \in Strategies : rates[s].wins = 0 /\ rates[s].losses = 0
    BY DEF LearningInit, NoRate
  <2> QED BY <2>1, <2>2, NoWorkType
<1>2. \A s \in Strategies : Signed(s, 0, 0)
  BY <1>1, NothingPending DEF Signed, Between
<1>3. \A t \in Ticks : pc[t] = "idle"
  BY DEF LearningInit
<1> QED BY <1>2, <1>3 DEF SignInv

----------------------------------------------------------------------------
(* A proposal rests on losses, and losses are not forgotten. *)

LEMMA EndedGrows ==
    ASSUME LType, NEW y \in Symbols, NEW pnl \in -1..1, Sold(y, pnl), NEW s \in Strategies
    PROVE  ended'[s].losses \in Nat /\ ended'[s].losses >= ended[s].losses
<1>1. ended[s] \in Tallies
  BY DEF LType, PType
<1>2. ended[s].losses \in Nat
  BY <1>1 DEF Tallies
<1>3. CASE PartSold(y, pnl)
  BY <1>2, <1>3 DEF PartSold
<1>4. CASE GoneFlat(y, pnl)
  <2>1. ended'[s].losses = ended[s].losses + (IF s \in trip[y] /\ realized'[y] < since[y] THEN 1 ELSE 0)
    BY <1>4, GoneFlatDoes
  <2> QED BY <1>2, <2>1
<1> QED BY <1>3, <1>4 DEF Sold

LEMMA EarnedKept ==
    ASSUME LInv, EarnedInv, Clear' => Clear, proposals' = proposals,
           \A s \in Strategies : ended'[s].losses \in Nat /\ ended'[s].losses >= ended[s].losses
    PROVE  EarnedInv'
<1> SUFFICES ASSUME Clear', Clear, NEW p \in proposals PROVE ended'[p.strategy].losses >= p.n - p.wins
  BY DEF EarnedInv
<1>1. p.strategy \in Strategies /\ p.n \in Nat /\ p.wins \in Nat
  BY DEF LInv, LType, PType
<1>2. ended[p.strategy].losses \in Nat
  BY <1>1, NumbersNow DEF Numbers
<1>3. ended[p.strategy].losses >= p.n - p.wins
  BY DEF EarnedInv
<1>4. ended'[p.strategy].losses \in Nat /\ ended'[p.strategy].losses >= ended[p.strategy].losses
  BY <1>1
<1> QED BY <1>1, <1>2, <1>3, <1>4

LEMMA EarnedPropose ==
    ASSUME LInv, TripInv, SignInv, EarnedInv, NEW t \in Ticks, ProposeCooldown(t)
    PROVE  EarnedInv'
<1>0. LType /\ Shape(t) /\ RowInv
  BY DEF LInv
<1>a. PICK s : s = work[t].sid
  OBVIOUS
<1>b. PICK cur : cur = work[t].cur
  OBVIOUS
<1>1. /\ pc[t] = "propose" /\ s \in Strategies
      /\ proposals' = proposals \cup {[strategy |-> s, n |-> cur.n, wins |-> cur.wins]}
      /\ UNCHANGED <<portfolio, overlap, blurred>>
  BY <1>0, <1>a, <1>b, ProposeDoes
<1>2. ended' = ended /\ overlap' = overlap /\ blurred' = blurred
  BY <1>1 DEF portfolio
<1> SUFFICES ASSUME Clear PROVE \A p \in proposals' : ended[p.strategy].losses >= p.n - p.wins
  BY <1>2 DEF EarnedInv, Clear
<1>3. cur = rates[s] /\ Honest(cur)
  BY <1>0, <1>a, <1>b, <1>1 DEF TripInv, Steady, RowInv
<1>4. Signed(s, work[t].tally[s].wins, work[t].tally[s].losses)
  BY <1>1 DEF SignInv
<1> DEFINE q == rates[s].losses
           b == work[t].tally[s].losses
           l == Cardinality(LossesPending(s))
           f == ended[s].losses
<1>5. q \in Nat /\ b \in Nat /\ l \in Nat /\ f \in Nat /\ rates[s].wins \in Nat
  <2>1. Sizes /\ Numbers
    BY <1>0, SizesNow, NumbersNow
  <2> QED BY <1>1, <2>1 DEF Sizes, Numbers
<1>6. q + b + l <= f
  BY <1>4 DEF Signed, Between
<1>7. cur.n = cur.wins + q /\ cur.wins \in Nat
  BY <1>3, <1>5 DEF Honest
<1> HIDE DEF q, b, l, f
<1>8. f >= cur.n - cur.wins
  BY <1>5, <1>6, <1>7
<1>9. ASSUME NEW p \in proposals' PROVE ended[p.strategy].losses >= p.n - p.wins
  <2>1. CASE p \in proposals
    BY <2>1 DEF EarnedInv
  <2>2. CASE p = [strategy |-> s, n |-> cur.n, wins |-> cur.wins]
    BY <1>8, <2>2 DEF f
  <2> QED BY <1>1, <2>1, <2>2
<1> QED BY <1>9

LEMMA EarnedInvStep ==
    LInv /\ TripInv /\ SignInv /\ EarnedInv /\ [LearningNext]_learningVars => EarnedInv'
<1> SUFFICES ASSUME LInv, TripInv, SignInv, EarnedInv, [LearningNext]_learningVars PROVE EarnedInv'
  OBVIOUS
<1>0. LType /\ (Clear' => Clear)
  BY ClearBack DEF LInv
<1>a. \A s \in Strategies : ended[s].losses \in Nat
  BY NumbersNow DEF Numbers
<1>b. UNCHANGED <<ended, proposals>> => EarnedInv'
  <2> SUFFICES ASSUME ended' = ended, proposals' = proposals PROVE EarnedInv'
    OBVIOUS
  <2>1. \A s \in Strategies : ended'[s].losses \in Nat /\ ended'[s].losses >= ended[s].losses
    BY <1>a
  <2> QED BY <1>0, <2>1, EarnedKept
<1>c. \A y \in Symbols, pnl \in -1..1 : Sold(y, pnl) /\ proposals' = proposals => EarnedInv'
  <2> SUFFICES ASSUME NEW y \in Symbols, NEW pnl \in -1..1, Sold(y, pnl), proposals' = proposals
               PROVE  EarnedInv'
    OBVIOUS
  <2>1. \A s \in Strategies : ended'[s].losses \in Nat /\ ended'[s].losses >= ended[s].losses
    BY <1>0, EndedGrows
  <2> QED BY <1>0, <2>1, EarnedKept
<1>1. CASE UNCHANGED learningVars
  BY <1>b, <1>1 DEF learningVars, portfolio, learning
<1>2. ASSUME NEW t \in Ticks, Begin(t) \/ EndUnlearned(t) \/ EndRun(t) \/ Abandon(t)
      PROVE  EarnedInv'
  <2>1. UNCHANGED <<portfolio, learning>>
    BY <1>0, <1>2, BeginDoes
  <2> QED BY <1>b, <2>1 DEF portfolio, learning
<1>3. ASSUME NEW t \in Ticks, LearnStep(t)
      PROVE  EarnedInv'
  <2>1. CASE ReadBase(t) \/ ReadOpen(t) \/ ReadPosition(t) \/ \E s \in Strategies : ReadRate(t, s)
    <3>1. UNCHANGED <<portfolio, learning>>
      BY <2>1 DEF ReadBase, ReadOpen, ReadPosition, ReadRate
    <3> QED BY <1>b, <3>1 DEF portfolio, learning
  <2>2. CASE RecordDecision(t) \/ RecordOutcome(t) \/ WriteRate(t)
    <3>1. UNCHANGED <<portfolio, proposals>>
      BY <2>2 DEF RecordDecision, RecordOutcome, WriteRate
    <3> QED BY <1>b, <3>1 DEF portfolio
  <2>3. CASE ProposeCooldown(t)
    BY <2>3, EarnedPropose
  <2>4. CASE EndRun(t)
    BY <1>2, <2>4
  <2> QED BY <1>3, <2>1, <2>2, <2>3, <2>4 DEF LearnStep
<1>4. ASSUME NEW t \in Ticks, NEW y \in Symbols, NEW pnl \in -1..1, TickExits(t, y, pnl)
      PROVE  EarnedInv'
  <2>1. Sold(y, pnl) /\ proposals' = proposals
    BY <1>4 DEF TickExits, learning
  <2> QED BY <1>c, <2>1
<1>5. ASSUME NEW t \in Ticks, NEW y \in Symbols, NEW ss \in Backers, TickBuys(t, y, ss)
      PROVE  EarnedInv'
  <2>1. UNCHANGED <<ended, proposals>>
    BY <1>5 DEF TickBuys, learning
  <2> QED BY <1>b, <2>1
<1>6. ASSUME NEW y \in Symbols, ByHand(y)
      PROVE  EarnedInv'
  <2>1. proposals' = proposals /\ (ended' = ended \/ \E pnl \in -1..1 : Sold(y, pnl))
    BY <1>0, <1>6, ByHandDoes DEF learning
  <2> QED BY <1>b, <1>c, <2>1
<1>7. ASSUME NEW t \in Ticks, NEW y \in Symbols,
             (\E pnl \in -1..1 : TickExits(t, y, pnl)) \/ \E ss \in Backers : TickBuys(t, y, ss)
      PROVE  EarnedInv'
  BY <1>4, <1>5, <1>7
<1> QED BY <1>1, <1>2, <1>3, <1>6, <1>7, NextIs

----------------------------------------------------------------------------
(* The two properties. *)

AllInv == LInv /\ ShareInv /\ SoloInv /\ CountInv /\ TripInv /\ SignInv /\ EarnedInv

\* Every ledger at once, always.
THEOREM LedgersAlways == LearningSpec => []AllInv
<1>1. LearningInit => AllInv
  <2> SUFFICES ASSUME LearningInit PROVE AllInv
    OBVIOUS
  <2>1. proposals = {}
    BY DEF LearningInit
  <2>2. EarnedInv
    BY <2>1 DEF EarnedInv
  <2> QED BY <2>2, LInvInit, ShareInvInit, SoloInvInit, CountInvInit, TripInvInit, SignInvInit DEF AllInv
<1>2. AllInv /\ [LearningNext]_learningVars => AllInv'
  <2> SUFFICES ASSUME AllInv, [LearningNext]_learningVars PROVE AllInv'
    OBVIOUS
  <2>0. LInv /\ ShareInv /\ SoloInv /\ CountInv /\ TripInv /\ SignInv /\ EarnedInv
    BY DEF AllInv
  <2>1. LInv'
    BY <2>0, LInvStep
  <2>2. ShareInv'
    BY <2>0, <2>1, ShareInvStep
  <2>3. SoloInv'
    BY <2>0, <2>1, SoloInvStep
  <2>4. CountInv'
    BY <2>0, <2>1, CountInvStep
  <2>5. TripInv'
    BY <2>0, TripInvStep
  <2>6. SignInv'
    BY <2>0, <2>1, SignInvStep
  <2>7. EarnedInv'
    BY <2>0, EarnedInvStep
  <2> QED BY <2>1, <2>2, <2>3, <2>4, <2>5, <2>6, <2>7 DEF AllInv
<1> QED BY <1>1, <1>2, PTL DEF LearningSpec

LEMMA LedgersSayHonest == AllInv => RatesAreHonest
<1> SUFFICES ASSUME AllInv PROVE RatesAreHonest
  OBVIOUS
<1>0. LInv /\ ShareInv /\ CountInv /\ EarnedInv
  BY DEF AllInv
<1>1. RateIsHitRate
  BY <1>0, LInvSays
<1>2. AtMostOncePerClose
  <2> SUFFICES ASSUME NEW s \in Strategies
               PROVE  rates[s].n <= IF overlap THEN Cardinality(Ticks) * Cardinality(Resolved(s)) ELSE Outcomes(s)
    BY DEF AtMostOncePerClose
  <2>1. CASE overlap
    BY <1>0, <2>1, ShareSays
  <2>2. CASE ~overlap
    <3> DEFINE n == rates[s].n
               p == Cardinality(Pending(s))
               e == Outcomes(s)
    <3>1. n \in Nat /\ p \in Nat /\ e \in Nat
      BY <1>0, SizesNow, ToldsNow DEF Sizes, Tolds, LInv
    <3>2. n + p <= e
      BY <1>0, <2>2 DEF CountInv
    <3> HIDE DEF n, p, e
    <3>3. n <= e
      BY <3>1, <3>2
    <3> QED BY <2>2, <3>3 DEF n, e
  <2> QED BY <2>1, <2>2
<1>3. ProposalsAreEarned
  BY <1>0 DEF EarnedInv, ProposalsAreEarned, Clear
<1> QED BY <1>1, <1>2, <1>3 DEF RatesAreHonest

LEMMA LedgersSayCounted == AllInv => EveryCloseCounts
<1> SUFFICES ASSUME AllInv, ~overlap, ~blurred, Quiet, NEW s \in Strategies
             PROVE  /\ ended[s].wins <= rates[s].wins /\ rates[s].wins <= ended[s].wins + scaled[s]
                    /\ rates[s].losses <= ended[s].losses /\ ended[s].losses <= rates[s].losses + scaled[s]
  BY DEF EveryCloseCounts
<1>0. LInv /\ SignInv /\ Clear
  BY DEF AllInv, Clear
<1>1. WinsPending(s) = {} /\ LossesPending(s) = {}
  BY DEF Quiet, WinsPending, LossesPending, Waits, Waiting, IsOpen, OpenOf
<1>2. Signed(s, 0, 0)
  BY <1>0 DEF SignInv, Quiet
<1>3. /\ rates[s].wins \in Nat /\ rates[s].losses \in Nat
      /\ ended[s].wins \in Nat /\ ended[s].losses \in Nat /\ scaled[s] \in Nat
  BY <1>0, NumbersNow DEF Numbers
<1> QED BY <1>1, <1>2, <1>3, FS_EmptySet DEF Signed, Between

\* Whatever ticks overlap, crash or raise, and whatever the founder trades by hand, the rate kept
\* for a strategy is the hit rate of its own row, up to rounding; the row never counts more than
\* the closes that happened, or while ticks overlap than each decision once a tick; and a proposal
\* to cool a strategy down rests on as many real losses.
THEOREM RatesHonest == LearningSpec => []RatesAreHonest
BY LedgersAlways, LedgersSayHonest, PTL

\* When no tick overlaps another, nothing bought goes unrecorded, nothing tallied is lost and no name
\* is bought again before its close is resolved, then whenever all is quiet the round trips that won
\* and lost are counted once each with their own sign, through partial sells and fills by hand - but
\* for trips bought into below a realised loss: those that lost may be missing from the losses and
\* stand among the wins. A trip that won is never counted as lost.
THEOREM ClosesCount == LearningSpec => []EveryCloseCounts
BY LedgersAlways, LedgersSayCounted, PTL
=============================================================================
