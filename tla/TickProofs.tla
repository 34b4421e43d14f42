----------------------------- MODULE TickProofs -----------------------------
(***************************************************************************)
(* Theorems about GovernedTick.tla, for any number of tick processes, any  *)
(* names and any limits: the instances TLC checks have two of each.        *)
(*                                                                         *)
(* Shape says what the local state of a run looks like at every place of   *)
(* the tick; what a run may sell, buy and report follows from it.  The     *)
(* bounds on what still happens after a flag, a veto or a freeze all rest  *)
(* on one argument: the fills counted so far and the ticks that can still  *)
(* make one are together no more than the ticks.  The limits on the books  *)
(* are the exception: they hold when one process runs the ticks, and the   *)
(* last section says how far its copy of the books is from the books.      *)
(***************************************************************************)
EXTENDS GovernedTick, NumberLemmas

Places == {"idle", "cash", "positions", "exits", "gate", "fill", "signals", "dca",
           "finish"}

\* Where a run has not chosen what to buy yet.
Early == {"idle", "cash", "positions", "exits", "signals", "dca"}

Fields == {"cash", "worth", "frozen", "marks", "opening", "spent", "leg", "todo", "edge",
           "core", "now", "sold", "bought", "blocked", "refused", "halted"}

\* What the local state k of a run is when the run is at place p.
RunOK(p, k) ==
    /\ DOMAIN k = Fields
    /\ k.todo \subseteq Symbols /\ k.core \subseteq Symbols
    /\ k.leg \in {"exit", "trader", "dca"} /\ k.refused \in BOOLEAN
    /\ p = "fill" => k.now \in Symbols /\ k.now \notin k.todo
    /\ p \in Early => k.leg = "exit"
    /\ k.leg = "exit" => k.bought = {}
    /\ k.refused => k.leg = "exit" /\ p \in {"gate", "fill", "finish"}
    /\ p = "dca" => k.core \cap k.sold = {}
    /\ k.leg # "exit" /\ p \in {"gate", "fill"} =>
          k.todo \cap k.sold = {} /\ k.todo \cap k.bought = {}
    /\ k.leg # "exit" /\ p = "fill" =>
          k.now \notin k.sold /\ k.now \notin k.bought /\ k.now \notin k.frozen
    /\ k.sold \cap k.bought = {}

Shape ==
    /\ pc \in [Ticks -> Places]
    /\ DOMAIN tick = Ticks
    /\ \A t \in Ticks : RunOK(pc[t], tick[t])

\* A process without a run has the shape of every place before the choice.
LEMMA NoRunOK == \A p \in Early : RunOK(p, NoRun)
BY DEF RunOK, NoRun, Fields, Early

Choosing == {"exits", "gate", "fill", "signals", "dca"}

\* What a step of t short of the broker does: it goes to the broker by an open gate
\* only, it is free to buy by the whitelist it has just read or was free before, it
\* is told to buy the core if it was not bought or was told before, and it forgets
\* what it did only by having no run.
Quiet(t) ==
    /\ \A u \in Ticks \ {t} : pc'[u] = pc[u] /\ tick'[u] = tick[u]
    /\ pc'[t] = "fill" => ~halted /\ (Phase >= 1 => tick'[t].now \in approved)
    /\ pc'[t] \in Choosing =>
          \/ tick'[t].frozen = frozen
          \/ pc[t] \in Choosing /\ tick'[t].frozen = tick[t].frozen
    /\ tick'[t].leg = "dca" /\ pc'[t] \in {"gate", "fill"} =>
          \/ pc'[t] = "gate" /\ tick'[t].todo \cap today = {}
          \/ /\ pc[t] = "gate" /\ tick[t].leg = "dca" /\ tick'[t].todo \subseteq tick[t].todo
             /\ pc'[t] = "fill" => tick'[t].now \in tick[t].todo
    /\ \/ tick'[t].sold = tick[t].sold /\ tick'[t].bought = tick[t].bought
       \/ tick'[t] = NoRun /\ (pc'[t] = "idle" \/ (pc[t] = "idle" /\ pc'[t] = "cash"))

\* A step that takes t to a place and a state that fit keeps the shape.
LEMMA GotoShape ==
    ASSUME Shape, NEW t \in Ticks, NEW p \in Places, NEW k, RunOK(p, k), Goto(t, p, k)
    PROVE  /\ Shape' /\ pc'[t] = p /\ tick'[t] = k
           /\ \A u \in Ticks \ {t} : pc'[u] = pc[u] /\ tick'[u] = tick[u]
BY DEF Shape, Goto

\* The steps of a tick keep the shape, one by one: the cash is read,
LEMMA ReadCashShape ==
    ASSUME Shape, NEW t \in Ticks, ReadCash(t) PROVE Shape' /\ Quiet(t)
<1> DEFINE k == [tick[t] EXCEPT !.cash = cash]
<1>1. /\ RunOK("positions", k) /\ "positions" \in Places
      /\ k.sold = tick[t].sold /\ k.bought = tick[t].bought
  BY DEF Shape, ReadCash, RunOK, Fields, Early, Places
<1>2. Goto(t, "positions", k)
  BY DEF ReadCash
<1> HIDE DEF k
<1> QED BY <1>1, <1>2, GotoShape DEF Quiet, Choosing

\* the authority chain lets one proposal through to the broker, or none,
LEMMA GateShape ==
    ASSUME Shape, NEW t \in Ticks, Gate(t) PROVE Shape' /\ Quiet(t)
<1> DEFINE k == tick[t]
<1>1. PICK s \in k.todo :
        LET ok == Allows(k, s) /\ (Phase >= 1 => s \in approved)
        IN  Goto(t, IF ok THEN "fill" ELSE "gate",
                   [k EXCEPT !.todo = @ \ {s}, !.now = IF ok THEN s ELSE NoSymbol,
                             !.blocked = IF k.leg = "exit" /\ ~halted /\ ~Allows(k, s)
                                           THEN @ \cup {s} ELSE @])
  BY DEF Gate
<1> DEFINE ok == Allows(k, s) /\ (Phase >= 1 => s \in approved)
           next == IF ok THEN "fill" ELSE "gate"
           k2 == [k EXCEPT !.todo = @ \ {s}, !.now = IF ok THEN s ELSE NoSymbol,
                             !.blocked = IF k.leg = "exit" /\ ~halted /\ ~Allows(k, s)
                                           THEN @ \cup {s} ELSE @]
<1>2. RunOK("gate", k)
  BY DEF Shape, Gate
<1>3. ok /\ k.leg # "exit" => s \notin k.frozen
  BY <1>2 DEF Allows, AllowsBuy, RunOK
<1>4. /\ RunOK(next, k2) /\ k2.frozen = k.frozen /\ k2.leg = k.leg
      /\ k2.sold = k.sold /\ k2.bought = k.bought /\ k2.todo \subseteq k.todo
      /\ next = "fill" => ok /\ k2.now = s
  <2> DEFINE b == IF k.leg = "exit" /\ ~halted /\ ~Allows(k, s)
                                           THEN k.blocked \cup {s} ELSE k.blocked
             n == IF ok THEN s ELSE NoSymbol
  <2>1. k2 = [k EXCEPT !.todo = k.todo \ {s}, !.now = n, !.blocked = b]
    BY DEF k2
  <2>2. s \in Symbols
    BY <1>2 DEF RunOK
  <2>3. \/ next = "gate"
        \/ next = "fill" /\ n = s /\ ok /\ (k.leg # "exit" => s \notin k.frozen)
    BY <1>3
  <2> HIDE DEF b, n, k2, next, ok
  <2> QED BY <1>2, <2>1, <2>2, <2>3 DEF RunOK, Fields, Early
<1>5. Goto(t, next, k2) /\ next \in {"gate", "fill"} /\ next \in Places
  BY <1>1 DEF Places
<1>6. ok => ~halted /\ (Phase >= 1 => s \in approved)
  BY <1>2 DEF Allows, AllowsBuy, AllowsSell, RunOK
<1>7. pc[t] = "gate"
  BY DEF Gate
<1> HIDE DEF next, k2, ok
<1> QED BY <1>4, <1>5, <1>6, <1>7, GotoShape DEF Quiet, Choosing

\* the positions and the whitelist are read,
LEMMA ReadPositionsShape ==
    ASSUME Shape, NEW t \in Ticks, ReadPositions(t) PROVE Shape' /\ Quiet(t)
<1> DEFINE k == tick[t]
<1>1. PICK marked, opening :
        Goto(t, IF k.sold # {} THEN "signals" ELSE "exits",
             [k EXCEPT !.worth = marked, !.frozen = frozen, !.opening = opening])
  <2> DEFINE again == k.sold # {}
             marked == [s \in Symbols |-> IF value[s] > 0 /\ k.marks[s] > 0 THEN k.marks[s]
                                                                           ELSE value[s]]
             opening == IF again THEN k.opening ELSE FundOf(k.cash, marked)
  <2>1. Goto(t, IF again THEN "signals" ELSE "exits",
             [k EXCEPT !.worth = marked, !.frozen = frozen, !.opening = opening])
    BY DEF ReadPositions
  <2> QED BY <2>1
<1> DEFINE next == IF k.sold # {} THEN "signals" ELSE "exits"
           k2 == [k EXCEPT !.worth = marked, !.frozen = frozen, !.opening = opening]
<1>2. RunOK("positions", k)
  BY DEF Shape, ReadPositions
<1>3. /\ RunOK(next, k2) /\ k2.frozen = frozen /\ k2.leg = "exit"
      /\ k2.sold = k.sold /\ k2.bought = k.bought
  <2>1. next \in {"signals", "exits"}
    OBVIOUS
  <2> HIDE DEF next
  <2> QED BY <1>2, <2>1 DEF RunOK, Fields, Early
<1>4. Goto(t, next, k2) /\ next \in {"signals", "exits"} /\ next \in Places
  BY <1>1 DEF Places
<1> HIDE DEF next, k2
<1> QED BY <1>3, <1>4, GotoShape DEF Quiet, Choosing

\* the exits due are chosen among what is held,
LEMMA BuildExitsShape ==
    ASSUME Shape, NEW t \in Ticks, BuildExits(t) PROVE Shape' /\ Quiet(t)
<1> DEFINE k == tick[t]
           held == {s \in Symbols : shares[s] > 0}
           marks == [s \in Symbols |-> shares[s] * price[s]]
           worth == [s \in Symbols |-> IF s \in held /\ k.worth[s] > 0 THEN marks[s]
                                                                      ELSE k.worth[s]]
<1>1. PICK due \in ExitsDue(k, held) :
        Goto(t, "gate", [k EXCEPT !.marks = marks, !.worth = worth,
                                  !.todo = IF halted THEN {} ELSE due])
  BY DEF BuildExits
<1> HIDE DEF marks, worth
<1> DEFINE todo == IF halted THEN {} ELSE due
           k2 == [k EXCEPT !.marks = marks, !.worth = worth, !.todo = todo]
<1>2. RunOK("exits", k)
  BY DEF Shape, BuildExits
<1>3. todo \subseteq Symbols
  BY DEF ExitsDue
<1>4. /\ RunOK("gate", k2) /\ k2.frozen = k.frozen /\ k2.leg = "exit"
      /\ k2.sold = k.sold /\ k2.bought = k.bought
  <2> HIDE DEF todo
  <2> QED BY <1>2, <1>3 DEF RunOK, Fields, Early
<1>5. Goto(t, "gate", k2) /\ "gate" \in Places /\ pc[t] = "exits"
  BY <1>1 DEF Places, BuildExits
<1> HIDE DEF k2
<1> QED BY <1>4, <1>5, GotoShape DEF Quiet, Choosing

\* The state of a run after the broker refused, sold or bought the name in hand.
RefusedState(k) == [k EXCEPT !.now = NoSymbol, !.refused = @ \/ k.leg = "exit"]
SoldState(k) == [k EXCEPT !.now = NoSymbol, !.sold = @ \cup {k.now}]
BoughtState(k) == [k EXCEPT !.now = NoSymbol, !.bought = @ \cup {k.now},
                            !.spent = @ + Notional]

\* k2 is k with these names added to what was sold and to what was bought.
AsFilled(k, k2, sold, bought) ==
    /\ k2.leg = k.leg /\ k2.todo = k.todo /\ k2.frozen = k.frozen
    /\ k2.sold = k.sold \cup sold /\ k2.bought = k.bought \cup bought

\* Whatever the broker answers, the run goes back to its loop in a state that fits.
LEMMA FillStates ==
    ASSUME NEW k, RunOK("fill", k)
    PROVE  /\ RunOK("gate", RefusedState(k)) /\ AsFilled(k, RefusedState(k), {}, {})
           /\ k.leg = "exit" => /\ RunOK("gate", SoldState(k))
                               /\ AsFilled(k, SoldState(k), {k.now}, {})
           /\ k.leg # "exit" => /\ RunOK("gate", BoughtState(k))
                               /\ AsFilled(k, BoughtState(k), {}, {k.now})
<1>1. RunOK("gate", RefusedState(k)) /\ AsFilled(k, RefusedState(k), {}, {})
  <2> DEFINE r == (k.refused \/ k.leg = "exit")
  <2>1. r \in BOOLEAN /\ (r => k.leg = "exit")
    BY DEF RunOK
  <2>2. RefusedState(k) = [k EXCEPT !.now = NoSymbol, !.refused = r]
    BY DEF RefusedState
  <2> HIDE DEF r
  <2> QED BY <2>1, <2>2 DEF RunOK, AsFilled, Fields, Early
<1>2. ASSUME k.leg = "exit"
      PROVE  RunOK("gate", SoldState(k)) /\ AsFilled(k, SoldState(k), {k.now}, {})
  BY <1>2 DEF SoldState, RunOK, AsFilled, Fields, Early
<1>3. ASSUME k.leg # "exit"
      PROVE  RunOK("gate", BoughtState(k)) /\ AsFilled(k, BoughtState(k), {}, {k.now})
  <2> DEFINE spent == k.spent + Notional
  <2>1. BoughtState(k) = [k EXCEPT !.now = NoSymbol, !.bought = k.bought \cup {k.now},
                                   !.spent = spent]
    BY DEF BoughtState
  <2> HIDE DEF spent
  <2> QED BY <1>3, <2>1 DEF RunOK, AsFilled, Fields, Early
<1> QED BY <1>1, <1>2, <1>3

\* What the broker does to the run of t: it refused, sold or bought the name in hand.
Filling(t) ==
    /\ \A u \in Ticks \ {t} : pc'[u] = pc[u] /\ tick'[u] = tick[u]
    /\ pc[t] = "fill" /\ tick[t].now \in Symbols /\ tick[t].now \notin tick[t].todo
    /\ pc'[t] = "gate" /\ tick'[t].leg = tick[t].leg
    /\ tick'[t].todo = tick[t].todo /\ tick'[t].frozen = tick[t].frozen
    /\ \/ Refuse(t) /\ tick'[t].sold = tick[t].sold /\ tick'[t].bought = tick[t].bought
       \/ /\ Sell(t) /\ tick[t].leg = "exit" /\ tick'[t].bought = tick[t].bought
          /\ tick'[t].sold = tick[t].sold \cup {tick[t].now}
       \/ /\ Buy(t) /\ tick[t].leg # "exit" /\ tick'[t].sold = tick[t].sold
          /\ tick'[t].bought = tick[t].bought \cup {tick[t].now}
          /\ tick[t].now \notin tick[t].bought /\ tick[t].now \notin tick[t].frozen

\* The broker's step is what Filling says, and keeps the shape.
LEMMA FillShape == ASSUME Shape, NEW t \in Ticks, Fill(t) PROVE Shape' /\ Filling(t)
<1> DEFINE k == tick[t]
<1>1. /\ RunOK("fill", k) /\ "gate" \in Places
      /\ pc[t] = "fill" /\ k.now \in Symbols /\ k.now \notin k.todo
      /\ k.leg # "exit" => k.now \notin k.bought /\ k.now \notin k.frozen
  BY DEF Shape, Fill, RunOK, Places
<1>2. CASE Refuse(t)
  <2>1. Goto(t, "gate", RefusedState(k))
    BY <1>2 DEF Refuse, RefusedState
  <2> QED BY <1>1, <1>2, <2>1, FillStates, GotoShape DEF AsFilled, Filling
<1>3. CASE k.leg = "exit" /\ Sell(t)
  <2>1. Goto(t, "gate", SoldState(k))
    BY <1>3 DEF Sell, SoldState
  <2> QED BY <1>1, <1>3, <2>1, FillStates, GotoShape DEF AsFilled, Filling
<1>4. CASE k.leg # "exit" /\ Buy(t)
  <2>1. Goto(t, "gate", BoughtState(k))
    BY <1>4 DEF Buy, BoughtState
  <2> QED BY <1>1, <1>4, <2>1, FillStates, GotoShape DEF AsFilled, Filling
<1> QED BY <1>2, <1>3, <1>4 DEF Fill

\* The end of a leg: after a refused exit the run is over.
LEMMA EndShape ==
    ASSUME Shape, NEW t \in Ticks, EndExits(t) \/ EndBuys(t)
    PROVE  Shape' /\ Quiet(t)
<1>1. CASE EndExits(t)
  <2> DEFINE k == tick[t]
             next == CASE k.refused -> "finish"
                       [] ~k.refused /\ k.sold # {} -> "cash"
                       [] OTHER -> "signals"
  <2>1. RunOK("gate", k) /\ k.leg = "exit"
    BY <1>1 DEF Shape, EndExits
  <2>2. next = "finish" \/ (next \in {"cash", "signals"} /\ ~k.refused)
    BY <2>1 DEF RunOK
  <2>3. RunOK(next, k) /\ next \in Places
    <3> HIDE DEF next
    <3> QED BY <2>1, <2>2 DEF RunOK, Early, Places
  <2>4. Goto(t, next, k) /\ pc[t] = "gate"
    BY <1>1 DEF EndExits
  <2> HIDE DEF next
  <2> QED BY <2>1, <2>2, <2>3, <2>4, GotoShape DEF Quiet, Choosing
<1>2. CASE EndBuys(t)
  <2>1. RunOK("finish", tick[t]) /\ "finish" \in Places
    BY <1>2 DEF Shape, EndBuys, RunOK, Early, Places
  <2> QED BY <1>2, <2>1, GotoShape DEF EndBuys, Quiet, Choosing
<1> QED BY <1>1, <1>2

\* The route: the candidates and the core targets leave out what was sold.
LEMMA RunTickShape ==
    ASSUME Shape, NEW t \in Ticks, RunTick(t) PROVE Shape' /\ Quiet(t)
<1> DEFINE k == tick[t]
<1>0. pc[t] = "signals"
  BY DEF RunTick
<1>1. RunOK("signals", k)
  BY <1>0 DEF Shape
<1>2. CASE halted
  <2> DEFINE k2 == [k EXCEPT !.halted = TRUE]
  <2>1. /\ RunOK("finish", k2) /\ "finish" \in Places
        /\ k2.sold = k.sold /\ k2.bought = k.bought
    BY <1>1 DEF RunOK, Fields, Early, Places
  <2>2. Goto(t, "finish", k2)
    BY <1>2 DEF RunTick
  <2> HIDE DEF k2
  <2> QED BY <2>1, <2>2, GotoShape DEF Quiet, Choosing
<1>3. CASE ~halted
  <2>1. PICK sig \in Signals(Symbols \ k.sold) : Route(t, sig)
    BY <1>3 DEF RunTick
  <2>2. /\ sig.ranked \subseteq Symbols /\ sig.ranked \cap k.sold = {}
        /\ sig.core \subseteq Symbols /\ sig.core \cap k.sold = {}
    BY DEF Signals
  <2> DEFINE trader == [k EXCEPT !.leg = "trader", !.todo = sig.ranked, !.edge = sig.edge]
             dca == [k EXCEPT !.core = sig.core]
  <2>3. /\ RunOK("gate", trader) /\ RunOK("dca", dca) /\ RunOK("finish", k)
        /\ trader.leg = "trader" /\ trader.frozen = k.frozen /\ dca.frozen = k.frozen
        /\ trader.sold = k.sold /\ trader.bought = k.bought
        /\ dca.sold = k.sold /\ dca.bought = k.bought
    BY <1>1, <2>2 DEF RunOK, Fields, Early
  <2>4. \/ Goto(t, "gate", trader) \/ Goto(t, "dca", dca) \/ Goto(t, "finish", k)
    <3> HIDE DEF trader, dca
    <3> QED BY <2>1 DEF Route, trader, dca
  <2> HIDE DEF trader, dca
  <2> QED BY <1>0, <2>3, <2>4, GotoShape DEF Places, Quiet, Choosing
<1> QED BY <1>2, <1>3

\* The core leg starts with the targets outside the cadence window.
LEMMA StartDcaShape ==
    ASSUME Shape, NEW t \in Ticks, StartDca(t) PROVE Shape' /\ Quiet(t)
<1> DEFINE k == tick[t]
           todo == IF halted THEN {} ELSE k.core \ today
           k2 == [k EXCEPT !.leg = "dca", !.todo = todo]
<1>1. RunOK("dca", k) /\ todo \subseteq k.core
  BY DEF Shape, StartDca
<1>2. /\ RunOK("gate", k2) /\ "gate" \in Places /\ k2.frozen = k.frozen
      /\ k2.sold = k.sold /\ k2.bought = k.bought /\ k2.todo \cap today = {}
  <2>1. todo \cap today = {}
    OBVIOUS
  <2> HIDE DEF todo
  <2> QED BY <1>1, <2>1 DEF RunOK, Fields, Early, Places
<1>3. Goto(t, "gate", k2) /\ pc[t] = "dca"
  BY DEF StartDca
<1> HIDE DEF k2
<1> QED BY <1>2, <1>3, GotoShape DEF Quiet, Choosing

\* A run that begins, ends, fails or dies has no state.
LEMMA IdleShape ==
    ASSUME Shape, NEW t \in Ticks, NEW p \in {"idle", "cash"}, Goto(t, p, NoRun),
           p = "idle" \/ pc[t] = "idle"
    PROVE  Shape' /\ Quiet(t)
<1>1. RunOK(p, NoRun) /\ p \in Places
  BY NoRunOK DEF Early, Places
<1> QED BY <1>1, GotoShape DEF Quiet, Choosing

\* A step of the people and the jobs leaves the runs alone.
LEMMA OthersKeepRuns == Founder \/ Jobs => UNCHANGED <<pc, tick, outcome, filled>>
BY DEF Founder, Jobs, Halt, Resume, RequestApproval, Decide, Freeze, Unfreeze, NewClose,
       NewDay, TestStart, TestHalt, TestResume, Move, Unmoved

\* No process has a run at first.
LEMMA ShapeInit == Init => Shape
<1> SUFFICES ASSUME Init PROVE Shape
  OBVIOUS
<1>1. pc = [t \in Ticks |-> "idle"] /\ tick = [t \in Ticks |-> NoRun]
  BY DEF Init, Start
<1>2. RunOK("idle", NoRun)
  BY NoRunOK DEF Early
<1> QED BY <1>1, <1>2 DEF Shape, Places

\* What a step of t short of the broker leaves alone.
Still == UNCHANGED <<frozen, halted, approved, today, late, uses, strays, dcas>>

\* A step of a tick process is one or the other, and keeps the shape.
LEMMA ProcessStep ==
    ASSUME Shape, NEW t \in Ticks, Begin(t) \/ TickStep(t) \/ Raise(t) \/ Crash(t)
    PROVE  Shape' /\ ((Quiet(t) /\ Still) \/ Filling(t))
<1>1. CASE Begin(t) \/ Raise(t) \/ Crash(t) \/ Finish(t)
  <2>1. Still
    BY <1>1 DEF Begin, Raise, Crash, Finish, Local, Still, world, seen, day
  <2> QED BY <1>1, <2>1, IdleShape DEF Begin, Raise, Crash, Finish
<1>2. CASE ReadCash(t) \/ ReadPositions(t) \/ BuildExits(t) \/ Gate(t)
  <2>1. Still
    BY <1>2 DEF ReadCash, ReadPositions, BuildExits, Gate, Local, Still, world, seen, day
  <2> QED BY <1>2, <2>1, ReadCashShape, ReadPositionsShape, BuildExitsShape, GateShape
<1>3. CASE EndExits(t) \/ EndBuys(t) \/ RunTick(t) \/ StartDca(t)
  <2>1. Still
    BY <1>3 DEF EndExits, EndBuys, RunTick, StartDca, Local, Still, world, seen, day
  <2> QED BY <1>3, <2>1, EndShape, RunTickShape, StartDcaShape
<1>4. CASE Fill(t)
  BY <1>4, FillShape
<1> QED BY <1>1, <1>2, <1>3, <1>4 DEF TickStep

\* Every step keeps the shape.
LEMMA ShapeNext == Shape /\ [Next]_vars => Shape'
<1>1. ASSUME Shape, UNCHANGED vars PROVE Shape'
  BY <1>1 DEF Shape, vars
<1>2. ASSUME Shape, Founder \/ Jobs PROVE Shape'
  BY <1>2, OthersKeepRuns DEF Shape
<1> QED BY <1>1, <1>2, ProcessStep DEF Next

\* The local state of every run has the shape its place asks for.
THEOREM RunShape == Spec => []Shape
BY ShapeInit, ShapeNext, PTL DEF Spec

\* What a tick sells it does not buy back in the same tick: the names sold are no
\* candidates of the strategies nor targets of the core.
THEOREM TicksDoNotChurn == Spec => []NoChurn
<1>1. Shape => NoChurn
  BY DEF Shape, RunOK, NoChurn
<1> QED BY <1>1, RunShape, PTL

\* After an exit the broker refused, the run adds no risk: it is over when its exits
\* are.
THEOREM BrokenExitEndsRun == Spec => []NoRiskOnBrokenExit
<1>1. Shape => NoRiskOnBrokenExit
  BY DEF Shape, RunOK, NoRiskOnBrokenExit
<1> QED BY <1>1, RunShape, PTL

----------------------------------------------------------------------------
\* The runs row tells what the run did: while the run goes on, its state says
\* whether it filled anything, and its row is not graded.
HonestRow(p, k, row, did) ==
    /\ p # "idle" => /\ row \in {"none", "running"}
                     /\ did <=> k.sold # {} \/ k.bought # {}
    /\ row = "complete" => did
    /\ row = "no_action" => ~did

Rows == \A t \in Ticks : HonestRow(pc[t], tick[t], outcome[t], filled[t])

RowsTyped == DOMAIN outcome = Ticks /\ filled \in [Ticks -> BOOLEAN]

HonestInv == Shape /\ RowsTyped /\ Rows

\* A step of a tick process keeps the rows honest.
LEMMA HonestTick ==
    ASSUME HonestInv, NEW t \in Ticks, Begin(t) \/ TickStep(t) \/ Raise(t) \/ Crash(t)
    PROVE  HonestInv'
<1>1. /\ Shape' /\ (Quiet(t) \/ Filling(t)) /\ RowsTyped /\ Rows
      /\ HonestRow(pc[t], tick[t], outcome[t], filled[t])
      /\ \A u \in Ticks \ {t} : pc'[u] = pc[u] /\ tick'[u] = tick[u]
  BY ProcessStep DEF HonestInv, Rows, Quiet, Filling
<1>2. ASSUME \A u \in Ticks \ {t} : outcome'[u] = outcome[u] /\ filled'[u] = filled[u],
             RowsTyped', HonestRow(pc'[t], tick'[t], outcome'[t], filled'[t])
      PROVE  HonestInv'
  BY <1>1, <1>2 DEF HonestInv, Rows
<1>3. CASE Begin(t)
  <2>1. /\ outcome' = [outcome EXCEPT ![t] = "none"] /\ filled' = [filled EXCEPT ![t] = FALSE]
        /\ Goto(t, "cash", NoRun)
    BY <1>3 DEF Begin
  <2>2. tick'[t] = NoRun /\ NoRun.sold = {} /\ NoRun.bought = {}
    BY <2>1 DEF Goto, Shape, HonestInv, NoRun
  <2> QED BY <1>1, <1>2, <2>1, <2>2 DEF RowsTyped, HonestRow
<1>4. CASE Finish(t)
  <2>1. /\ outcome' = [outcome EXCEPT ![t] = Grade(tick[t])] /\ filled' = filled
        /\ pc[t] = "finish" /\ pc'[t] = "idle"
    BY <1>4 DEF Finish, Local, seen, Goto, Shape, HonestInv
  <2>2. /\ Grade(tick[t]) = "complete" => filled[t]
        /\ Grade(tick[t]) = "no_action" => ~filled[t]
    BY <1>1, <2>1 DEF Grade, HonestRow
  <2> QED BY <1>1, <1>2, <2>1, <2>2 DEF RowsTyped, HonestRow
<1>5. CASE Raise(t) \/ Crash(t)
  <2>1. /\ \/ outcome' = outcome
           \/ outcome' = [outcome EXCEPT ![t] = IF @ = "running" THEN "error" ELSE @]
        /\ filled' = filled /\ pc'[t] = "idle"
    BY <1>5 DEF Raise, Crash, Local, seen, Goto, Shape, HonestInv
  <2> QED BY <1>1, <1>2, <2>1 DEF RowsTyped, HonestRow
<1>6. CASE ReadPositions(t)
  <2>1. /\ outcome' = outcome \/ outcome' = [outcome EXCEPT ![t] = "running"]
        /\ filled' = filled /\ pc[t] = "positions" /\ pc'[t] # "idle"
    BY <1>6 DEF ReadPositions, Local, seen, Goto, Shape, HonestInv
  <2>2. tick'[t].sold = tick[t].sold /\ tick'[t].bought = tick[t].bought
    BY <1>1, <2>1 DEF Quiet, Filling
  <2> QED BY <1>1, <1>2, <2>1, <2>2 DEF RowsTyped, HonestRow
<1>7. CASE \/ ReadCash(t) \/ BuildExits(t) \/ Gate(t) \/ EndExits(t) \/ EndBuys(t)
           \/ RunTick(t) \/ StartDca(t)
  <2>1. outcome' = outcome /\ filled' = filled /\ pc[t] # "idle" /\ pc[t] # "fill"
    BY <1>7 DEF ReadCash, BuildExits, Gate, EndExits, EndBuys, RunTick, StartDca, Local, seen
  <2>2. \/ tick'[t].sold = tick[t].sold /\ tick'[t].bought = tick[t].bought
        \/ pc'[t] = "idle"
    BY <1>1, <2>1 DEF Quiet, Filling
  <2> QED BY <1>1, <1>2, <2>1, <2>2 DEF RowsTyped, HonestRow
<1>8. CASE Fill(t)
  <2>1. Filling(t) /\ outcome' = outcome
    BY <1>8, FillShape DEF HonestInv, Filling, Refuse, Sell, Buy, Remember
  <2>2. CASE Refuse(t) /\ tick'[t].sold = tick[t].sold /\ tick'[t].bought = tick[t].bought
    <3>1. filled' = filled
      BY <2>2 DEF Refuse, Local, seen
    <3> QED BY <1>1, <1>2, <2>1, <2>2, <3>1 DEF RowsTyped, HonestRow, Filling
  <2>3. CASE /\ Sell(t) \/ Buy(t)
             /\ \/ tick'[t].sold = tick[t].sold \cup {tick[t].now}
                \/ tick'[t].bought = tick[t].bought \cup {tick[t].now}
    <3>1. filled' = [filled EXCEPT ![t] = TRUE]
      BY <2>3 DEF Sell, Buy, Remember
    <3>2. filled'[t] /\ RowsTyped'
          /\ \A u \in Ticks \ {t} : outcome'[u] = outcome[u] /\ filled'[u] = filled[u]
      BY <1>1, <2>1, <3>1 DEF RowsTyped
    <3>3. tick'[t].sold # {} \/ tick'[t].bought # {}
      BY <2>3
    <3>4. outcome'[t] \in {"none", "running"}
      BY <1>1, <2>1 DEF HonestRow, Filling
    <3> QED BY <1>2, <3>2, <3>3, <3>4 DEF HonestRow
  <2> QED BY <2>1, <2>2, <2>3 DEF Filling
<1> QED BY <1>3, <1>4, <1>5, <1>6, <1>7, <1>8 DEF TickStep

\* So does every other step.
LEMMA HonestNext == HonestInv /\ [Next]_vars => HonestInv'
<1>1. ASSUME HonestInv, UNCHANGED vars PROVE HonestInv'
  <2>1. UNCHANGED <<pc, tick, outcome, filled>>
    BY <1>1 DEF vars
  <2> QED BY <1>1, <2>1 DEF HonestInv, Shape, RowsTyped, Rows
<1>2. ASSUME HonestInv, Founder \/ Jobs PROVE HonestInv'
  <2>1. UNCHANGED <<pc, tick, outcome, filled>>
    BY <1>2, OthersKeepRuns
  <2> QED BY <1>2, <2>1 DEF HonestInv, Shape, RowsTyped, Rows
<1> QED BY <1>1, <1>2, HonestTick DEF Next

\* A run that counts towards live readiness has filled something, and a run that says
\* it did nothing has filled nothing.
THEOREM RowsAreHonest == Spec => []OutcomeIsHonest
<1>1. Init => HonestInv
  <2>1. ASSUME Init PROVE RowsTyped /\ Rows
    BY <2>1 DEF Init, Start, RowsTyped, Rows, HonestRow
  <2> QED BY <2>1, ShapeInit DEF HonestInv
<1>2. HonestInv => OutcomeIsHonest
  BY DEF HonestInv, Rows, HonestRow, OutcomeIsHonest
<1> QED BY <1>1, <1>2, HonestNext, PTL DEF Spec

----------------------------------------------------------------------------
\* What is still to come after a flag, a veto, a freeze or a purchase.  n counts what
\* has happened since, S is the ticks that may add to it, once each.
Bounded(n, S) == n + Cardinality(S) <= Cardinality(Ticks)

\* When nothing has happened yet, the ticks are bound enough.
LEMMA BoundedFresh == \A S \in SUBSET Ticks : Bounded(0, S)
BY FS_Subset, FS_CardinalityType, TickConstants DEF Bounded

\* Fewer ticks that may add to the count,
LEMMA BoundedLess ==
    ASSUME NEW S \in SUBSET Ticks, NEW S2 \in SUBSET S, NEW n \in Nat, Bounded(n, S)
    PROVE  Bounded(n, S2)
<1>1. IsFiniteSet(S)
  BY FS_Subset, TickConstants
<1>2. Cardinality(S2) <= Cardinality(S) /\ IsFiniteSet(S2)
  BY <1>1, FS_Subset
<1> QED BY <1>1, <1>2, FS_CardinalityType, TickConstants DEF Bounded

\* one that has added to it and may not again,
LEMMA BoundedSpent ==
    ASSUME NEW S \in SUBSET Ticks, NEW t \in S, NEW S2 \in SUBSET (S \ {t}), NEW n \in Nat,
           Bounded(n, S)
    PROVE  Bounded(n + 1, S2)
<1>1. IsFiniteSet(S)
  BY FS_Subset, TickConstants
<1>2. IsFiniteSet(S \ {t}) /\ Cardinality(S \ {t}) = Cardinality(S) - 1
  BY <1>1, FS_RemoveElement
<1>3. Cardinality(S2) <= Cardinality(S \ {t}) /\ IsFiniteSet(S2)
  BY <1>2, FS_Subset
<1> QED BY <1>1, <1>2, <1>3, FS_CardinalityType, TickConstants DEF Bounded

\* and what the bound says of the count itself.
LEMMA BoundedWithin ==
    ASSUME NEW S \in SUBSET Ticks, NEW n \in Nat, Bounded(n, S)
    PROVE  n <= Cardinality(Ticks)
<1>1. IsFiniteSet(S)
  BY FS_Subset, TickConstants
<1> QED BY <1>1, FS_CardinalityType, TickConstants DEF Bounded

\* The ticks whose action is past the gate, and those of them whose action is s.
AtBroker == {t \in Ticks : pc[t] = "fill"}
AtBrokerWith(s) == {t \in Ticks : pc[t] = "fill" /\ tick[t].now = s}

\* The ticks that may still buy s, and those that may still buy it for the core.
MayBuy(s) == {t \in Ticks : /\ pc[t] \in Choosing
                            /\ s \notin tick[t].frozen /\ s \notin tick[t].bought}
MayDca(s) == {t \in Ticks : /\ tick[t].leg = "dca" /\ pc[t] \in {"gate", "fill"}
                            /\ \/ s \in tick[t].todo
                               \/ pc[t] = "fill" /\ tick[t].now = s}

HaltInv == Shape /\ late \in Nat /\ (halted => Bounded(late, AtBroker))

\* The kill switch: once the flag is up, each tick fills at most the one action whose
\* gate it had passed, however many it has left.
THEOREM HaltHolds == Spec => []HaltStopsFills
<1>1. Init => HaltInv
  BY ShapeInit DEF Init, Start, HaltInv
<1>2. HaltInv /\ [Next]_vars => HaltInv'
  <2>1. ASSUME HaltInv, UNCHANGED vars PROVE HaltInv'
    BY <2>1, ShapeNext DEF HaltInv, vars, world, AtBroker, Bounded, Shape
  <2>2. ASSUME HaltInv, Founder \/ Jobs PROVE HaltInv'
    <3>1. Shape' /\ AtBroker' = AtBroker /\ AtBroker \in SUBSET Ticks
      BY <2>2, ShapeNext, OthersKeepRuns DEF HaltInv, Next, AtBroker
    <3>2. \/ halted' = halted /\ late' = late
          \/ halted' /\ late' = (IF halted THEN late ELSE 0)
          \/ ~halted' /\ late' = 0
      BY <2>2 DEF Founder, Jobs, Halt, Resume, RequestApproval, Decide, Freeze, Unfreeze,
                  NewClose, NewDay, TestStart, TestHalt, TestResume, TestStep
    <3> QED BY <2>2, <3>1, <3>2, BoundedFresh DEF HaltInv, Bounded
  <2>3. ASSUME HaltInv, NEW t \in Ticks, Begin(t) \/ TickStep(t) \/ Raise(t) \/ Crash(t)
        PROVE  HaltInv'
    <3>1. Shape' /\ ((Quiet(t) /\ Still) \/ Filling(t)) /\ AtBroker \in SUBSET Ticks
      BY <2>3, ProcessStep DEF HaltInv, AtBroker
    <3>2. CASE Quiet(t) /\ Still
      <4>1. halted' = halted /\ late' = late
        BY <3>2 DEF Still
      <4>2. halted => AtBroker' \subseteq AtBroker
        BY <3>2 DEF AtBroker, Quiet
      <4> QED BY <2>3, <3>1, <4>1, <4>2, BoundedLess DEF HaltInv, Bounded
    <3>3. CASE Filling(t)
      <4>1. t \in AtBroker /\ AtBroker' \subseteq AtBroker \ {t}
        BY <3>3 DEF AtBroker, Filling
      <4>2. halted' = halted /\ (late' = late \/ late' = IF halted THEN late + 1 ELSE late)
        BY <3>3 DEF Filling, Refuse, Sell, Buy, Remember, Local, world, seen
      <4> QED BY <2>3, <3>1, <4>1, <4>2, BoundedLess, BoundedSpent DEF HaltInv, Bounded
    <3> QED BY <3>1, <3>2, <3>3
  <2> QED BY <2>1, <2>2, <2>3 DEF Next
<1>3. HaltInv => HaltStopsFills
  <2>1. AtBroker \in SUBSET Ticks
    BY DEF AtBroker
  <2> QED BY <2>1, BoundedWithin DEF HaltInv, HaltStopsFills
<1> QED BY <1>1, <1>2, <1>3, PTL DEF Spec

VetoInv ==
    /\ Shape /\ uses \in [Symbols -> Nat]
    /\ Phase >= 1 => \A s \in Symbols : s \notin approved => Bounded(uses[s], AtBrokerWith(s))

\* A withdrawn approval: as many fills of the name can follow as there are ticks that
\* had just been told yes.
THEOREM VetoHolds == Spec => []VetoStopsFills
<1>1. Init => VetoInv
  <2>1. ASSUME Init PROVE uses \in [Symbols -> Nat] /\ (Phase >= 1 => approved = Symbols)
    BY <2>1 DEF Init, Start, Zero
  <2> QED BY <2>1, ShapeInit DEF VetoInv
<1>2. VetoInv /\ [Next]_vars => VetoInv'
  <2>0. \A s : AtBrokerWith(s) \in SUBSET Ticks
    BY DEF AtBrokerWith
  <2>1. ASSUME VetoInv, UNCHANGED vars PROVE VetoInv'
    BY <2>1 DEF VetoInv, Shape, vars, world, AtBrokerWith, Bounded
  <2>2. ASSUME VetoInv, Founder \/ Jobs PROVE VetoInv'
    <3>1. Shape' /\ \A s : AtBrokerWith(s)' = AtBrokerWith(s)
      BY <2>2, ShapeNext, OthersKeepRuns DEF VetoInv, Next, AtBrokerWith
    <3>2. \/ approved' = approved /\ uses' = uses
          \/ \E s \in Symbols : /\ approved' \in {approved \cup {s}, approved \ {s}}
                                /\ uses' = [uses EXCEPT ![s] = 0]
      BY <2>2 DEF Founder, Jobs, Halt, Resume, RequestApproval, Decide, Freeze, Unfreeze,
                  NewClose, NewDay, TestStart, TestHalt, TestResume, TestStep
    <3>3. CASE approved' = approved /\ uses' = uses
      BY <2>2, <3>1, <3>3 DEF VetoInv, Bounded
    <3>4. ASSUME NEW s \in Symbols, approved' \in {approved \cup {s}, approved \ {s}},
                 uses' = [uses EXCEPT ![s] = 0]
          PROVE  VetoInv'
      <4>1. uses' \in [Symbols -> Nat] /\ uses'[s] = 0
        BY <2>2, <3>4 DEF VetoInv
      <4>2. ASSUME Phase >= 1, NEW q \in Symbols, q \notin approved'
            PROVE  Bounded(uses'[q], AtBrokerWith(q))
        <5>1. CASE q = s
          BY <2>0, <4>1, <5>1, BoundedFresh
        <5>2. CASE q # s
          <6>1. q \notin approved /\ uses'[q] = uses[q]
            BY <2>2, <3>4, <4>2, <5>2 DEF VetoInv
          <6> QED BY <2>2, <4>2, <6>1 DEF VetoInv
        <5> QED BY <5>1, <5>2
      <4> QED BY <3>1, <4>1, <4>2 DEF VetoInv, Bounded
    <3> QED BY <3>2, <3>3, <3>4
  <2>3. ASSUME VetoInv, NEW t \in Ticks, Begin(t) \/ TickStep(t) \/ Raise(t) \/ Crash(t)
        PROVE  VetoInv'
    <3>1. Shape' /\ ((Quiet(t) /\ Still) \/ Filling(t))
      BY <2>3, ProcessStep DEF VetoInv
    <3>2. CASE Quiet(t) /\ Still
      <4>1. approved' = approved /\ uses' = uses
        BY <3>2 DEF Still
      <4>2. ASSUME Phase >= 1, NEW q \in Symbols, q \notin approved
            PROVE  Bounded(uses[q], AtBrokerWith(q)')
        <5>1. AtBrokerWith(q)' \subseteq AtBrokerWith(q)
          BY <3>2, <4>2 DEF AtBrokerWith, Quiet
        <5> QED BY <2>0, <2>3, <4>2, <5>1, BoundedLess DEF VetoInv
      <4> QED BY <2>3, <3>1, <4>1, <4>2 DEF VetoInv, Bounded
    <3>3. CASE Filling(t)
      <4> DEFINE s == tick[t].now
      <4>1. /\ s \in Symbols /\ approved' = approved
            /\ uses' = uses \/ uses' = [uses EXCEPT ![s] = @ + 1]
        BY <3>3 DEF Filling, Refuse, Sell, Buy, Remember, Local, world, seen
      <4>2. uses' \in [Symbols -> Nat]
        BY <2>3, <4>1 DEF VetoInv
      <4>3. ASSUME Phase >= 1, NEW q \in Symbols, q \notin approved
            PROVE  Bounded(uses'[q], AtBrokerWith(q)')
        <5>1. AtBrokerWith(q)' \subseteq AtBrokerWith(q) \ {t}
          BY <3>3 DEF AtBrokerWith, Filling
        <5>2. uses[q] \in Nat /\ Bounded(uses[q], AtBrokerWith(q))
          BY <2>3, <4>3 DEF VetoInv
        <5>3. CASE uses'[q] = uses[q]
          BY <2>0, <5>1, <5>2, <5>3, BoundedLess
        <5>4. CASE q = s /\ uses'[q] = uses[q] + 1
          <6>1. t \in AtBrokerWith(q)
            BY <3>3, <5>4 DEF AtBrokerWith, Filling
          <6> QED BY <2>0, <5>1, <5>2, <5>4, <6>1, BoundedSpent
        <5>5. uses'[q] = uses[q] \/ (q = s /\ uses'[q] = uses[q] + 1)
          BY <2>3, <4>1 DEF VetoInv
        <5> QED BY <5>3, <5>4, <5>5
      <4> QED BY <3>1, <4>1, <4>2, <4>3 DEF VetoInv, Bounded
    <3> QED BY <3>1, <3>2, <3>3
  <2> QED BY <2>1, <2>2, <2>3 DEF Next
<1>3. VetoInv => VetoStopsFills
  <2>1. \A s : AtBrokerWith(s) \in SUBSET Ticks
    BY DEF AtBrokerWith
  <2> QED BY <2>1, BoundedWithin DEF VetoInv, VetoStopsFills
<1> QED BY <1>1, <1>2, <1>3, PTL DEF Spec

FreezeInv ==
    /\ Shape /\ strays \in [Symbols -> Nat] /\ frozen \subseteq Symbols
    /\ \A s \in frozen : Bounded(strays[s], MayBuy(s))

\* A frozen name is close-only for every run that starts after the freeze; each run
\* already under way works on the whitelist it read, and may still buy it once.
THEOREM FreezeHolds == Spec => []FreezeStopsBuys
<1>1. Init => FreezeInv
  <2>1. ASSUME Init PROVE strays \in [Symbols -> Nat] /\ frozen = {}
    BY <2>1 DEF Init, Start, Zero
  <2> QED BY <2>1, ShapeInit DEF FreezeInv
<1>2. FreezeInv /\ [Next]_vars => FreezeInv'
  <2>0. \A s : MayBuy(s) \in SUBSET Ticks
    BY DEF MayBuy
  <2>1. ASSUME FreezeInv, UNCHANGED vars PROVE FreezeInv'
    BY <2>1 DEF FreezeInv, Shape, vars, world, MayBuy, Bounded
  <2>2. ASSUME FreezeInv, Founder \/ Jobs PROVE FreezeInv'
    <3>1. Shape' /\ \A s : MayBuy(s)' = MayBuy(s)
      BY <2>2, ShapeNext, OthersKeepRuns DEF FreezeInv, Next, MayBuy
    <3>2. \/ frozen' = frozen /\ strays' = strays
          \/ \E s \in Symbols : frozen' = frozen \ {s} /\ strays' = strays
          \/ \E s \in Symbols : frozen' = frozen \cup {s} /\ strays' = [strays EXCEPT ![s] = 0]
      BY <2>2 DEF Founder, Jobs, Halt, Resume, RequestApproval, Decide, Freeze, Unfreeze,
                  NewClose, NewDay, TestStart, TestHalt, TestResume, TestStep
    <3>3. CASE frozen' \subseteq frozen /\ strays' = strays
      BY <2>2, <3>1, <3>3 DEF FreezeInv, Bounded
    <3>4. ASSUME NEW s \in Symbols, frozen' = frozen \cup {s},
                 strays' = [strays EXCEPT ![s] = 0]
          PROVE  FreezeInv'
      <4>1. strays' \in [Symbols -> Nat] /\ strays'[s] = 0 /\ frozen' \subseteq Symbols
        BY <2>2, <3>4 DEF FreezeInv
      <4>2. ASSUME NEW q \in frozen'
            PROVE  Bounded(strays'[q], MayBuy(q))
        <5>1. CASE q = s
          BY <2>0, <4>1, <5>1, BoundedFresh
        <5>2. CASE q # s
          <6>1. q \in frozen /\ strays'[q] = strays[q]
            BY <2>2, <3>4, <4>2, <5>2 DEF FreezeInv
          <6> QED BY <2>2, <6>1 DEF FreezeInv
        <5> QED BY <5>1, <5>2
      <4> QED BY <3>1, <4>1, <4>2 DEF FreezeInv, Bounded
    <3> QED BY <3>2, <3>3, <3>4
  <2>3. ASSUME FreezeInv, NEW t \in Ticks, Begin(t) \/ TickStep(t) \/ Raise(t) \/ Crash(t)
        PROVE  FreezeInv'
    <3>1. Shape' /\ ((Quiet(t) /\ Still) \/ Filling(t))
      BY <2>3, ProcessStep DEF FreezeInv
    <3>2. CASE Quiet(t) /\ Still
      <4>1. frozen' = frozen /\ strays' = strays
        BY <3>2 DEF Still
      <4>2. ASSUME NEW q \in frozen PROVE Bounded(strays[q], MayBuy(q)')
        <5>1. t \in MayBuy(q)' => t \in MayBuy(q)
          BY <3>2 DEF MayBuy, Quiet, Choosing
        <5>2. MayBuy(q)' \subseteq MayBuy(q)
          BY <3>2, <5>1 DEF MayBuy, Quiet
        <5> QED BY <2>0, <2>3, <5>2, BoundedLess DEF FreezeInv
      <4> QED BY <2>3, <3>1, <4>1, <4>2 DEF FreezeInv, Bounded
    <3>3. CASE Filling(t)
      <4> DEFINE s == tick[t].now
      <4>1. /\ s \in Symbols /\ frozen' = frozen
            /\ \/ strays' = strays
               \/ /\ strays' = [strays EXCEPT ![s] = @ + 1]
                  /\ tick'[t].bought = tick[t].bought \cup {s}
                  /\ s \notin tick[t].bought /\ s \notin tick[t].frozen
        BY <3>3 DEF Filling, Refuse, Sell, Buy, Remember, Local, world, seen
      <4>2. strays' \in [Symbols -> Nat]
        BY <2>3, <4>1 DEF FreezeInv
      <4>3. ASSUME NEW q \in frozen PROVE Bounded(strays'[q], MayBuy(q)')
        <5>1. MayBuy(q)' \subseteq MayBuy(q)
          BY <3>3 DEF MayBuy, Filling, Choosing
        <5>2. q \in Symbols /\ strays[q] \in Nat /\ Bounded(strays[q], MayBuy(q))
          BY <2>3, <4>3 DEF FreezeInv
        <5>3. CASE strays'[q] = strays[q]
          BY <2>0, <5>1, <5>2, <5>3, BoundedLess
        <5>4. CASE strays'[q] # strays[q]
          <6>1. q = s /\ strays'[q] = strays[q] + 1
            BY <2>3, <4>1, <5>2, <5>4 DEF FreezeInv
          <6>2. t \in MayBuy(q) /\ t \notin MayBuy(q)'
            BY <3>3, <4>1, <5>4, <6>1 DEF MayBuy, Filling, Choosing
          <6> QED BY <2>0, <5>1, <5>2, <6>1, <6>2, BoundedSpent
        <5> QED BY <5>3, <5>4
      <4> QED BY <2>3, <3>1, <4>1, <4>2, <4>3 DEF FreezeInv, Bounded
    <3> QED BY <3>1, <3>2, <3>3
  <2> QED BY <2>1, <2>2, <2>3 DEF Next
<1>3. FreezeInv => FreezeStopsBuys
  <2>1. \A s : MayBuy(s) \in SUBSET Ticks
    BY DEF MayBuy
  <2> QED BY <2>1, BoundedWithin DEF FreezeInv, FreezeStopsBuys
<1> QED BY <1>1, <1>2, <1>3, PTL DEF Spec

CadenceInv ==
    /\ Shape /\ dcas \in [Symbols -> Nat]
    /\ \A s \in Symbols : IF s \in today THEN Bounded(dcas[s], MayDca(s)) ELSE dcas[s] = 0

\* The core is bought at most once in the cadence window by each tick process, however
\* often it runs.
THEOREM CadenceHolds == Spec => []DcaOncePerWindow
<1>1. Init => CadenceInv
  <2>1. ASSUME Init PROVE dcas = Zero /\ today = {}
    BY <2>1 DEF Init, Start
  <2> QED BY <2>1, ShapeInit DEF CadenceInv, Zero
<1>2. CadenceInv /\ [Next]_vars => CadenceInv'
  <2>0. \A s : MayDca(s) \in SUBSET Ticks
    BY DEF MayDca
  <2>1. ASSUME CadenceInv, UNCHANGED vars PROVE CadenceInv'
    BY <2>1 DEF CadenceInv, Shape, vars, day, MayDca, Bounded
  <2>2. ASSUME CadenceInv, Founder \/ Jobs PROVE CadenceInv'
    <3>1. Shape' /\ \A s : MayDca(s)' = MayDca(s)
      BY <2>2, ShapeNext, OthersKeepRuns DEF CadenceInv, Next, MayDca
    <3>2. \/ today' = today /\ dcas' = dcas
          \/ today' = {} /\ dcas' = Zero
      BY <2>2 DEF Founder, Jobs, Halt, Resume, RequestApproval, Decide, Freeze, Unfreeze,
                  NewClose, NewDay, TestStart, TestHalt, TestResume, TestStep, day
    <3> QED BY <2>2, <3>1, <3>2 DEF CadenceInv, Bounded, Zero
  <2>3. ASSUME CadenceInv, NEW t \in Ticks, Begin(t) \/ TickStep(t) \/ Raise(t) \/ Crash(t)
        PROVE  CadenceInv'
    <3>1. Shape' /\ ((Quiet(t) /\ Still) \/ Filling(t))
      BY <2>3, ProcessStep DEF CadenceInv
    <3>2. CASE Quiet(t) /\ Still
      <4>1. today' = today /\ dcas' = dcas
        BY <3>2 DEF Still
      <4>2. ASSUME NEW q \in today, q \in Symbols PROVE Bounded(dcas[q], MayDca(q)')
        <5>1. t \in MayDca(q)' => t \in MayDca(q)
          BY <3>2 DEF MayDca, Quiet
        <5>2. MayDca(q)' \subseteq MayDca(q)
          BY <3>2, <5>1 DEF MayDca, Quiet
        <5> QED BY <2>0, <2>3, <4>2, <5>2, BoundedLess DEF CadenceInv
      <4> QED BY <2>3, <3>1, <4>1, <4>2 DEF CadenceInv, Bounded
    <3>3. CASE Filling(t)
      <4> DEFINE s == tick[t].now
      <4>1. /\ s \in Symbols
            /\ \A q \in Symbols : /\ MayDca(q)' \subseteq MayDca(q)
                                  /\ q = s => t \notin MayDca(q)'
        BY <3>3 DEF MayDca, Filling
      <4>2. \/ today' = today /\ dcas' = dcas
            \/ /\ today' = today \cup {s}
               /\ \/ dcas' = dcas
                  \/ dcas' = [dcas EXCEPT ![s] = @ + 1] /\ tick[t].leg = "dca"
        BY <3>3 DEF Filling, Refuse, Sell, Buy, Remember, Local, seen, day
      <4>3. dcas' \in [Symbols -> Nat]
        BY <2>3, <4>1, <4>2 DEF CadenceInv
      <4>4. ASSUME NEW q \in Symbols
            PROVE  IF q \in today' THEN Bounded(dcas'[q], MayDca(q)') ELSE dcas'[q] = 0
        <5>1. CASE dcas'[q] = dcas[q] /\ (q \in today <=> q \in today')
          BY <2>0, <2>3, <4>1, <5>1, BoundedLess DEF CadenceInv
        <5>2. CASE q = s /\ q \in today' /\ dcas'[q] = dcas[q]
          <6>1. CASE q \in today
            BY <5>1, <5>2, <6>1
          <6>2. CASE q \notin today
            BY <2>0, <2>3, <4>1, <5>2, <6>2, BoundedFresh DEF CadenceInv
          <6> QED BY <6>1, <6>2
        <5>3. CASE q = s /\ q \in today' /\ dcas'[q] = dcas[q] + 1 /\ tick[t].leg = "dca"
          <6>1. t \in MayDca(q) /\ MayDca(q)' \subseteq MayDca(q) \ {t}
            BY <3>3, <4>1, <5>3 DEF MayDca, Filling
          <6>2. dcas[q] \in Nat /\ Bounded(dcas[q], MayDca(q))
            BY <2>0, <2>3, BoundedFresh DEF CadenceInv
          <6> QED BY <2>0, <5>3, <6>1, <6>2, BoundedSpent
        <5> QED BY <2>3, <4>1, <4>2, <5>1, <5>2, <5>3 DEF CadenceInv
      <4> QED BY <3>1, <4>3, <4>4 DEF CadenceInv, Bounded
    <3> QED BY <3>1, <3>2, <3>3
  <2> QED BY <2>1, <2>2, <2>3 DEF Next
<1>3. CadenceInv => DcaOncePerWindow
  <2>1. ASSUME CadenceInv, NEW s \in Symbols PROVE dcas[s] <= Cardinality(Ticks)
    <3>1. MayDca(s) \in SUBSET Ticks
      BY DEF MayDca
    <3>2. dcas[s] \in Nat /\ Bounded(dcas[s], MayDca(s))
      BY <2>1, <3>1, BoundedFresh DEF CadenceInv
    <3> QED BY <3>1, <3>2, BoundedWithin
  <2> QED BY <2>1 DEF DcaOncePerWindow
<1> QED BY <1>1, <1>2, <1>3, PTL DEF Spec

----------------------------------------------------------------------------
\* The fund is the cash and such a sum.
LEMMA FundIsSum ==
    ASSUME NEW m, NEW w
    PROVE  \E g : Sums(w, Symbols, g) /\ FundOf(m, w) = m + g[Symbols]
<1> DEFINE g == CHOOSE g : Sums(w, Symbols, g)
<1>1. Sums(w, Symbols, g)
  BY SumsExist, TickConstants
<1>2. FundOf(m, w) = m + g[Symbols]
  BY DEF FundOf, MapThenSumSet, MapThenFoldSet, Sums, First
<1> QED BY <1>1, <1>2

\* The fund is a sum: taking one name out of it,
LEMMA FundTake ==
    ASSUME NEW m \in Int, NEW w \in [Symbols -> Nat], NEW s \in Symbols
    PROVE  \E n \in Nat : /\ FundOf(m, w) = m + w[s] + n
                          /\ \A v \in [Symbols -> Nat] : \A c \in Int :
                               (\A q \in Symbols \ {s} : v[q] = w[q]) =>
                                  FundOf(c, v) = c + v[s] + n
<1>0. IsFiniteSet(Symbols)
  BY TickConstants
<1>1. PICK g : Sums(w, Symbols, g) /\ FundOf(m, w) = m + g[Symbols]
  BY FundIsSum
<1> DEFINE T == Symbols \ {s}
           n == g[T]
<1>2. g[Symbols] = w[s] + n
  BY <1>0, <1>1, SumsTake
<1>3. n \in Nat
  BY <1>0, <1>1, SumsType
<1>4. FundOf(m, w) = m + w[s] + n
  <2>1. FundOf(m, w) = m + g[Symbols]
    BY <1>1
  <2> HIDE DEF n
  <2> QED BY <1>2, <1>3, <2>1
<1>5. ASSUME NEW v \in [Symbols -> Nat], NEW c \in Int, \A q \in T : v[q] = w[q]
      PROVE  FundOf(c, v) = c + v[s] + n
  <2>1. PICK h : Sums(v, Symbols, h) /\ FundOf(c, v) = c + h[Symbols]
    BY FundIsSum
  <2>2. h[Symbols] = v[s] + h[T]
    BY <1>0, <2>1, SumsTake
  <2>3. h[T] = g[T]
    <3>1. IsFiniteSet(T) /\ T \subseteq Symbols
      BY <1>0, FS_Subset
    <3> HIDE DEF T
    <3> QED BY <1>1, <1>5, <2>1, <3>1, SumsSame
  <2>4. FundOf(c, v) = c + h[Symbols]
    BY <2>1
  <2> HIDE DEF T
  <2> QED BY <1>3, <2>2, <2>3, <2>4
<1> HIDE DEF n
<1> QED BY <1>3, <1>4, <1>5

\* the fund is a number, and no less than the cash,
LEMMA FundType ==
    ASSUME NEW m \in Int, NEW w \in [Symbols -> Nat]
    PROVE  FundOf(m, w) \in Int /\ m <= FundOf(m, w)
<1>0. IsFiniteSet(Symbols)
  BY TickConstants
<1>1. PICK g : Sums(w, Symbols, g) /\ FundOf(m, w) = m + g[Symbols]
  BY FundIsSum
<1>2. g[Symbols] \in Nat
  BY <1>0, <1>1, SumsType
<1>3. FundOf(m, w) = m + g[Symbols]
  BY <1>1
<1> QED BY <1>2, <1>3

\* and a buy turns cash into a position.
LEMMA FundMoves ==
    ASSUME NEW m \in Int, NEW w \in [Symbols -> Nat], NEW v \in [Symbols -> Nat],
           NEW s \in Symbols, NEW n \in Nat,
           \A q \in Symbols \ {s} : v[q] = w[q], v[s] = w[s] + n
    PROVE  FundOf(m - n, v) = FundOf(m, w)
<1>1. PICK r \in Nat : /\ FundOf(m, w) = m + w[s] + r
                       /\ \A u \in [Symbols -> Nat] : \A c \in Int :
                            (\A q \in Symbols \ {s} : u[q] = w[q]) =>
                               FundOf(c, u) = c + u[s] + r
  BY FundTake
<1>2. m - n \in Int /\ w[s] \in Nat
  OBVIOUS
<1>3. FundOf(m - n, v) = (m - n) + v[s] + r
  BY <1>1, <1>2
<1> QED BY <1>1, <1>2, <1>3

\* Whole shares: a value at the close is so many of them,
LEMMA SharesOf ==
    ASSUME NEW a \in Nat, NEW p \in Nat \ {0}
    PROVE  (a * p) \div p = a
OBVIOUS

\* and an order is a whole number of them, one at least.
LEMMA OrderShares ==
    ASSUME NEW p \in Prices
    PROVE  /\ Notional \div p \in Nat \ {0} /\ p \in Nat \ {0} /\ Notional \in Nat \ {0}
           /\ (Notional \div p) * p = Notional
<1>1. p \in Nat \ {0} /\ Notional \in Nat \ {0} /\ Notional % p = 0
  BY TickConstants
<1>2. Notional \div p \in Nat /\ (Notional \div p) * p = Notional
  BY <1>1
<1> QED BY <1>1, <1>2

----------------------------------------------------------------------------
\* The parts of the type invariant: the books,
BooksTyped ==
    /\ cash \in Int /\ shares \in [Symbols -> Nat] /\ value \in [Symbols -> Nat]
    /\ \A s \in Symbols : shares[s] > 0 <=> value[s] > 0

\* the runs,
RunsTyped ==
    /\ pc \in [Ticks -> Places]
    /\ tick \in [Ticks -> Runs]
    /\ \A t \in Ticks : pc[t] = "fill" => tick[t].now \in Symbols

\* what the people and the jobs keep,
WorldTyped ==
    /\ price \in [Symbols -> Prices] /\ open \in BOOLEAN
    /\ frozen \subseteq Symbols /\ approved \subseteq Symbols
    /\ halted \in BOOLEAN /\ word \in {"run", "halt"}
    /\ selfTest \in {"off", "clean", "halting"}
    /\ moves \in 0..MaxMoves

\* the counts,
CountsTyped ==
    /\ today \subseteq Symbols
    /\ late \in Nat /\ uses \in [Symbols -> Nat] /\ strays \in [Symbols -> Nat]
    /\ orders \in Nat /\ dcas \in [Symbols -> Nat]

\* and the runs rows.
RunRowsTyped ==
    /\ outcome \in [Ticks -> {"none", "running", "complete", "no_action", "halted",
                              "error"}]
    /\ runs \in 0..MaxRuns /\ filled \in [Ticks -> BOOLEAN] /\ steady \subseteq Ticks

\* Together they are the type invariant, now
LEMMA TypeParts == TypeOK <=> BooksTyped /\ RunsTyped /\ WorldTyped /\ CountsTyped /\ RunRowsTyped
BY DEF TypeOK, BooksTyped, RunsTyped, WorldTyped, CountsTyped, RunRowsTyped, Places

\* and after a step.
LEMMA TypePartsNext ==
    TypeOK' <=> BooksTyped' /\ RunsTyped' /\ WorldTyped' /\ CountsTyped' /\ RunRowsTyped'
BY TypeParts, PTL

\* A step that takes t to a place and a state of its type keeps the runs typed.
LEMMA GotoTyped ==
    ASSUME RunsTyped, NEW t \in Ticks, NEW p \in Places, NEW k \in Runs, Goto(t, p, k),
           p = "fill" => k.now \in Symbols
    PROVE  RunsTyped' /\ pc'[t] = p /\ tick'[t] = k
BY DEF RunsTyped, Goto

\* A process without a run is of its type.
LEMMA NoRunTyped == NoRun \in Runs
BY DEF NoRun, Runs, Zero

\* What the broker leaves of the state of a run is of its type: it refused,
LEMMA RefuseTyped ==
    ASSUME NEW k \in Runs PROVE RefusedState(k) \in Runs
<1> DEFINE r == (k.refused \/ k.leg = "exit")
<1>1. RefusedState(k) = [k EXCEPT !.now = NoSymbol, !.refused = r]
  BY DEF RefusedState
<1>2. r \in BOOLEAN
  OBVIOUS
<1> HIDE DEF r
<1> QED BY <1>1, <1>2 DEF Runs

\* sold
LEMMA SoldTyped ==
    ASSUME NEW k \in Runs, k.now \in Symbols PROVE SoldState(k) \in Runs
BY DEF SoldState, Runs

\* or bought the name in hand.
LEMMA BoughtTyped ==
    ASSUME NEW k \in Runs, k.now \in Symbols PROVE BoughtState(k) \in Runs
<1> DEFINE n == k.spent + Notional
           b == k.bought \cup {k.now}
<1>1. n \in Nat /\ b \subseteq Symbols
  BY TickConstants DEF Runs
<1>2. BoughtState(k) = [k EXCEPT !.now = NoSymbol, !.bought = b, !.spent = n]
  BY DEF BoughtState
<1> HIDE DEF n, b
<1> QED BY <1>1, <1>2 DEF Runs

\* A sale takes no more than is held, and what is left is worth something if it is
\* anything.
LEMMA SellBooks ==
    ASSUME TypeOK, NEW t \in Ticks, pc[t] = "fill", Sell(t)
    PROVE  BooksTyped' /\ RunsTyped'
<1> DEFINE k == tick[t]
           s == k.now
           p == price[s]
           qty == k.marks[s] \div p
<1>1. k \in Runs /\ s \in Symbols /\ RunsTyped /\ BooksTyped /\ p \in Prices
  BY TypeParts DEF TypeOK, RunsTyped
<1>2. p \in Nat \ {0} /\ k.marks[s] \in Nat
  BY <1>1, TickConstants DEF Runs
<1>3. /\ qty <= shares[s] /\ Goto(t, "gate", SoldState(k))
      /\ cash' = cash + qty * p
      /\ shares' = [shares EXCEPT ![s] = shares[s] - qty]
      /\ value' = [value EXCEPT ![s] = (shares[s] - qty) * p]
  BY DEF Sell, SoldState
<1>4. qty \in Nat
  BY <1>2
<1> HIDE DEF qty, p, s
<1>5. shares[s] \in Nat /\ cash \in Int
  BY <1>1 DEF BooksTyped
<1> DEFINE left == shares[s] - qty
           worth == left * p
<1>6. left \in Nat /\ worth \in Nat /\ (left > 0 <=> worth > 0) /\ cash' \in Int
  BY <1>2, <1>3, <1>4, <1>5
<1>7. shares' = [shares EXCEPT ![s] = left] /\ value' = [value EXCEPT ![s] = worth]
  BY <1>3
<1> HIDE DEF left, worth
<1>8. BooksTyped'
  BY <1>1, <1>6, <1>7 DEF BooksTyped
<1>9. RunsTyped'
  BY <1>1, <1>3, SoldTyped, GotoTyped DEF Places, s
<1> QED BY <1>8, <1>9

\* A buy is of one share at least: the closes divide the order.
LEMMA BuyBooks ==
    ASSUME TypeOK, NEW t \in Ticks, pc[t] = "fill", Buy(t)
    PROVE  BooksTyped' /\ RunsTyped' /\ CountsTyped'
<1> DEFINE k == tick[t]
           s == k.now
           p == price[s]
           more == Notional \div p
<1>1. k \in Runs /\ s \in Symbols /\ RunsTyped /\ BooksTyped /\ CountsTyped /\ p \in Prices
  BY TypeParts DEF TypeOK, RunsTyped
<1>2. p \in Nat \ {0} /\ more \in Nat \ {0} /\ Notional \in Nat
  BY <1>1, OrderShares
<1>3. /\ Goto(t, "gate", BoughtState(k))
      /\ cash' = cash - Notional
      /\ shares' = [shares EXCEPT ![s] = shares[s] + more]
      /\ value' = [value EXCEPT ![s] = (shares[s] + more) * p]
      /\ today' = today \cup {s}
      /\ strays' = IF s \in frozen THEN [strays EXCEPT ![s] = @ + 1] ELSE strays
      /\ orders' = orders + 1
      /\ dcas' = IF k.leg = "dca" THEN [dcas EXCEPT ![s] = @ + 1] ELSE dcas
      /\ late' = IF halted THEN late + 1 ELSE late
      /\ uses' = [uses EXCEPT ![s] = @ + 1]
  BY DEF Buy, BoughtState, Remember
<1> HIDE DEF more, p, s
<1>5. shares[s] \in Nat /\ cash \in Int
  BY <1>1 DEF BooksTyped
<1> DEFINE held == shares[s] + more
           worth == held * p
<1>6. held \in Nat /\ worth \in Nat /\ (held > 0 <=> worth > 0) /\ cash' \in Int
  BY <1>2, <1>3, <1>5
<1>7. shares' = [shares EXCEPT ![s] = held] /\ value' = [value EXCEPT ![s] = worth]
  BY <1>3
<1> HIDE DEF held, worth
<1>8. BooksTyped'
  BY <1>1, <1>6, <1>7 DEF BooksTyped
<1>9. RunsTyped'
  BY <1>1, <1>3, BoughtTyped, GotoTyped DEF Places, s
<1>10. CountsTyped'
  BY <1>1, <1>3 DEF CountsTyped
<1> QED BY <1>8, <1>9, <1>10

\* The broker keeps the types,
LEMMA FillTyped ==
    ASSUME TypeOK, NEW t \in Ticks, Fill(t)
    PROVE  TypeOK'
<1>0. /\ BooksTyped /\ RunsTyped /\ WorldTyped /\ CountsTyped /\ RunRowsTyped
      /\ pc[t] = "fill" /\ tick[t] \in Runs /\ tick[t].now \in Symbols
  BY TypeParts DEF Fill, RunsTyped
<1>1. CASE Refuse(t)
  <2>1. Goto(t, "gate", RefusedState(tick[t])) /\ RefusedState(tick[t]) \in Runs
    BY <1>0, <1>1, RefuseTyped DEF Refuse, RefusedState
  <2>2. RunsTyped'
    BY <1>0, <2>1, GotoTyped DEF Places
  <2>3. UNCHANGED <<cash, shares, value, price, open, frozen, halted, approved, today, outcome,
                    runs, selfTest, word, late, uses, strays, orders, dcas, filled, steady, moves>>
    BY <1>1 DEF Refuse, Local, book, world, seen
  <2> QED BY <1>0, <2>2, <2>3, TypePartsNext
          DEF BooksTyped, WorldTyped, CountsTyped, RunRowsTyped
<1>2. CASE Sell(t) \/ Buy(t)
  <2>1. BooksTyped' /\ RunsTyped'
    BY <1>0, <1>2, SellBooks, BuyBooks
  <2>2. /\ UNCHANGED <<price, open, frozen, halted, approved, outcome,
                       runs, selfTest, word, steady, moves>>
        /\ filled' = [filled EXCEPT ![t] = TRUE]
        /\ late' = IF halted THEN late + 1 ELSE late
        /\ uses' = [uses EXCEPT ![tick[t].now] = @ + 1]
    BY <1>2 DEF Sell, Buy, Remember, world
  <2>3. WorldTyped' /\ RunRowsTyped'
    BY <1>0, <2>2 DEF WorldTyped, RunRowsTyped
  <2>4. CountsTyped'
    <3>1. CASE Sell(t)
      <4>1. UNCHANGED <<strays, today, orders, dcas>>
        BY <3>1 DEF Sell, day
      <4> QED BY <1>0, <2>2, <4>1 DEF CountsTyped
    <3> QED BY <1>0, <1>2, <3>1, BuyBooks
  <2> QED BY <2>1, <2>3, <2>4, TypePartsNext
<1> QED BY <1>1, <1>2 DEF Fill

\* A local step: only the run of t moves, and its row.
LEMMA LocalTyped ==
    ASSUME TypeOK, NEW t \in Ticks, NEW p \in Places, NEW k \in Runs, Goto(t, p, k),
           p = "fill" => k.now \in Symbols, Local,
           \/ outcome' = outcome
           \/ \E row \in {"none", "running", "complete", "no_action", "halted", "error"} :
                 outcome' = [outcome EXCEPT ![t] = row]
    PROVE  TypeOK'
<1>1. BooksTyped /\ RunsTyped /\ WorldTyped /\ CountsTyped /\ RunRowsTyped
  BY TypeParts
<1>2. RunsTyped'
  BY <1>1, GotoTyped
<1>3. UNCHANGED <<cash, shares, value, price, open, frozen, halted, approved, today,
                  runs, selfTest, word, late, uses, strays, orders, dcas, filled, steady, moves>>
  BY DEF Local, book, world, seen
<1>4. RunRowsTyped'
  BY <1>1, <1>3 DEF RunRowsTyped
<1> QED BY <1>1, <1>2, <1>3, <1>4, TypePartsNext
        DEF BooksTyped, WorldTyped, CountsTyped

\* so do the two reads of the books,
LEMMA ReadsTyped ==
    ASSUME TypeOK, NEW t \in Ticks, ReadCash(t) \/ ReadPositions(t) PROVE TypeOK'
<1>0. tick[t] \in Runs /\ cash \in Int /\ value \in [Symbols -> Nat] /\ frozen \subseteq Symbols
  BY DEF TypeOK
<1>1. CASE ReadCash(t)
  <2> DEFINE k == [tick[t] EXCEPT !.cash = cash]
  <2>1. k \in Runs
    BY <1>0 DEF Runs
  <2>2. Goto(t, "positions", k) /\ Local /\ outcome' = outcome
    BY <1>1 DEF ReadCash
  <2> HIDE DEF k
  <2> QED BY <2>1, <2>2, LocalTyped DEF Places
<1>2. CASE ReadPositions(t)
  <2> DEFINE k == tick[t]
             again == k.sold # {}
             marked == [s \in Symbols |-> IF value[s] > 0 /\ k.marks[s] > 0 THEN k.marks[s]
                                                                           ELSE value[s]]
             opening == IF again THEN k.opening ELSE FundOf(k.cash, marked)
             k2 == [k EXCEPT !.worth = marked, !.frozen = frozen, !.opening = opening]
             next == IF again THEN "signals" ELSE "exits"
  <2>1. marked \in [Symbols -> Nat]
    BY <1>0 DEF Runs
  <2>2. opening \in Int
    <3> HIDE DEF marked
    <3> QED BY <1>0, <2>1, FundType DEF Runs
  <2>3. /\ Goto(t, next, k2) /\ Local
        /\ outcome' = outcome \/ outcome' = [outcome EXCEPT ![t] = "running"]
    BY <1>2 DEF ReadPositions
  <2>4. next \in Places /\ next # "fill"
    BY DEF Places
  <2> HIDE DEF marked, opening, next
  <2>5. k2 \in Runs
    BY <1>0, <2>1, <2>2 DEF Runs
  <2> HIDE DEF k2
  <2> QED BY <2>3, <2>4, <2>5, LocalTyped
<1> QED BY <1>1, <1>2

\* the exits due,
LEMMA BuildExitsTyped ==
    ASSUME TypeOK, NEW t \in Ticks, BuildExits(t) PROVE TypeOK'
<1> DEFINE k == tick[t]
           held == {s \in Symbols : shares[s] > 0}
           marks == [s \in Symbols |-> shares[s] * price[s]]
           worth == [s \in Symbols |-> IF s \in held /\ k.worth[s] > 0 THEN marks[s]
                                                                      ELSE k.worth[s]]
<1>0. k \in Runs /\ shares \in [Symbols -> Nat] /\ price \in [Symbols -> Prices]
  BY DEF TypeOK
<1>1. PICK due \in ExitsDue(k, held) :
        Goto(t, "gate", [k EXCEPT !.marks = marks, !.worth = worth,
                                  !.todo = IF halted THEN {} ELSE due])
  BY DEF BuildExits
<1>2. marks \in [Symbols -> Nat]
  <2>1. ASSUME NEW s \in Symbols PROVE shares[s] * price[s] \in Nat
    <3>1. shares[s] \in Nat /\ price[s] \in Nat
      BY <1>0, TickConstants
    <3> QED BY <3>1
  <2> QED BY <2>1
<1>3. worth \in [Symbols -> Nat]
  <2> HIDE DEF marks, held
  <2> QED BY <1>0, <1>2 DEF Runs
<1> HIDE DEF marks, worth
<1> DEFINE todo == IF halted THEN {} ELSE due
           k2 == [k EXCEPT !.marks = marks, !.worth = worth, !.todo = todo]
<1>4. todo \subseteq Symbols
  BY DEF ExitsDue
<1>5. Goto(t, "gate", k2) /\ Local /\ outcome' = outcome
  BY <1>1 DEF BuildExits
<1> HIDE DEF todo
<1>6. k2 \in Runs
  BY <1>0, <1>2, <1>3, <1>4 DEF Runs
<1> HIDE DEF k2
<1> QED BY <1>5, <1>6, LocalTyped DEF Places

\* The state of a run after the gate answered ok, or not, on s.
Asked(k, s, ok, refused) ==
    [k EXCEPT !.todo = @ \ {s}, !.now = IF ok THEN s ELSE NoSymbol,
              !.blocked = IF refused THEN @ \cup {s} ELSE @]

\* is of its type.
LEMMA AskedTyped ==
    ASSUME NEW k \in Runs, NEW s \in k.todo, NEW ok, NEW refused
    PROVE  Asked(k, s, ok, refused) \in Runs
<1> DEFINE n == IF ok THEN s ELSE NoSymbol
           b == IF refused THEN k.blocked \cup {s} ELSE k.blocked
           d == k.todo \ {s}
<1>1. n \in Symbols \cup {NoSymbol} /\ b \subseteq Symbols /\ d \subseteq Symbols
  BY DEF Runs
<1>2. Asked(k, s, ok, refused) = [k EXCEPT !.todo = d, !.now = n, !.blocked = b]
  BY DEF Asked
<1> HIDE DEF n, b, d
<1> QED BY <1>1, <1>2 DEF Runs

\* The gate keeps the types,
LEMMA GateTyped ==
    ASSUME TypeOK, NEW t \in Ticks, Gate(t) PROVE TypeOK'
<1> DEFINE k == tick[t]
<1>0. k \in Runs
  BY DEF TypeOK
<1>1. PICK s \in k.todo :
        LET ok == Allows(k, s) /\ (Phase >= 1 => s \in approved)
        IN  Goto(t, IF ok THEN "fill" ELSE "gate",
                   [k EXCEPT !.todo = @ \ {s}, !.now = IF ok THEN s ELSE NoSymbol,
                             !.blocked = IF k.leg = "exit" /\ ~halted /\ ~Allows(k, s)
                                           THEN @ \cup {s} ELSE @])
  BY DEF Gate
<1> DEFINE ok == Allows(k, s) /\ (Phase >= 1 => s \in approved)
           refused == k.leg = "exit" /\ ~halted /\ ~Allows(k, s)
           k2 == Asked(k, s, ok, refused)
           next == IF ok THEN "fill" ELSE "gate"
<1>2. Goto(t, next, k2) /\ Local /\ outcome' = outcome
  BY <1>1 DEF Gate, Asked
<1> HIDE DEF ok, refused
<1>3. k2 \in Runs
  BY <1>0, AskedTyped
<1>4. next \in Places /\ (next = "fill" => k2.now \in Symbols)
  BY <1>0 DEF Places, Asked, Runs
<1> HIDE DEF next, k2
<1> QED BY <1>2, <1>3, <1>4, LocalTyped

\* so do the end of a leg and of a run,
LEMMA EndsTyped ==
    ASSUME TypeOK, NEW t \in Ticks,
           EndExits(t) \/ EndBuys(t) \/ Finish(t) \/ Raise(t) \/ Crash(t)
    PROVE  TypeOK'
<1>0. tick[t] \in Runs /\ DOMAIN outcome = Ticks
      /\ outcome \in [Ticks -> {"none", "running", "complete", "no_action", "halted", "error"}]
  BY DEF TypeOK
<1>1. CASE EndExits(t)
  <2> DEFINE next == CASE tick[t].refused -> "finish"
                       [] ~tick[t].refused /\ tick[t].sold # {} -> "cash"
                       [] OTHER -> "signals"
  <2>1. next \in {"finish", "cash", "signals"}
    BY <1>0 DEF Runs
  <2>2. Goto(t, next, tick[t]) /\ Local /\ outcome' = outcome
    BY <1>1 DEF EndExits
  <2> HIDE DEF next
  <2> QED BY <1>0, <2>1, <2>2, LocalTyped DEF Places
<1>2. CASE EndBuys(t)
  BY <1>0, <1>2, LocalTyped DEF Places, EndBuys
<1>3. CASE Finish(t)
  <2>1. PICK row \in {"error", "halted", "complete", "no_action"} : row = Grade(tick[t])
    BY <1>0 DEF Grade, Runs
  <2>2. outcome' = [outcome EXCEPT ![t] = row] /\ Goto(t, "idle", NoRun) /\ Local
    BY <1>3, <2>1 DEF Finish
  <2> QED BY <1>0, <2>2, LocalTyped, NoRunTyped DEF Places
<1>4. CASE Raise(t)
  <2>1. PICK row \in {"none", "running", "complete", "no_action", "halted", "error"} :
          row = IF outcome[t] = "running" THEN "error" ELSE outcome[t]
    BY <1>0
  <2>2. outcome' = [outcome EXCEPT ![t] = row] /\ Goto(t, "idle", NoRun) /\ Local
    BY <1>4, <2>1 DEF Raise
  <2> QED BY <1>0, <2>2, LocalTyped, NoRunTyped DEF Places
<1>5. CASE Crash(t)
  BY <1>5, LocalTyped, NoRunTyped DEF Places, Crash
<1> QED BY <1>1, <1>2, <1>3, <1>4, <1>5

\* the route, and the start of the core leg,
LEMMA RoutesTyped ==
    ASSUME TypeOK, NEW t \in Ticks, RunTick(t) \/ StartDca(t) PROVE TypeOK'
<1> DEFINE k == tick[t]
<1>0. k \in Runs
  BY DEF TypeOK
<1>1. CASE RunTick(t) /\ halted
  <2> DEFINE k2 == [k EXCEPT !.halted = TRUE]
  <2>1. k2 \in Runs
    BY <1>0 DEF Runs
  <2>2. Goto(t, "finish", k2) /\ Local /\ outcome' = outcome
    BY <1>1 DEF RunTick
  <2> HIDE DEF k2
  <2> QED BY <2>1, <2>2, LocalTyped DEF Places
<1>2. CASE RunTick(t) /\ ~halted
  <2>1. PICK sig \in Signals(Symbols \ k.sold) : Route(t, sig)
    BY <1>2 DEF RunTick
  <2>2. sig.ranked \subseteq Symbols /\ sig.edge \subseteq Symbols /\ sig.core \subseteq Symbols
    BY DEF Signals
  <2> DEFINE trader == [k EXCEPT !.leg = "trader", !.todo = sig.ranked, !.edge = sig.edge]
             dca == [k EXCEPT !.core = sig.core]
  <2>3. trader \in Runs /\ dca \in Runs
    BY <1>0, <2>2 DEF Runs
  <2>4. Goto(t, "gate", trader) \/ Goto(t, "dca", dca) \/ Goto(t, "finish", k)
    <3> HIDE DEF trader, dca
    <3> QED BY <2>1 DEF Route, trader, dca
  <2>5. Local /\ outcome' = outcome
    BY <1>2 DEF RunTick
  <2> HIDE DEF trader, dca
  <2> QED BY <1>0, <2>3, <2>4, <2>5, LocalTyped DEF Places
<1>3. CASE StartDca(t)
  <2> DEFINE todo == IF halted THEN {} ELSE k.core \ today
             k2 == [k EXCEPT !.leg = "dca", !.todo = todo]
  <2>1. todo \subseteq Symbols
    BY <1>0 DEF Runs
  <2>2. Goto(t, "gate", k2) /\ Local /\ outcome' = outcome
    BY <1>3 DEF StartDca
  <2> HIDE DEF todo
  <2>3. k2 \in Runs
    BY <1>0, <2>1 DEF Runs
  <2> HIDE DEF k2
  <2> QED BY <2>2, <2>3, LocalTyped DEF Places
<1> QED BY <1>1, <1>2, <1>3

\* the start of a run,
LEMMA BeginTyped == ASSUME TypeOK, NEW t \in Ticks, Begin(t) PROVE TypeOK'
<1>1. BooksTyped /\ RunsTyped /\ WorldTyped /\ CountsTyped /\ RunRowsTyped
  BY TypeParts
<1>2. Goto(t, "cash", NoRun)
  BY DEF Begin
<1>3. RunsTyped'
  BY <1>1, <1>2, GotoTyped, NoRunTyped DEF Places
<1>4. UNCHANGED <<cash, shares, value, price, open, frozen, halted, approved, today,
                  selfTest, word, late, uses, strays, orders, dcas, moves>>
  BY DEF Begin, book, world, day
<1>5. /\ runs < MaxRuns /\ runs' = runs + 1
      /\ outcome' = [outcome EXCEPT ![t] = "none"]
      /\ filled' = [filled EXCEPT ![t] = FALSE]
      /\ steady' = steady \cup {t}
  BY DEF Begin
<1>6. RunRowsTyped'
  BY <1>1, <1>5, TickConstants DEF RunRowsTyped
<1> QED BY <1>1, <1>3, <1>4, <1>6, TypePartsNext DEF BooksTyped, WorldTyped, CountsTyped

\* and the people and the jobs around the tick.
LEMMA OthersTyped == ASSUME TypeOK, Founder \/ Jobs PROVE TypeOK'
<1>0. BooksTyped /\ RunsTyped /\ WorldTyped /\ CountsTyped /\ RunRowsTyped
  BY TypeParts
<1>1. UNCHANGED <<pc, tick, outcome, filled, runs, cash, shares, value>>
  BY DEF Founder, Jobs, Halt, Resume, RequestApproval, Decide, Freeze, Unfreeze, NewClose,
         NewDay, TestStart, TestHalt, TestResume, Move, Unmoved, book
<1>2. steady' \subseteq steady
  BY DEF Founder, Jobs, Halt, Resume, RequestApproval, Decide, Freeze, Unfreeze, NewClose,
         NewDay, TestStart, TestHalt, TestResume, TestStep, Calm
<1>3. moves' = moves \/ (moves < MaxMoves /\ moves' = moves + 1)
  BY DEF Founder, Jobs, Halt, Resume, RequestApproval, Decide, Freeze, Unfreeze, NewClose,
         NewDay, TestStart, TestHalt, TestResume, Move, Unmoved
<1>4. moves' \in 0..MaxMoves
  BY <1>0, <1>3, TickConstants DEF WorldTyped
<1>10. BooksTyped' /\ RunsTyped' /\ RunRowsTyped'
  BY <1>0, <1>1, <1>2 DEF BooksTyped, RunsTyped, RunRowsTyped
<1>5. CASE Founder
  <2>1. /\ UNCHANGED <<price, open, frozen, selfTest, strays, today, orders, dcas>>
        /\ halted' \in BOOLEAN /\ word' \in {"run", "halt"} /\ late' \in {late, 0}
    BY <1>0, <1>5 DEF Founder, Halt, Resume, RequestApproval, Decide, Calm, day, WorldTyped
  <2>2. \/ approved' = approved /\ uses' = uses
        \/ \E s \in Symbols : /\ approved' \in {approved \cup {s}, approved \ {s}}
                              /\ uses' = [uses EXCEPT ![s] = 0]
    BY <1>5 DEF Founder, Halt, Resume, RequestApproval, Decide
  <2>3. WorldTyped' /\ CountsTyped'
    BY <1>0, <1>4, <2>1, <2>2 DEF WorldTyped, CountsTyped
  <2> QED BY <1>10, <2>3, TypePartsNext
<1>6. CASE \E s \in Symbols : Freeze(s) \/ Unfreeze(s)
  BY <1>0, <1>1, <1>2, <1>4, <1>6, TypePartsNext
     DEF Freeze, Unfreeze, Calm, day, BooksTyped, RunsTyped,
         WorldTyped, CountsTyped, RunRowsTyped
<1>7. CASE \E s \in Symbols, p \in Prices : NewClose(s, p)
  BY <1>0, <1>1, <1>2, <1>4, <1>7, TypePartsNext
     DEF NewClose, day, BooksTyped, RunsTyped, WorldTyped, CountsTyped, RunRowsTyped
<1>8. CASE NewDay
  BY <1>0, <1>1, <1>2, <1>4, <1>8, TypePartsNext
     DEF NewDay, Calm, Zero, BooksTyped, RunsTyped, WorldTyped, CountsTyped, RunRowsTyped
<1>9. CASE TestStart \/ TestHalt \/ TestResume
  <2>1. /\ UNCHANGED <<price, open, frozen, approved, word, uses, strays, today, orders, dcas>>
        /\ selfTest' \in {"off", "clean", "halting"}
        /\ halted' \in BOOLEAN /\ late' \in {late, 0}
    BY <1>9 DEF TestStart, TestHalt, TestResume, TestStep, Calm, day
  <2>2. WorldTyped' /\ CountsTyped'
    BY <1>0, <1>4, <2>1 DEF WorldTyped, CountsTyped
  <2> QED BY <1>10, <2>2, TypePartsNext
<1> QED BY <1>5, <1>6, <1>7, <1>8, <1>9 DEF Jobs

\* The books start typed: one trade of each name that is held.
LEMMA TypeInit == Init => TypeOK
<1> SUFFICES ASSUME Init PROVE TypeOK
  OBVIOUS
<1>1. PICK held \in SUBSET Symbols : \E at \in [held -> Prices] :
          /\ shares = [s \in Symbols |-> IF s \in held THEN Notional \div at[s] ELSE 0]
          /\ value = [s \in Symbols |-> IF s \in held THEN Notional ELSE 0]
  BY DEF Init, Start
<1>2. PICK at \in [held -> Prices] :
          /\ shares = [s \in Symbols |-> IF s \in held THEN Notional \div at[s] ELSE 0]
          /\ value = [s \in Symbols |-> IF s \in held THEN Notional ELSE 0]
  BY <1>1
<1>3. \A s \in held : Notional \div at[s] \in Nat \ {0}
  BY OrderShares
<1>4. Notional \in Nat \ {0} /\ OpeningCash \in Nat
  BY TickConstants
<1>5. BooksTyped
  <2>1. cash \in Int
    BY <1>4 DEF Init, Start
  <2>2. shares \in [Symbols -> Nat] /\ value \in [Symbols -> Nat]
    BY <1>2, <1>3, <1>4
  <2>3. \A s \in Symbols : shares[s] > 0 <=> value[s] > 0
    BY <1>2, <1>3, <1>4
  <2> QED BY <2>1, <2>2, <2>3 DEF BooksTyped
<1>6. RunsTyped
  BY NoRunTyped DEF Init, Start, RunsTyped, Places
<1>7. WorldTyped
  <2>1. approved \subseteq Symbols
    BY DEF Init, Start
  <2>2. 0 \in 0..MaxMoves
    BY TickConstants
  <2>3. open \in BOOLEAN
    BY DEF Init, Start
  <2> QED BY <2>1, <2>2, <2>3 DEF Init, Start, WorldTyped
<1>8. CountsTyped /\ RunRowsTyped
  <2>1. 0 \in 0..MaxRuns
    BY TickConstants
  <2> QED BY <2>1 DEF Init, Start, CountsTyped, RunRowsTyped, Zero
<1> QED BY <1>5, <1>6, <1>7, <1>8, TypeParts

\* Every step keeps the types.
LEMMA TypeNext == TypeOK /\ [Next]_vars => TypeOK'
<1>1. ASSUME TypeOK, UNCHANGED vars PROVE TypeOK'
  <2>1. UNCHANGED <<cash, shares, value, price, open, frozen, halted, approved, today, pc, tick,
                    outcome, runs, selfTest, word, late, uses, strays, orders, dcas, filled,
                    steady, moves>>
    BY <1>1 DEF vars, book, world, day
  <2>2. BooksTyped /\ RunsTyped /\ WorldTyped /\ CountsTyped /\ RunRowsTyped
    BY <1>1, TypeParts
  <2> QED BY <2>1, <2>2, TypePartsNext
             DEF BooksTyped, RunsTyped, WorldTyped, CountsTyped, RunRowsTyped
<1>2. ASSUME TypeOK, NEW t \in Ticks, Begin(t) \/ TickStep(t) \/ Raise(t) \/ Crash(t)
      PROVE  TypeOK'
  BY <1>2, BeginTyped, ReadsTyped, BuildExitsTyped, GateTyped, FillTyped, EndsTyped,
     RoutesTyped DEF TickStep
<1> QED BY <1>1, <1>2, OthersTyped DEF Next

\* The type invariant, for any number of tick processes.  Amounts stay whole and not
\* negative, no name is held at no value, and only the cash may fall below zero.
THEOREM TickTyped == Spec => []TypeOK
BY TypeInit, TypeNext, PTL DEF Spec

----------------------------------------------------------------------------
\* The limits.  One process runs the ticks, so that nobody else moves the books while a
\* run looks at its copy of them: the invariant says how far apart the two are at every
\* place.

\* The most buys one leg can propose.
MostBuys == Larger(MaxCandidates, Cardinality(Core))

Buying(p, k) == k.leg # "exit" /\ p \in {"gate", "fill"}
Selling(p, k) == k.leg = "exit" /\ p \in {"gate", "fill"}

\* What the position limit said of a buy of s, on the state of the run.
PassesCap(k, s) == 100 * (k.worth[s] + Notional) <= PositionPct * Fund(k)

\* The cash c against the state of the run: it has moved by what the run has spent, and
\* what is left to buy, all told, is no more than the candidates.
CashOK(p, k, c) ==
    /\ k.core \subseteq Core
    /\ k.leg = "exit" => k.spent = 0
    /\ \/ p \in {"positions", "exits", "signals", "dca"} \/ Buying(p, k)
       \/ Selling(p, k) /\ k.sold = {}
       => c = k.cash - k.spent
    /\ Buying(p, k) =>
          k.spent + Notional * (Cardinality(k.todo) + (IF p = "fill" THEN 1 ELSE 0))
             <= Notional * MostBuys
    /\ Buying(p, k) /\ p = "fill" => Notional <= k.cash /\ PassesCap(k, k.now)

\* The exits of the run against the values v of the positions: what is left to sell is
\* worth something, and no more than the state says.
ExitsOK(p, k, v) ==
    /\ k.blocked = {}
    /\ p \in {"cash", "positions"} /\ k.sold = {} => k.marks = Zero
    /\ p = "exits" => k.worth = v /\ k.sold = {}
    /\ Selling(p, k) =>
          /\ \A s \in k.todo : 0 < k.worth[s] /\ k.marks[s] <= k.worth[s]
          /\ k.todo \cap k.sold = {}
    /\ Selling(p, k) /\ p = "fill" => k.now \notin k.sold

\* The market values of these holdings.
Worth(held, close) == [s \in Symbols |-> held[s] * close[s]]

\* While no close comes in, the state of the run follows the market values w of the
\* books: what was sold is gone, what was bought is worth one order more and passes the
\* limit, and the fund is what it was.
MarksOK(p, k, c, w) ==
    /\ Selling(p, k) \/ (k.leg = "exit" /\ p \in {"cash", "positions"} /\ k.sold # {}) =>
          \A s \in Symbols : IF s \in k.sold THEN w[s] = 0 ELSE k.marks[s] = w[s]
    /\ p \in {"signals", "dca"} \/ (Selling(p, k) /\ k.sold = {}) => k.worth = w
    /\ Buying(p, k) =>
          /\ \A s \in Symbols \ k.bought : k.worth[s] = w[s]
          /\ \A s \in k.bought : w[s] = k.worth[s] + Notional /\ PassesCap(k, s)
          /\ FundOf(c, w) = Fund(k)

\* What the limits rest on.
Limits ==
    /\ OverdraftBounded /\ PositionCapHolds
    /\ \A t \in Ticks : /\ CashOK(pc[t], tick[t], cash)
                        /\ ExitsOK(pc[t], tick[t], value)
                        /\ t \in steady => MarksOK(pc[t], tick[t], cash, Worth(shares, price))

LimitsInv == TypeOK /\ Shape /\ Limits

\* A tick has the book to itself.
OneTick == \A t, u \in Ticks : t = u

\* The market values are numbers, positive where something is held.
LEMMA WorthType ==
    ASSUME TypeOK
    PROVE  /\ Worth(shares, price) \in [Symbols -> Nat]
           /\ \A s \in Symbols : value[s] > 0 <=> Worth(shares, price)[s] > 0
<1>1. ASSUME NEW s \in Symbols
      PROVE  shares[s] * price[s] \in Nat /\ (value[s] > 0 <=> shares[s] * price[s] > 0)
  <2>1. shares[s] \in Nat /\ price[s] \in Nat \ {0} /\ (shares[s] > 0 <=> value[s] > 0)
    BY TickConstants DEF TypeOK
  <2> QED BY <2>1
<1> QED BY <1>1 DEF Worth

\* A step short of the broker keeps the limits when the state it goes to does.
LEMMA GotoLimits ==
    ASSUME LimitsInv, OneTick, NEW t \in Ticks, NEW p, NEW k, Goto(t, p, k), Local,
           k.bought = {} \/ k.bought = tick[t].bought,
           CashOK(p, k, cash), ExitsOK(p, k, value),
           t \in steady => MarksOK(p, k, cash, Worth(shares, price))
    PROVE  Limits'
<1>1. UNCHANGED <<cash, shares, value, price, steady>>
  BY DEF Local, book, world, seen
<1>2. pc'[t] = p /\ tick'[t] = k /\ \A u \in Ticks : u = t
  BY DEF Goto, LimitsInv, Shape, OneTick
<1>3. OverdraftBounded'
  BY <1>1 DEF LimitsInv, Limits, OverdraftBounded
<1>4. PositionCapHolds'
  <2>1. ASSUME NEW u \in steady, NEW s \in tick'[u].bought
        PROVE  100 * shares[s] * price[s] <=
                 PositionPct * FundOf(cash, [q \in Symbols |-> shares[q] * price[q]])
    <3>1. u \in Ticks
      BY DEF LimitsInv, TypeOK
    <3>2. u = t /\ s \in tick[u].bought
      BY <1>2, <2>1, <3>1
    <3> QED BY <3>2 DEF LimitsInv, Limits, PositionCapHolds
  <2> QED BY <1>1, <2>1 DEF PositionCapHolds
<1>5. ASSUME NEW u \in Ticks
      PROVE  /\ CashOK(pc'[u], tick'[u], cash')
             /\ ExitsOK(pc'[u], tick'[u], value')
             /\ u \in steady' => MarksOK(pc'[u], tick'[u], cash', Worth(shares', price'))
  <2>1. u = t
    BY <1>2
  <2> QED BY <1>1, <1>2, <2>1
<1> QED BY <1>3, <1>4, <1>5 DEF Limits

\* A process without a run is within the limits.
LEMMA NoRunLimits ==
    ASSUME NEW p \in {"idle", "cash"}, NEW c, NEW v, NEW w
    PROVE  CashOK(p, NoRun, c) /\ ExitsOK(p, NoRun, v) /\ MarksOK(p, NoRun, c, w)
<1>1. /\ NoRun.core = {} /\ NoRun.leg = "exit" /\ NoRun.spent = 0 /\ NoRun.blocked = {}
      /\ NoRun.sold = {} /\ NoRun.marks = Zero
  BY DEF NoRun
<1> QED BY <1>1 DEF CashOK, ExitsOK, MarksOK, Buying, Selling

\* The cash is read,
LEMMA ReadCashLimits ==
    ASSUME LimitsInv, OneTick, NEW t \in Ticks, ReadCash(t) PROVE Limits'
<1> DEFINE k == tick[t]
           k2 == [k EXCEPT !.cash = cash]
           w == Worth(shares, price)
<1>1. /\ k \in Runs /\ cash \in Int /\ RunOK("cash", k) /\ CashOK("cash", k, cash)
      /\ ExitsOK("cash", k, value) /\ (t \in steady => MarksOK("cash", k, cash, w))
  BY DEF LimitsInv, TypeOK, Shape, Limits, ReadCash
<1> HIDE DEF w
<1>2. /\ k2.leg = k.leg /\ k2.sold = k.sold /\ k2.marks = k.marks /\ k2.core = k.core
      /\ k2.spent = k.spent /\ k2.cash = cash /\ k2.blocked = k.blocked
      /\ k2.bought = k.bought /\ k2.leg = "exit"
  BY <1>1 DEF Runs, RunOK, Early
<1>3. Goto(t, "positions", k2) /\ Local
  BY DEF ReadCash
<1> HIDE DEF k2
<1>4. CashOK("positions", k2, cash)
  BY <1>1, <1>2 DEF CashOK, Buying, Selling
<1>5. ExitsOK("positions", k2, value)
  BY <1>1, <1>2 DEF ExitsOK, Buying, Selling
<1>6. t \in steady => MarksOK("positions", k2, cash, w)
  BY <1>1, <1>2 DEF MarksOK, Buying, Selling
<1> QED BY <1>2, <1>3, <1>4, <1>5, <1>6, GotoLimits DEF w

\* the positions are read, marked again after an exit,
LEMMA ReadPositionsLimits ==
    ASSUME LimitsInv, OneTick, NEW t \in Ticks, ReadPositions(t) PROVE Limits'
<1> DEFINE k == tick[t]
           again == k.sold # {}
           marked == [s \in Symbols |-> IF value[s] > 0 /\ k.marks[s] > 0 THEN k.marks[s]
                                                                         ELSE value[s]]
           opening == IF again THEN k.opening ELSE FundOf(k.cash, marked)
           k2 == [k EXCEPT !.worth = marked, !.frozen = frozen, !.opening = opening]
           next == IF again THEN "signals" ELSE "exits"
           w == Worth(shares, price)
<1>1. /\ k \in Runs /\ value \in [Symbols -> Nat] /\ RunOK("positions", k)
      /\ CashOK("positions", k, cash)
      /\ ExitsOK("positions", k, value) /\ (t \in steady => MarksOK("positions", k, cash, w))
  BY DEF LimitsInv, TypeOK, Shape, Limits, ReadPositions
<1>0. w \in [Symbols -> Nat] /\ \A s \in Symbols : value[s] > 0 <=> w[s] > 0
  BY WorthType DEF LimitsInv
<1>3. Goto(t, next, k2) /\ Local
  BY DEF ReadPositions
<1>4. ~again => marked = value
  <2>1. ~again => k.marks = Zero
    BY <1>1 DEF ExitsOK
  <2>2. ASSUME ~again, NEW s \in Symbols PROVE marked[s] = value[s]
    BY <1>1, <2>1, <2>2 DEF Zero
  <2>3. marked = [s \in Symbols |-> marked[s]] /\ value = [s \in Symbols |-> value[s]]
    BY <1>1
  <2> HIDE DEF marked
  <2>4. ~again => [s \in Symbols |-> marked[s]] = [s \in Symbols |-> value[s]]
    BY <2>2
  <2> QED BY <2>3, <2>4
<1>5. again /\ t \in steady => marked = w
  <2>1. ASSUME again, t \in steady, NEW s \in Symbols PROVE marked[s] = w[s]
    <3>1. IF s \in k.sold THEN w[s] = 0 ELSE k.marks[s] = w[s]
      BY <1>1, <2>1 DEF MarksOK, RunOK, Early
    <3>2. w[s] \in Nat /\ value[s] \in Nat /\ (value[s] > 0 <=> w[s] > 0)
      BY <1>0, <1>1
    <3>3. marked[s] = IF value[s] > 0 /\ k.marks[s] > 0 THEN k.marks[s] ELSE value[s]
      OBVIOUS
    <3> HIDE DEF w, marked
    <3> QED BY <3>1, <3>2, <3>3
  <2>3. marked = [s \in Symbols |-> marked[s]] /\ w = [s \in Symbols |-> w[s]]
    BY <1>0
  <2> HIDE DEF marked, w
  <2>4. again /\ t \in steady => [s \in Symbols |-> marked[s]] = [s \in Symbols |-> w[s]]
    BY <2>1
  <2> QED BY <2>3, <2>4
<1> HIDE DEF w, marked, opening
<1>2. /\ k2.leg = k.leg /\ k2.sold = k.sold /\ k2.marks = k.marks /\ k2.core = k.core
      /\ k2.spent = k.spent /\ k2.cash = k.cash /\ k2.blocked = k.blocked
      /\ k2.bought = k.bought /\ k2.worth = marked /\ k2.leg = "exit"
      /\ \/ next = "signals" /\ k.sold # {}
         \/ next = "exits" /\ k.sold = {}
  BY <1>1 DEF Runs, RunOK, Early
<1> HIDE DEF k2, next
<1>6. CashOK(next, k2, cash)
  BY <1>1, <1>2 DEF CashOK, Buying, Selling
<1>7. ExitsOK(next, k2, value)
  BY <1>1, <1>2, <1>4 DEF ExitsOK, Buying, Selling
<1>8. t \in steady => MarksOK(next, k2, cash, w)
  BY <1>1, <1>2, <1>5 DEF MarksOK, Buying, Selling
<1> QED BY <1>2, <1>3, <1>6, <1>7, <1>8, GotoLimits DEF w

\* and the exits are sized by the marks they are compared with.
LEMMA BuildExitsLimits ==
    ASSUME LimitsInv, OneTick, NEW t \in Ticks, BuildExits(t) PROVE Limits'
<1> DEFINE k == tick[t]
           held == {s \in Symbols : shares[s] > 0}
           marks == [s \in Symbols |-> shares[s] * price[s]]
           worth == [s \in Symbols |-> IF s \in held /\ k.worth[s] > 0 THEN marks[s]
                                                                      ELSE k.worth[s]]
           w == Worth(shares, price)
<1>1. PICK due \in ExitsDue(k, held) :
        Goto(t, "gate", [k EXCEPT !.marks = marks, !.worth = worth,
                                  !.todo = IF halted THEN {} ELSE due])
  BY DEF BuildExits
<1>2. /\ k \in Runs /\ value \in [Symbols -> Nat] /\ RunOK("exits", k)
      /\ \A s \in Symbols : shares[s] > 0 <=> value[s] > 0
      /\ CashOK("exits", k, cash) /\ ExitsOK("exits", k, value)
  BY DEF LimitsInv, TypeOK, Shape, Limits, BuildExits
<1>3. w \in [Symbols -> Nat] /\ \A s \in Symbols : value[s] > 0 <=> w[s] > 0
  BY WorthType DEF LimitsInv
<1>4. marks = w
  BY DEF Worth
<1>5. worth = w
  <2>1. ASSUME NEW s \in Symbols PROVE worth[s] = w[s]
    <3>1. worth[s] = IF s \in held /\ value[s] > 0 THEN w[s] ELSE value[s]
      BY <1>2, <1>4 DEF ExitsOK
    <3>2. w[s] \in Nat /\ value[s] \in Nat /\ (value[s] > 0 <=> w[s] > 0)
          /\ (s \in held <=> value[s] > 0)
      BY <1>2, <1>3
    <3> HIDE DEF w, worth, held
    <3> QED BY <3>1, <3>2
  <2>3. worth = [s \in Symbols |-> worth[s]] /\ w = [s \in Symbols |-> w[s]]
    BY <1>3
  <2> HIDE DEF worth, w
  <2>4. [s \in Symbols |-> worth[s]] = [s \in Symbols |-> w[s]]
    BY <2>1
  <2> QED BY <2>3, <2>4
<1> DEFINE todo == IF halted THEN {} ELSE due
           k2 == [k EXCEPT !.marks = w, !.worth = w, !.todo = todo]
<1>6. \A s \in todo : s \in Symbols /\ w[s] > 0
  BY <1>2, <1>3 DEF ExitsDue
<1>7. Goto(t, "gate", k2) /\ Local
  BY <1>1, <1>4, <1>5 DEF BuildExits
<1> HIDE DEF todo, w, marks, worth, held
<1>8. /\ k2.leg = k.leg /\ k2.sold = {} /\ k2.marks = w /\ k2.core = k.core
      /\ k2.spent = k.spent /\ k2.cash = k.cash /\ k2.blocked = {}
      /\ k2.bought = k.bought /\ k2.worth = w /\ k2.leg = "exit" /\ k2.todo = todo
  BY <1>2 DEF Runs, RunOK, Early, ExitsOK
<1> HIDE DEF k2
<1>9. CashOK("gate", k2, cash)
  BY <1>2, <1>8 DEF CashOK, Buying, Selling
<1>10. ExitsOK("gate", k2, value)
  BY <1>3, <1>6, <1>8 DEF ExitsOK, Buying, Selling
<1>11. MarksOK("gate", k2, cash, w)
  BY <1>8 DEF MarksOK, Buying, Selling
<1> QED BY <1>7, <1>8, <1>9, <1>10, <1>11, GotoLimits DEF w

\* An order the Constitution lets pass is paid from cash that is there, and fits.
LEMMA AllowedBuy ==
    ASSUME NEW k \in Runs, NEW s \in Symbols, AllowsBuy(k, s)
    PROVE  Notional <= k.cash /\ PassesCap(k, s)
<1> DEFINE F == Fund(k)
           m == MinCashPct(F)
<1>1. F \in Int /\ k.cash <= F /\ k.cash \in Int
  BY FundType DEF Fund, Runs
<1>2. Notional \in Nat \ {0} /\ SmallFund \in Nat /\ BufferPct \in Nat
  BY TickConstants
<1>3. 100 * Notional <= 100 * k.cash - m * F
  BY DEF AllowsBuy, WithinDeployableCash
<1>4. F > 0 => PassesCap(k, s)
  BY DEF AllowsBuy, WithinConcentration, PassesCap
<1>5. m = 0 \/ (m = BufferPct /\ F > SmallFund)
  BY <1>1, <1>2 DEF MinCashPct
<1> HIDE DEF F, m
<1>6. m \in Nat /\ m * F >= 0
  <2>1. CASE m = 0
    BY <1>1, <2>1
  <2>2. CASE m = BufferPct /\ F > SmallFund
    <3>1. m \in Nat /\ F \in Nat
      BY <1>1, <1>2, <2>2
    <3> QED BY <3>1
  <2> QED BY <1>5, <2>1, <2>2
<1>7. m * F \in Int
  BY <1>1, <1>6
<1>8. 100 * Notional <= 100 * k.cash
  <2> DEFINE x == m * F
  <2>1. x \in Int /\ x >= 0 /\ 100 * Notional <= 100 * k.cash - x
    BY <1>3, <1>6, <1>7
  <2> HIDE DEF x
  <2> QED BY <1>1, <1>2, <2>1
<1>9. Notional <= k.cash
  BY <1>1, <1>2, <1>8
<1> QED BY <1>1, <1>2, <1>4, <1>9

\* There is a most, and a leg of the trader or of the core stays within it.
LEMMA MostBuysType ==
    /\ MostBuys \in Nat \ {0} /\ MaxCandidates <= MostBuys /\ Notional \in Nat \ {0}
    /\ IsFiniteSet(Core) /\ Cardinality(Core) <= MostBuys /\ MaxCandidates \in Nat
<1>1. IsFiniteSet(Core)
  BY TickConstants, FS_Subset
<1>2. Cardinality(Core) \in Nat /\ MaxCandidates \in Nat \ {0} /\ Notional \in Nat \ {0}
  BY <1>1, FS_CardinalityType, TickConstants
<1> QED BY <1>1, <1>2 DEF MostBuys, Larger

\* The gate lets a sale pass whenever the switch is up, and a buy by the limits.
LEMMA GateLimits ==
    ASSUME LimitsInv, OneTick, NEW t \in Ticks, Gate(t) PROVE Limits'
<1> DEFINE k == tick[t]
           w == Worth(shares, price)
<1>0. /\ k \in Runs /\ RunOK("gate", k) /\ CashOK("gate", k, cash) /\ cash \in Int
      /\ ExitsOK("gate", k, value) /\ (t \in steady => MarksOK("gate", k, cash, w))
  BY DEF LimitsInv, TypeOK, Shape, Limits, Gate
<1>1. PICK s \in k.todo :
        LET ok == Allows(k, s) /\ (Phase >= 1 => s \in approved)
        IN  Goto(t, IF ok THEN "fill" ELSE "gate",
                   [k EXCEPT !.todo = @ \ {s}, !.now = IF ok THEN s ELSE NoSymbol,
                             !.blocked = IF k.leg = "exit" /\ ~halted /\ ~Allows(k, s)
                                           THEN @ \cup {s} ELSE @])
  BY DEF Gate
<1>2. s \in Symbols /\ k.todo \subseteq Symbols
  BY <1>0 DEF Runs
<1>3. k.leg = "exit" /\ ~halted => Allows(k, s)
  BY <1>0 DEF ExitsOK, Selling, Allows, AllowsSell
<1> DEFINE ok == Allows(k, s) /\ (Phase >= 1 => s \in approved)
           next == IF ok THEN "fill" ELSE "gate"
           now == IF ok THEN s ELSE NoSymbol
           todo == k.todo \ {s}
           k2 == [k EXCEPT !.todo = todo, !.now = now]
<1>4. Goto(t, next, k2) /\ Local
  <2>1. ~(k.leg = "exit" /\ ~halted /\ ~Allows(k, s))
    BY <1>3
  <2>2. [k EXCEPT !.todo = todo, !.now = now, !.blocked = k.blocked] = k2
    BY <1>0 DEF Runs
  <2> QED BY <1>1, <2>1, <2>2 DEF Gate
<1>5. ok /\ k.leg # "exit" => Notional <= k.cash /\ PassesCap(k, s)
  <2>1. ok /\ k.leg # "exit" => AllowsBuy(k, s)
    BY <1>0 DEF Allows, Runs
  <2> QED BY <1>0, <1>2, <2>1, AllowedBuy
<1>6. /\ Cardinality(todo) = Cardinality(k.todo) - 1 /\ Cardinality(todo) \in Nat
      /\ Cardinality(k.todo) \in Nat
  <2>1. IsFiniteSet(k.todo)
    BY <1>2, TickConstants, FS_Subset
  <2>2. IsFiniteSet(todo)
        /\ Cardinality(todo) = IF s \in k.todo THEN Cardinality(k.todo)-1 ELSE Cardinality(k.todo)
    BY <2>1, FS_RemoveElement
  <2>3. Cardinality(k.todo) \in Nat /\ Cardinality(todo) \in Nat
    <3> HIDE DEF todo
    <3> QED BY <2>1, <2>2, FS_CardinalityType
  <2> QED BY <2>2, <2>3
<1>7. (next = "fill" /\ now = s /\ ok) \/ next = "gate"
  OBVIOUS
<1>8. todo \subseteq k.todo /\ s \notin todo
  OBVIOUS
<1> HIDE DEF next, now, ok, todo, w
<1>9. /\ k2.leg = k.leg /\ k2.sold = k.sold /\ k2.marks = k.marks /\ k2.core = k.core
      /\ k2.spent = k.spent /\ k2.cash = k.cash /\ k2.blocked = k.blocked
      /\ k2.bought = k.bought /\ k2.worth = k.worth /\ k2.todo = todo /\ k2.now = now
      /\ k.spent \in Nat /\ next \in {"gate", "fill"}
  BY <1>0, <1>7 DEF Runs
<1> HIDE DEF k2
<1>10. Fund(k2) = Fund(k) /\ \A q \in Symbols : PassesCap(k2, q) <=> PassesCap(k, q)
  BY <1>9 DEF Fund, PassesCap
<1>11. CashOK(next, k2, cash)
  <2>1. k.leg # "exit" =>
          k.spent + Notional * (Cardinality(todo) + (IF next = "fill" THEN 1 ELSE 0))
             <= Notional * MostBuys
    <3> DEFINE a == Cardinality(k.todo)
               b == Cardinality(todo)
               c == IF next = "fill" THEN 1 ELSE 0
    <3>1. k.leg # "exit" => k.spent + Notional * (a + 0) <= Notional * MostBuys
      BY <1>0 DEF CashOK, Buying
    <3>2. a \in Nat /\ b \in Nat /\ c \in Nat /\ b + c <= a
      BY <1>6
    <3> HIDE DEF a, b, c
    <3>3. Notional * (b + c) <= Notional * (a + 0)
      BY <3>2, MostBuysType
    <3>4. Notional * (b + c) \in Nat /\ Notional * (a + 0) \in Nat /\ Notional * MostBuys \in Nat
      BY <3>2, MostBuysType
    <3>5. k.leg # "exit" => k.spent + Notional * (b + c) <= Notional * MostBuys
      <4> DEFINE x == Notional * (b + c)
                 y == Notional * (a + 0)
                 z == Notional * MostBuys
      <4>1. x \in Nat /\ y \in Nat /\ z \in Nat /\ x <= y /\ (k.leg # "exit" => k.spent + y <= z)
        BY <3>1, <3>3, <3>4
      <4> HIDE DEF x, y, z
      <4>2. k.leg # "exit" => k.spent + x <= z
        BY <1>9, <4>1
      <4> QED BY <4>2 DEF x, z
    <3> QED BY <3>5 DEF b, c
  <2>2. k.leg # "exit" /\ next = "fill" => Notional <= k.cash /\ PassesCap(k2, now)
    BY <1>2, <1>5, <1>7, <1>10
  <2> QED BY <1>0, <1>9, <2>1, <2>2 DEF CashOK, Buying, Selling
<1>12. ExitsOK(next, k2, value)
  BY <1>0, <1>1, <1>7, <1>8, <1>9 DEF ExitsOK, Buying, Selling
<1>13. t \in steady => MarksOK(next, k2, cash, w)
  <2>1. k.bought \subseteq Symbols
    BY <1>0 DEF Runs
  <2> QED BY <1>0, <1>9, <1>10, <2>1 DEF MarksOK, Buying, Selling
<1> QED BY <1>4, <1>9, <1>11, <1>12, <1>13, GotoLimits DEF w

\* A leg ends where the limits allow.
LEMMA EndsLimits ==
    ASSUME LimitsInv, OneTick, NEW t \in Ticks, EndExits(t) \/ EndBuys(t) PROVE Limits'
<1> DEFINE k == tick[t]
           w == Worth(shares, price)
<1>0. /\ k \in Runs /\ RunOK("gate", k) /\ CashOK("gate", k, cash)
      /\ ExitsOK("gate", k, value) /\ (t \in steady => MarksOK("gate", k, cash, w))
      /\ Local
  BY DEF LimitsInv, TypeOK, Shape, Limits, EndExits, EndBuys
<1>1. CASE EndExits(t)
  <2> DEFINE next == CASE k.refused -> "finish"
                       [] ~k.refused /\ k.sold # {} -> "cash"
                       [] OTHER -> "signals"
  <2>1. \/ next = "finish"
        \/ next = "cash" /\ k.sold # {}
        \/ next = "signals" /\ k.sold = {}
    BY <1>0 DEF Runs
  <2>2. Goto(t, next, k) /\ k.leg = "exit"
    BY <1>1 DEF EndExits
  <2> HIDE DEF next, w
  <2>3. CashOK(next, k, cash)
    BY <1>0, <2>1, <2>2 DEF CashOK, Buying, Selling
  <2>4. ExitsOK(next, k, value)
    BY <1>0, <2>1, <2>2 DEF ExitsOK, Buying, Selling
  <2>5. t \in steady => MarksOK(next, k, cash, w)
    BY <1>0, <2>1, <2>2 DEF MarksOK, Buying, Selling
  <2> QED BY <1>0, <2>2, <2>3, <2>4, <2>5, GotoLimits DEF w
<1>2. CASE EndBuys(t)
  <2>1. Goto(t, "finish", k) /\ k.leg # "exit"
    BY <1>2 DEF EndBuys
  <2> HIDE DEF w
  <2>3. CashOK("finish", k, cash) /\ ExitsOK("finish", k, value) /\ MarksOK("finish", k, cash, w)
    BY <1>0, <2>1 DEF CashOK, ExitsOK, MarksOK, Buying, Selling
  <2> QED BY <1>0, <2>1, <2>3, GotoLimits DEF w
<1> QED BY <1>1, <1>2

\* The trader starts with no more than its candidates, on marked positions,
LEMMA RoutesLimits ==
    ASSUME LimitsInv, OneTick, NEW t \in Ticks, RunTick(t) PROVE Limits'
<1> DEFINE k == tick[t]
           w == Worth(shares, price)
<1>0. /\ k \in Runs /\ RunOK("signals", k) /\ CashOK("signals", k, cash)
      /\ ExitsOK("signals", k, value) /\ (t \in steady => MarksOK("signals", k, cash, w))
      /\ Local /\ k.leg = "exit" /\ k.bought = {} /\ w \in [Symbols -> Nat]
  BY WorthType DEF LimitsInv, TypeOK, Shape, Limits, RunTick, RunOK, Early
<1>1. CASE halted
  <2> DEFINE k2 == [k EXCEPT !.halted = TRUE]
  <2>1. /\ k2.leg = "exit" /\ k2.bought = {} /\ k2.core = k.core /\ k2.blocked = k.blocked
        /\ k2.spent = k.spent
    BY <1>0 DEF Runs
  <2>2. Goto(t, "finish", k2)
    BY <1>1 DEF RunTick
  <2> HIDE DEF k2, w
  <2>3. CashOK("finish", k2, cash) /\ ExitsOK("finish", k2, value) /\ MarksOK("finish", k2, cash, w)
    BY <1>0, <2>1 DEF CashOK, ExitsOK, MarksOK, Buying, Selling
  <2> QED BY <1>0, <2>1, <2>2, <2>3, GotoLimits DEF w
<1>2. CASE ~halted
  <2>1. PICK sig \in Signals(Symbols \ k.sold) : Route(t, sig)
    BY <1>2 DEF RunTick
  <2>2. /\ sig.ranked \subseteq Symbols /\ sig.core \subseteq Core
        /\ Cardinality(sig.ranked) <= MaxCandidates
    BY DEF Signals
  <2>3. Cardinality(sig.ranked) \in Nat
    BY <2>2, TickConstants, FS_Subset, FS_CardinalityType
  <2> DEFINE trader == [k EXCEPT !.leg = "trader", !.todo = sig.ranked, !.edge = sig.edge]
             dca == [k EXCEPT !.core = sig.core]
  <2>4. Goto(t, "gate", trader) \/ Goto(t, "dca", dca) \/ Goto(t, "finish", k)
    <3> HIDE DEF trader, dca
    <3> QED BY <2>1 DEF Route, trader, dca
  <2> HIDE DEF w
  <2>5. CASE Goto(t, "gate", trader)
    <3>1. /\ trader.leg = "trader" /\ trader.bought = {} /\ trader.core = k.core
          /\ trader.blocked = k.blocked /\ trader.spent = 0 /\ trader.cash = k.cash
          /\ trader.worth = k.worth /\ trader.todo = sig.ranked
      BY <1>0 DEF Runs, CashOK
    <3> HIDE DEF trader
    <3>2. Notional * (Cardinality(sig.ranked) + 0) <= Notional * MostBuys
      <4>1. Cardinality(sig.ranked) + 0 <= MostBuys
        BY <2>2, <2>3, MostBuysType
      <4> DEFINE n == Cardinality(sig.ranked) + 0
      <4>2. n \in Nat /\ n <= MostBuys
        BY <2>3, <4>1
      <4> HIDE DEF n
      <4>3. Notional * n <= Notional * MostBuys
        BY <4>2, MostBuysType
      <4> QED BY <4>3 DEF n
    <3>3. 0 + Notional * (Cardinality(sig.ranked) + 0) <= Notional * MostBuys
      <4> DEFINE x == Notional * (Cardinality(sig.ranked) + 0)
      <4>1. x \in Int
        BY <2>3, MostBuysType
      <4> HIDE DEF x
      <4>2. 0 + x = x
        BY <4>1
      <4> QED BY <3>2, <4>2 DEF x
    <3>4. CashOK("gate", trader, cash)
      BY <1>0, <3>1, <3>3 DEF CashOK, Buying, Selling
    <3>5. ExitsOK("gate", trader, value)
      BY <1>0, <3>1 DEF ExitsOK, Buying, Selling
    <3>6. t \in steady => MarksOK("gate", trader, cash, w)
      <4>1. t \in steady => k.worth = w
        BY <1>0 DEF MarksOK
      <4>2. cash = k.cash
        BY <1>0 DEF CashOK, Runs
      <4>3. t \in steady => FundOf(cash, w) = Fund(trader)
        BY <3>1, <4>1, <4>2 DEF Fund
      <4> QED BY <3>1, <4>1, <4>3 DEF MarksOK, Buying, Selling
    <3> QED BY <1>0, <2>5, <3>1, <3>4, <3>5, <3>6, GotoLimits DEF w
  <2>6. CASE Goto(t, "dca", dca)
    <3>1. /\ dca.leg = "exit" /\ dca.bought = {} /\ dca.core = sig.core
          /\ dca.blocked = k.blocked /\ dca.spent = k.spent /\ dca.cash = k.cash
          /\ dca.worth = k.worth
      BY <1>0 DEF Runs
    <3> HIDE DEF dca
    <3>2. CashOK("dca", dca, cash)
      BY <1>0, <2>2, <3>1 DEF CashOK, Buying, Selling
    <3>3. ExitsOK("dca", dca, value) /\ (t \in steady => MarksOK("dca", dca, cash, w))
      BY <1>0, <3>1 DEF ExitsOK, MarksOK, Buying, Selling
    <3> QED BY <1>0, <2>6, <3>1, <3>2, <3>3, GotoLimits DEF w
  <2>7. CASE Goto(t, "finish", k)
    <3>1. CashOK("finish", k, cash) /\ ExitsOK("finish", k, value) /\ MarksOK("finish", k, cash, w)
      BY <1>0 DEF CashOK, ExitsOK, MarksOK, Buying, Selling
    <3> QED BY <1>0, <2>7, <3>1, GotoLimits DEF w
  <2> QED BY <2>4, <2>5, <2>6, <2>7
<1> QED BY <1>1, <1>2

\* and the core with no more than its targets.
LEMMA StartDcaLimits ==
    ASSUME LimitsInv, OneTick, NEW t \in Ticks, StartDca(t) PROVE Limits'
<1> DEFINE k == tick[t]
           w == Worth(shares, price)
           todo == IF halted THEN {} ELSE k.core \ today
           k2 == [k EXCEPT !.leg = "dca", !.todo = todo]
<1>0. /\ k \in Runs /\ RunOK("dca", k) /\ CashOK("dca", k, cash)
      /\ ExitsOK("dca", k, value) /\ (t \in steady => MarksOK("dca", k, cash, w))
      /\ Local /\ k.leg = "exit" /\ k.bought = {} /\ Goto(t, "gate", k2)
  BY DEF LimitsInv, TypeOK, Shape, Limits, StartDca, RunOK, Early
<1>1. todo \subseteq Core
  BY <1>0 DEF CashOK
<1>2. Cardinality(todo) \in Nat /\ Cardinality(todo) <= MostBuys
  <2> HIDE DEF todo
  <2>1. IsFiniteSet(todo) /\ Cardinality(todo) <= Cardinality(Core)
    BY <1>1, MostBuysType, FS_Subset
  <2> QED BY <2>1, MostBuysType, FS_CardinalityType
<1> HIDE DEF todo, w
<1>3. /\ k2.leg = "dca" /\ k2.bought = {} /\ k2.core = k.core
      /\ k2.blocked = k.blocked /\ k2.spent = 0 /\ k2.cash = k.cash
      /\ k2.worth = k.worth /\ k2.todo = todo
  BY <1>0 DEF Runs, CashOK
<1> HIDE DEF k2
<1>4. 0 + Notional * (Cardinality(todo) + 0) <= Notional * MostBuys
  <2> DEFINE n == Cardinality(todo) + 0
  <2>1. n \in Nat /\ n <= MostBuys
    BY <1>2, MostBuysType
  <2> HIDE DEF n
  <2>2. Notional * n <= Notional * MostBuys /\ 0 + Notional * n = Notional * n
    BY <2>1, MostBuysType
  <2>3. 0 + Notional * n <= Notional * MostBuys
    BY <2>2
  <2> QED BY <2>3 DEF n
<1>5. CashOK("gate", k2, cash)
  BY <1>0, <1>3, <1>4 DEF CashOK, Buying, Selling
<1>6. ExitsOK("gate", k2, value)
  BY <1>0, <1>3 DEF ExitsOK, Buying, Selling
<1>7. t \in steady => MarksOK("gate", k2, cash, w)
  <2>1. t \in steady => k.worth = w
    BY <1>0 DEF MarksOK
  <2>2. cash = k.cash
    BY <1>0 DEF CashOK, Runs
  <2>3. t \in steady => FundOf(cash, w) = Fund(k2)
    BY <1>3, <2>1, <2>2 DEF Fund
  <2> QED BY <1>3, <2>1, <2>3 DEF MarksOK, Buying, Selling
<1> QED BY <1>0, <1>3, <1>5, <1>6, <1>7, GotoLimits DEF w

\* A run that begins or is over has nothing to answer for.
LEMMA IdleLimits ==
    ASSUME LimitsInv, OneTick, NEW t \in Ticks, NEW p \in {"idle", "cash"},
           Goto(t, p, NoRun), UNCHANGED book, steady' \subseteq Ticks
    PROVE  Limits'
<1>1. UNCHANGED <<cash, shares, value>> /\ NoRun.bought = {}
  BY DEF book, NoRun
<1>2. pc'[t] = p /\ tick'[t] = NoRun /\ \A u \in Ticks : u = t
  BY DEF Goto, LimitsInv, Shape, OneTick
<1>3. OverdraftBounded'
  BY <1>1 DEF LimitsInv, Limits, OverdraftBounded
<1>4. \A u \in Ticks : tick'[u].bought = {}
  BY <1>1, <1>2
<1>5. ASSUME NEW u \in Ticks
      PROVE  /\ CashOK(pc'[u], tick'[u], cash')
             /\ ExitsOK(pc'[u], tick'[u], value')
             /\ MarksOK(pc'[u], tick'[u], cash', Worth(shares', price'))
  BY <1>2, NoRunLimits
<1>6. PositionCapHolds'
  BY <1>4 DEF PositionCapHolds
<1> QED BY <1>3, <1>5, <1>6 DEF Limits

\* The broker's refusal changes nothing but what the run is told.
LEMMA RefuseLimits ==
    ASSUME LimitsInv, OneTick, NEW t \in Ticks, pc[t] = "fill", Refuse(t) PROVE Limits'
<1> DEFINE k == tick[t]
           k2 == RefusedState(k)
           w == Worth(shares, price)
<1>0. /\ k \in Runs /\ RunOK("fill", k) /\ CashOK("fill", k, cash)
      /\ ExitsOK("fill", k, value) /\ (t \in steady => MarksOK("fill", k, cash, w))
      /\ Local /\ Goto(t, "gate", k2)
  BY DEF LimitsInv, TypeOK, Shape, Limits, Refuse, RefusedState
<1>1. /\ k2.leg = k.leg /\ k2.sold = k.sold /\ k2.marks = k.marks /\ k2.core = k.core
      /\ k2.spent = k.spent /\ k2.cash = k.cash /\ k2.blocked = k.blocked
      /\ k2.bought = k.bought /\ k2.worth = k.worth /\ k2.todo = k.todo
      /\ k.todo \subseteq Symbols /\ k.bought \subseteq Symbols /\ k.spent \in Nat
  BY <1>0 DEF Runs, RefusedState
<1> HIDE DEF k2, w
<1>2. Fund(k2) = Fund(k) /\ \A q : PassesCap(k2, q) <=> PassesCap(k, q)
  BY <1>1 DEF Fund, PassesCap
<1>3. CashOK("gate", k2, cash)
  <2>1. Buying("fill", k) =>
           k.spent + Notional * (Cardinality(k.todo) + 0) <= Notional * MostBuys
    <3> DEFINE a == Cardinality(k.todo)
    <3>1. a \in Nat
      BY <1>1, TickConstants, FS_Subset, FS_CardinalityType
    <3>2. Buying("fill", k) => k.spent + Notional * (a + 1) <= Notional * MostBuys
      BY <1>0 DEF CashOK
    <3> HIDE DEF a
    <3>3. Notional * (a + 1) = Notional * (a + 0) + Notional
      BY <3>1, MostBuysType
    <3> DEFINE x == Notional * (a + 0)
               z == Notional * MostBuys
    <3>4. x \in Nat /\ z \in Nat
      BY <3>1, MostBuysType
    <3>5. Buying("fill", k) => k.spent + (x + Notional) <= z
      BY <3>2, <3>3
    <3> HIDE DEF x, z
    <3>6. Buying("fill", k) => k.spent + x <= z
      BY <1>1, <3>4, <3>5, MostBuysType
    <3> QED BY <3>6 DEF x, z, a
  <2> QED BY <1>0, <1>1, <2>1 DEF CashOK, Buying, Selling
<1>4. ExitsOK("gate", k2, value)
  BY <1>0, <1>1 DEF ExitsOK, Buying, Selling
<1>5. t \in steady => MarksOK("gate", k2, cash, w)
  BY <1>0, <1>1, <1>2 DEF MarksOK, Buying, Selling
<1> QED BY <1>0, <1>1, <1>3, <1>4, <1>5, GotoLimits DEF w

\* A sale at the close it was proposed at sells the position whole.
LEMMA SellLimits ==
    ASSUME LimitsInv, OneTick, NEW t \in Ticks, pc[t] = "fill", tick[t].leg = "exit", Sell(t)
    PROVE  Limits'
<1> DEFINE k == tick[t]
           k2 == SoldState(k)
           s == k.now
           p == price[s]
           qty == k.marks[s] \div p
           w == Worth(shares, price)
           w2 == Worth(shares', price')
<1>0. /\ k \in Runs /\ RunOK("fill", k) /\ CashOK("fill", k, cash)
      /\ ExitsOK("fill", k, value) /\ (t \in steady => MarksOK("fill", k, cash, w))
      /\ s \in Symbols /\ p \in Nat \ {0} /\ shares \in [Symbols -> Nat] /\ cash \in Int
      /\ cash >= - Notional * (MostBuys - 1)
  <2>1. price[s] \in Nat \ {0}
    BY TickConstants DEF LimitsInv, TypeOK
  <2> QED BY <2>1 DEF LimitsInv, TypeOK, Shape, Limits, OverdraftBounded, MostBuys
<1>1. /\ qty <= shares[s] /\ Goto(t, "gate", k2) /\ UNCHANGED <<price, steady>>
      /\ cash' = cash + qty * p
      /\ shares' = [shares EXCEPT ![s] = shares[s] - qty]
  BY DEF Sell, SoldState, Remember, world
<1>2. qty \in Nat /\ k.marks[s] \in Nat
  BY <1>0 DEF Runs
<1>3. /\ k2.leg = "exit" /\ k2.sold = k.sold \cup {s} /\ k2.marks = k.marks
      /\ k2.core = k.core /\ k2.spent = k.spent /\ k2.blocked = k.blocked
      /\ k2.bought = {} /\ k2.worth = k.worth /\ k2.todo = k.todo
      /\ s \notin k.todo /\ s \notin k.sold
  BY <1>0 DEF Runs, SoldState, RunOK, ExitsOK, Selling
<1>4. cash' >= - Notional * (MostBuys - 1)
  <2> DEFINE x == qty * p
             b == - Notional * (MostBuys - 1)
  <2>1. x \in Nat /\ b \in Int
    BY <1>0, <1>2, MostBuysType
  <2>2. cash' = cash + x /\ cash >= b
    BY <1>0, <1>1
  <2> HIDE DEF x, b, qty, p
  <2>3. cash' >= b
    BY <1>0, <2>1, <2>2
  <2> QED BY <2>3 DEF b
<1>5. ASSUME t \in steady, NEW q \in Symbols
      PROVE  IF q \in k2.sold THEN w2[q] = 0 ELSE k2.marks[q] = w2[q]
  <2>1. IF q \in k.sold THEN w[q] = 0 ELSE k.marks[q] = w[q]
    BY <1>0, <1>5 DEF MarksOK, Selling
  <2>2. w[q] = shares[q] * price[q] /\ w2[q] = shares'[q] * price[q]
    BY <1>1 DEF Worth
  <2>3. CASE q = s
    <3>1. k.marks[s] = shares[s] * p
      BY <1>3, <2>1, <2>2, <2>3
    <3>2. shares[s] \in Nat
      BY <1>0
    <3>3. qty = shares[s]
      BY <1>0, <3>1, <3>2, SharesOf
    <3> HIDE DEF qty
    <3>4. shares'[s] = 0
      BY <1>0, <1>1, <3>2, <3>3
    <3>5. 0 * p = 0
      BY <1>0
    <3> QED BY <1>3, <2>2, <2>3, <3>4, <3>5
  <2>4. CASE q # s
    <3>1. w2[q] = w[q]
      BY <1>0, <1>1, <2>2, <2>4
    <3> HIDE DEF w, w2
    <3> QED BY <1>3, <2>1, <2>4, <3>1
  <2> QED BY <2>3, <2>4
<1> HIDE DEF k2, w, w2, qty, p, s
<1>6. CashOK("gate", k2, cash')
  BY <1>0, <1>3 DEF CashOK, Buying, Selling
<1>7. ExitsOK("gate", k2, value')
  BY <1>0, <1>3 DEF ExitsOK, Buying, Selling
<1>8. t \in steady => MarksOK("gate", k2, cash', w2)
  BY <1>3, <1>5 DEF MarksOK, Buying, Selling
<1>9. pc'[t] = "gate" /\ tick'[t] = k2 /\ \A u \in Ticks : u = t
  BY <1>1 DEF Goto, LimitsInv, Shape, OneTick
<1>10. OverdraftBounded'
  BY <1>4 DEF OverdraftBounded, MostBuys
<1>11. PositionCapHolds'
  <2>1. \A u \in steady' : u = t
    BY <1>1, <1>9 DEF LimitsInv, TypeOK
  <2>2. tick'[t].bought = {}
    BY <1>3, <1>9
  <2> QED BY <2>1, <2>2 DEF PositionCapHolds
<1>12. ASSUME NEW u \in Ticks
      PROVE  /\ CashOK(pc'[u], tick'[u], cash')
             /\ ExitsOK(pc'[u], tick'[u], value')
             /\ u \in steady' => MarksOK(pc'[u], tick'[u], cash', Worth(shares', price'))
  <2>1. u = t
    BY <1>9
  <2> QED BY <1>1, <1>6, <1>7, <1>8, <1>9, <2>1 DEF w2
<1> QED BY <1>10, <1>11, <1>12 DEF Limits

\* A buy moves the order from the cash to the position; both were looked at before.
LEMMA BuyLimits ==
    ASSUME LimitsInv, OneTick, NEW t \in Ticks, pc[t] = "fill", tick[t].leg # "exit", Buy(t)
    PROVE  Limits'
<1> DEFINE k == tick[t]
           k2 == BoughtState(k)
           s == k.now
           p == price[s]
           more == Notional \div p
           w == Worth(shares, price)
           w2 == Worth(shares', price')
<1>0. /\ k \in Runs /\ RunOK("fill", k) /\ CashOK("fill", k, cash)
      /\ ExitsOK("fill", k, value) /\ (t \in steady => MarksOK("fill", k, cash, w))
      /\ s \in Symbols /\ p \in Prices /\ shares \in [Symbols -> Nat] /\ cash \in Int
      /\ price \in [Symbols -> Prices] /\ w \in [Symbols -> Nat]
  BY WorthType DEF LimitsInv, TypeOK, Shape, Limits
<1>1. /\ Goto(t, "gate", k2) /\ UNCHANGED <<price, steady>>
      /\ cash' = cash - Notional
      /\ shares' = [shares EXCEPT ![s] = shares[s] + more]
  BY DEF Buy, BoughtState, Remember, world
<1>2. /\ more \in Nat \ {0} /\ p \in Nat \ {0} /\ Notional \in Nat \ {0}
      /\ more * p = Notional
  BY <1>0, OrderShares
<1>3. /\ k2.leg = k.leg /\ k2.sold = k.sold /\ k2.cash = k.cash
      /\ k2.core = k.core /\ k2.spent = k.spent + Notional /\ k2.blocked = k.blocked
      /\ k2.bought = k.bought \cup {s} /\ k2.worth = k.worth /\ k2.todo = k.todo
      /\ s \notin k.todo /\ s \notin k.bought /\ k.spent \in Nat /\ k.cash \in Int
      /\ k.todo \subseteq Symbols /\ k.bought \subseteq Symbols
      /\ k.worth \in [Symbols -> Nat]
  BY <1>0 DEF Runs, BoughtState, RunOK
<1>4. Fund(k2) = Fund(k) /\ \A q : PassesCap(k2, q) <=> PassesCap(k, q)
  BY <1>3 DEF Fund, PassesCap
<1>5. /\ cash = k.cash - k.spent /\ Notional <= k.cash /\ PassesCap(k, s)
      /\ k.spent + Notional * (Cardinality(k.todo) + 1) <= Notional * MostBuys
  BY <1>0 DEF CashOK, Buying
<1>6. ASSUME NEW q \in Symbols
      PROVE  w2[q] \in Nat /\ w2[q] = IF q = s THEN w[q] + Notional ELSE w[q]
  <2>1. w[q] = shares[q] * price[q] /\ w2[q] = shares'[q] * price[q]
    BY <1>1 DEF Worth
  <2>2. shares[q] \in Nat /\ price[q] \in Nat
    BY <1>0, TickConstants
  <2>3. CASE q = s
    <3>1. shares'[s] = shares[s] + more
      BY <1>0, <1>1
    <3> HIDE DEF more, w, w2
    <3>2. (shares[s] + more) * p = shares[s] * p + more * p
      BY <1>2, <2>2, <2>3
    <3>3. w2[s] = shares[s] * p + Notional /\ w[s] = shares[s] * p /\ shares[s] * p \in Nat
      BY <1>2, <2>1, <2>2, <2>3, <3>1, <3>2
    <3> HIDE DEF p
    <3> QED BY <1>2, <2>3, <3>3
  <2>4. CASE q # s
    <3>1. shares'[q] = shares[q]
      BY <1>0, <1>1, <2>4
    <3> HIDE DEF w, w2
    <3> QED BY <2>1, <2>2, <2>4, <3>1
  <2> QED BY <2>3, <2>4
<1>7. w2 \in [Symbols -> Nat]
  <2>1. w2 = [q \in Symbols |-> shares'[q] * price'[q]]
    BY DEF Worth
  <2>2. \A q \in Symbols : w2[q] \in Nat
    BY <1>6
  <2> HIDE DEF w2
  <2> QED BY <2>1, <2>2
<1> HIDE DEF k2, w, w2, more, p, s
<1>8. FundOf(cash', w2) = FundOf(cash, w)
  <2>1. \A q \in Symbols \ {s} : w2[q] = w[q]
    BY <1>6
  <2>2. w2[s] = w[s] + Notional
    BY <1>0, <1>6
  <2>3. FundOf(cash - Notional, w2) = FundOf(cash, w)
    BY <1>0, <1>2, <1>7, <2>1, <2>2, FundMoves
  <2> QED BY <1>1, <2>3
<1>9. /\ cash' = k2.cash - k2.spent
      /\ k2.spent + Notional * (Cardinality(k2.todo) + 0) <= Notional * MostBuys
      /\ cash' >= - Notional * (MostBuys - 1)
  <2> DEFINE a == Cardinality(k.todo)
  <2>1. a \in Nat
    BY <1>3, TickConstants, FS_Subset, FS_CardinalityType
  <2>2. k.spent + Notional * (a + 1) <= Notional * MostBuys
    BY <1>5
  <2> DEFINE x == Notional * (a + 0)
             z == Notional * MostBuys
             y == Notional * (a + 1)
             b == - Notional * (MostBuys - 1)
  <2>3. x \in Nat /\ z \in Nat /\ y = x + Notional /\ b = Notional - z
    <3> HIDE DEF a
    <3> QED BY <2>1, MostBuysType
  <2>4. k.spent + y <= z
    BY <2>2
  <2> HIDE DEF x, y, z, b
  <2>5. (k.spent + Notional) + x <= z
    BY <1>2, <1>3, <2>3, <2>4
  <2>6. cash' = k.cash - (k.spent + Notional) /\ cash' >= b
    BY <1>0, <1>1, <1>2, <1>3, <1>5, <2>3, <2>5
  <2> QED BY <1>3, <2>5, <2>6 DEF x, z, b
<1>10. CashOK("gate", k2, cash')
  BY <1>0, <1>3, <1>9 DEF CashOK, Buying, Selling
<1>11. ExitsOK("gate", k2, value')
  BY <1>0, <1>3 DEF ExitsOK, Buying, Selling
<1>12. ASSUME t \in steady
       PROVE  /\ \A q \in Symbols \ k2.bought : k2.worth[q] = w2[q]
              /\ \A q \in k2.bought : w2[q] = k2.worth[q] + Notional /\ PassesCap(k2, q)
              /\ FundOf(cash', w2) = Fund(k2)
  <2>1. /\ \A q \in Symbols \ k.bought : k.worth[q] = w[q]
        /\ \A q \in k.bought : w[q] = k.worth[q] + Notional /\ PassesCap(k, q)
        /\ FundOf(cash, w) = Fund(k)
    BY <1>0, <1>12 DEF MarksOK, Buying
  <2>2. \A q \in Symbols \ k2.bought : k2.worth[q] = w2[q]
    BY <1>3, <1>6, <2>1
  <2>3. \A q \in k2.bought : w2[q] = k2.worth[q] + Notional
    BY <1>0, <1>3, <1>6, <2>1
  <2>4. \A q \in k2.bought : PassesCap(k2, q)
    BY <1>3, <1>4, <1>5, <2>1
  <2> QED BY <1>4, <1>8, <2>1, <2>2, <2>3, <2>4
<1>13. t \in steady => MarksOK("gate", k2, cash', w2)
  BY <1>0, <1>3, <1>12 DEF MarksOK, Buying, Selling
<1>14. pc'[t] = "gate" /\ tick'[t] = k2 /\ \A u \in Ticks : u = t
  BY <1>1 DEF Goto, LimitsInv, Shape, OneTick
<1>15. OverdraftBounded'
  BY <1>9 DEF OverdraftBounded, MostBuys
<1>16. PositionCapHolds'
  <2>1. ASSUME t \in steady, NEW q \in k2.bought
        PROVE  100 * shares'[q] * price'[q] <= PositionPct * FundOf(cash', w2)
    <3>1. q \in Symbols
      BY <1>0, <1>3
    <3>2. w2[q] = shares'[q] * price'[q]
      BY <3>1 DEF w2, Worth
    <3>3. 100 * w2[q] <= PositionPct * FundOf(cash', w2)
      <4>1. /\ w2[q] = k2.worth[q] + Notional /\ PassesCap(k2, q)
            /\ FundOf(cash', w2) = Fund(k2)
        BY <1>12, <2>1
      <4> QED BY <4>1 DEF PassesCap
    <3>4. shares'[q] \in Nat /\ price'[q] \in Nat
      <4>1. price'[q] \in Nat
        BY <1>0, <1>1, <3>1, TickConstants
      <4>2. shares'[q] \in Nat
        BY <1>0, <1>1, <1>2, <3>1
      <4> QED BY <4>1, <4>2
    <3>5. 100 * shares'[q] * price'[q] = 100 * w2[q]
      BY <3>2, <3>4
    <3> QED BY <3>3, <3>5
  <2>2. \A u \in steady' : u = t /\ t \in steady
    BY <1>1, <1>14 DEF LimitsInv, TypeOK
  <2>3. w2 = [q \in Symbols |-> shares'[q] * price'[q]]
    BY DEF w2, Worth
  <2> QED BY <1>14, <2>1, <2>2, <2>3 DEF PositionCapHolds
<1>17. ASSUME NEW u \in Ticks
      PROVE  /\ CashOK(pc'[u], tick'[u], cash')
             /\ ExitsOK(pc'[u], tick'[u], value')
             /\ u \in steady' => MarksOK(pc'[u], tick'[u], cash', Worth(shares', price'))
  <2>1. u = t
    BY <1>14
  <2> QED BY <1>1, <1>10, <1>11, <1>13, <1>14, <2>1 DEF w2
<1> QED BY <1>15, <1>16, <1>17 DEF Limits

\* The people and the jobs move neither the books nor the runs, and a close that comes
\* in ends the steadiness it would break.
LEMMA OthersLimits == ASSUME LimitsInv, Founder \/ Jobs PROVE Limits'
<1>1. UNCHANGED <<pc, tick, cash, shares, value>>
  BY DEF Founder, Jobs, Halt, Resume, RequestApproval, Decide, Freeze, Unfreeze, NewClose,
         NewDay, TestStart, TestHalt, TestResume, Move, Unmoved, book
<1>2. steady' = {} \/ (price' = price /\ steady' = steady)
  BY DEF Founder, Jobs, Halt, Resume, RequestApproval, Decide, Freeze, Unfreeze, NewClose,
         NewDay, TestStart, TestHalt, TestResume, TestStep, Calm
<1>3. OverdraftBounded'
  BY <1>1 DEF LimitsInv, Limits, OverdraftBounded
<1>4. PositionCapHolds'
  BY <1>1, <1>2 DEF LimitsInv, Limits, PositionCapHolds
<1>5. \A u \in Ticks :
        /\ CashOK(pc'[u], tick'[u], cash')
        /\ ExitsOK(pc'[u], tick'[u], value')
        /\ u \in steady' => MarksOK(pc'[u], tick'[u], cash', Worth(shares', price'))
  BY <1>1, <1>2 DEF LimitsInv, Limits
<1> QED BY <1>3, <1>4, <1>5 DEF Limits

\* The limits hold at first.
LEMMA LimitsInit == Init => Limits
<1> SUFFICES ASSUME Init PROVE Limits
  OBVIOUS
<1>1. /\ pc = [t \in Ticks |-> "idle"] /\ tick = [t \in Ticks |-> NoRun]
      /\ cash = OpeningCash /\ steady = {}
  BY DEF Init, Start
<1>2. OverdraftBounded
  <2> DEFINE b == Notional * (MostBuys - 1)
  <2>1. b \in Nat /\ - Notional * (MostBuys - 1) = 0 - b
    BY MostBuysType
  <2>2. OpeningCash \in Nat
    BY TickConstants
  <2> HIDE DEF b
  <2>3. OpeningCash >= 0 - b
    BY <2>1, <2>2
  <2> QED BY <1>1, <2>1, <2>3 DEF OverdraftBounded, MostBuys
<1>3. PositionCapHolds
  BY <1>1 DEF PositionCapHolds
<1> QED BY <1>1, <1>2, <1>3, NoRunLimits DEF Limits

\* Every step keeps them when one process runs the ticks.
LEMMA LimitsNext == OneTick /\ LimitsInv /\ [Next]_vars => LimitsInv'
<1> SUFFICES ASSUME OneTick, LimitsInv, [Next]_vars PROVE Limits'
  BY TypeNext, ShapeNext DEF LimitsInv
<1>1. CASE UNCHANGED vars
  <2>1. UNCHANGED <<pc, tick, cash, shares, value, price, steady>>
    BY <1>1 DEF vars, book, world
  <2> QED BY <2>1 DEF LimitsInv, Limits, OverdraftBounded, PositionCapHolds
<1>2. CASE Founder \/ Jobs
  BY <1>2, OthersLimits
<1>3. ASSUME NEW t \in Ticks, Begin(t) \/ TickStep(t) \/ Raise(t) \/ Crash(t) PROVE Limits'
  <2>1. CASE Begin(t) \/ Finish(t) \/ Raise(t) \/ Crash(t)
    <3>1. UNCHANGED book
      BY <2>1 DEF Begin, Finish, Raise, Crash, Local
    <3>2. Goto(t, "idle", NoRun) \/ Goto(t, "cash", NoRun)
      BY <2>1 DEF Begin, Finish, Raise, Crash
    <3>3. steady' \subseteq Ticks
      BY TypeNext DEF LimitsInv, TypeOK
    <3> QED BY <3>1, <3>2, <3>3, IdleLimits
  <2>2. CASE Fill(t)
    BY <2>2, RefuseLimits, SellLimits, BuyLimits DEF Fill
  <2>3. CASE ReadCash(t) \/ ReadPositions(t) \/ BuildExits(t) \/ Gate(t)
    BY <2>3, ReadCashLimits, ReadPositionsLimits, BuildExitsLimits, GateLimits
  <2>4. CASE EndExits(t) \/ EndBuys(t) \/ RunTick(t) \/ StartDca(t)
    BY <2>4, EndsLimits, RoutesLimits, StartDcaLimits
  <2> QED BY <1>3, <2>1, <2>2, <2>3, <2>4 DEF TickStep
<1> QED BY <1>1, <1>2, <1>3 DEF Next

\* What a tick decides on is old, and the limits hold of the books all the same: when
\* one process runs the ticks, no exit of a held name is refused by the Constitution, no
\* buy passes the concentration limit, and no leg overdraws by more than its buys but one.
THEOREM LimitsAlways == OneTick => (Spec => []LimitsHold)
<1>1. LimitsInv => LimitsHold
  <2>1. ASSUME LimitsInv PROVE ExitsNeverBlocked
    BY <2>1 DEF LimitsInv, Limits, ExitsOK, ExitsNeverBlocked
  <2> QED BY <2>1 DEF LimitsInv, Limits, LimitsHold
<1>2. Init => LimitsInv
  BY TypeInit, ShapeInit, LimitsInit DEF LimitsInv
<1>3. ASSUME OneTick PROVE Spec => []LimitsHold
  <2>1. LimitsInv /\ [Next]_vars => LimitsInv'
    BY <1>3, LimitsNext
  <2> QED BY <1>1, <1>2, <2>1, PTL DEF Spec
<1> QED BY <1>3
=============================================================================
