--------------------------- MODULE GovernanceProofs ---------------------------
(***************************************************************************)
(* Theorems about what governs the program: what may be bought             *)
(* (ShariaGovernance.tla), what the operator may do by itself              *)
(* (Autonomy.tla), what it writes of it (LoopRunner.tla) and what is kept  *)
(* of that (Backup.tla), for any names, books, answers of the second       *)
(* source, strategies, jobs and processes that overlap, rows, pages,       *)
(* databases, faults, crashes and acts of the founder.                     *)
(***************************************************************************)
EXTENDS ShariaGovernance, Autonomy, LoopRunner, Backup, NumberLemmas

----------------------------------------------------------------------------
(* Sharia.  A job's verdict is written by two transactions, and what it    *)
(* holds in between may be overtaken by another job or the founder.  ShInv *)
(* says what it may hold: a row that Combine and ApplyAuthority made, and, *)
(* for a name whose row is not clear, the duty to freeze it.               *)

Screens == {"pass", "doubtful", "fail"}

\* Rows that evaluate_symbol makes.
Evaluated == {row \in [inHouse : Screens, second : CrossChecks, local : Locals,
                       final : {"pass", "doubtful", "fail", "pending_review"}] :
                 row.final = ApplyAuthority(Combine(row.inHouse, row.second), row.local)}

\* What a job may hold: nothing, a name to mark or to freeze, a row to persist.
Holdings == {Nothing} \cup [name : Names, step : {"mark", "freeze"}, row : Evaluated \cup {NoScreen}]
                      \cup [name : Names, step : {"persist"}, row : Evaluated]

Entries == [status : {"absent", "compliant", "non_compliant", "doubtful", "frozen", "pending_review"},
            frozen : BOOLEAN]

\* A job that has yet to freeze s.
ToFreeze(s) == \E j \in Jobs : holds[j].name = s /\ holds[j].step = "freeze"

ShType ==
    /\ books \in [Names -> Snapshots]
    /\ whitelist \in [Names -> Entries]
    /\ screened \in [Names -> Evaluated \cup {NoScreen}]
    /\ todo \in [Jobs -> SUBSET Names]
    /\ holds \in [Jobs -> Holdings]
    /\ seeding \subseteq Names /\ vouched \subseteq Names /\ dropped \subseteq Names

\* A name whose newest row is not clear is frozen or about to be, unless that was undone.
FreezePending ==
    \A s \in Names :
        screened[s].final \in NonClear /\ s \notin dropped => whitelist[s].frozen \/ ToFreeze(s)

ShInv == ShType /\ BuyableIsCleared /\ FreezePending

----------------------------------------------------------------------------
\* The combination of the sources clears a name on both or on the local board only.
LEMMA PassIsCleared ==
    ASSUME NEW row \in Evaluated, row.final = "pass"
    PROVE  row.local = "pass" \/ (row.inHouse = "pass" /\ row.second = "pass")
BY DEF Evaluated, ApplyAuthority, Combine, Screens

\* Whatever the sources answer, there is a verdict.
LEMMA EvaluateMakesRows ==
    ASSUME NEW f \in Snapshots, NEW second \in CrossChecks, NEW local \in Locals
    PROVE  [inHouse |-> Screen(f), second |-> second, local |-> local,
            final |-> ApplyAuthority(Combine(Screen(f), second), local)] \in Evaluated
<1>1. Screen(f) \in Screens
  BY DEF Screen, Screens
<1>2. Combine(Screen(f), second) \in {"pass", "doubtful", "fail", "pending_review"}
  BY DEF Combine
<1>3. ApplyAuthority(Combine(Screen(f), second), local) \in {"pass", "doubtful", "fail", "pending_review"}
  BY <1>2, ShariaConstants DEF ApplyAuthority
<1> QED BY <1>1, <1>3 DEF Evaluated

LEMMA ShInit == Init => ShInv
<1> SUFFICES ASSUME Init PROVE ShInv
  OBVIOUS
<1>1. ShType
  BY DEF Init, ShType, Entries, Absent, Holdings, Nothing, NoScreen
<1>2. BuyableIsCleared
  BY DEF Init, BuyableIsCleared, Buyable, Absent
<1>3. FreezePending
  BY DEF Init, FreezePending, NoScreen, NonClear
<1> QED BY <1>1, <1>2, <1>3 DEF ShInv

----------------------------------------------------------------------------
\* A step that leaves the tables alone, and every duty to freeze.
LEMMA TablesAlone ==
    ASSUME ShInv, whitelist' = whitelist, screened' = screened, vouched' = vouched,
           dropped \subseteq dropped',
           \A s \in Names : ToFreeze(s) => ToFreeze(s)' \/ s \in dropped'
    PROVE  BuyableIsCleared' /\ FreezePending'
BY DEF ShInv, BuyableIsCleared, Buyable, FreezePending

\* What a job holds after it takes up a verdict or lets go of one.
LEMMA HoldsType ==
    ASSUME ShType, NEW j \in Jobs, NEW h \in Holdings, holds' = [holds EXCEPT ![j] = h]
    PROVE  holds' \in [Jobs -> Holdings]
BY DEF ShType

LEMMA NothingHeld == Nothing \in Holdings
BY DEF Holdings

\* Taking a verdict up or letting go of anything but a freeze drops no duty.
LEMMA DutiesKept ==
    ASSUME ShType, NEW j \in Jobs, holds[j].step # "freeze", NEW h, holds' = [holds EXCEPT ![j] = h]
    PROVE  \A s \in Names : ToFreeze(s) => ToFreeze(s)'
BY DEF ToFreeze, ShType

LEMMA NothingIsNoFreeze == Nothing.step # "freeze"
BY DEF Nothing

\* The founder's acts.
LEMMA FounderKeeps ==
    ASSUME ShInv, NEW s \in Names, Seed(s) \/ AddInstrument(s) \/ Unfreeze(s)
    PROVE  ShInv'
<1>1. CASE Seed(s)
  <2>1. ShType'
    BY <1>1 DEF Seed, ShInv, ShType
  <2>2. \A x \in Names : ToFreeze(x) => ToFreeze(x)'
    BY <1>1 DEF Seed, ToFreeze
  <2>3. whitelist' = whitelist /\ screened' = screened /\ vouched' = vouched /\ dropped' = dropped
    BY <1>1 DEF Seed
  <2> QED BY <2>1, <2>2, <2>3, TablesAlone DEF ShInv
<1>2. CASE AddInstrument(s)
  <2>1. ShType'
    BY <1>2 DEF AddInstrument, ShInv, ShType, Entries, SeedStatus
  <2>2. BuyableIsCleared'
    BY <1>2 DEF AddInstrument, ShInv, ShType, BuyableIsCleared, Buyable, SeedStatus
  <2>3. FreezePending'
    BY <1>2 DEF AddInstrument, ShInv, ShType, FreezePending, ToFreeze
  <2> QED BY <2>1, <2>2, <2>3 DEF ShInv
<1>3. CASE Unfreeze(s)
  <2>1. ShType'
    BY <1>3 DEF Unfreeze, ShInv, ShType, Entries
  <2>2. BuyableIsCleared'
    BY <1>3 DEF Unfreeze, ShInv, ShType, BuyableIsCleared, Buyable
  <2>3. FreezePending'
    BY <1>3 DEF Unfreeze, ShInv, ShType, FreezePending, ToFreeze
  <2> QED BY <2>1, <2>2, <2>3 DEF ShInv
<1> QED BY <1>1, <1>2, <1>3

\* The steps of a job that reach a verdict write nothing.
LEMMA VerdictKeeps ==
    ASSUME ShInv, NEW j \in Jobs, NEW s \in Names,
           ScreenQuarterly(j, s) \/ QuarterlyFetchFails(j, s) \/ Evaluate(j, s)
    PROVE  ShInv'
<1>1. /\ whitelist' = whitelist /\ screened' = screened /\ vouched' = vouched /\ dropped' = dropped
      /\ books' = books /\ seeding' = seeding
      /\ todo' \in [Jobs -> SUBSET Names]
  BY DEF ScreenQuarterly, QuarterlyFetchFails, Evaluate, Next1, ShInv, ShType
<1>2. PICK h \in Holdings : holds' = [holds EXCEPT ![j] = h] /\ (holds[j] = h \/ holds[j] = Nothing)
  <2>1. ASSUME holds' = holds
        PROVE  \E h \in Holdings : holds' = [holds EXCEPT ![j] = h] /\ (holds[j] = h \/ holds[j] = Nothing)
    <3>1. holds' = [holds EXCEPT ![j] = holds[j]] /\ holds[j] \in Holdings
      BY <2>1 DEF ShInv, ShType
    <3> QED BY <3>1
  <2>2. ASSUME ScreenQuarterly(j, s)
        PROVE  \E h \in Holdings : holds' = [holds EXCEPT ![j] = h] /\ (holds[j] = h \/ holds[j] = Nothing)
    <3>1. \/ holds' = holds
          \/ \E step \in {"mark", "freeze"} : Hold(j, s, step, NoScreen) /\ holds[j] = Nothing
      BY <2>2 DEF ScreenQuarterly, Next1
    <3>2. \A step \in {"mark", "freeze"} : [name |-> s, step |-> step, row |-> NoScreen] \in Holdings
      BY DEF Holdings
    <3> QED BY <2>1, <3>1, <3>2 DEF Hold
  <2>3. ASSUME Evaluate(j, s)
        PROVE  \E h \in Holdings : holds' = [holds EXCEPT ![j] = h] /\ (holds[j] = h \/ holds[j] = Nothing)
    <3>1. books[s] \in Snapshots
      BY DEF ShInv, ShType
    <3>2. PICK second \in CrossChecks, local \in Locals :
             Hold(j, s, "persist",
                  [inHouse |-> Screen(books[s]), second |-> second, local |-> local,
                   final |-> ApplyAuthority(Combine(Screen(books[s]), second), local)])
      BY <2>3 DEF Evaluate
    <3>3. PICK row \in Evaluated : Hold(j, s, "persist", row)
      BY <3>1, <3>2, EvaluateMakesRows
    <3>4. [name |-> s, step |-> "persist", row |-> row] \in Holdings
      BY DEF Holdings
    <3>5. holds[j] = Nothing
      BY <2>3 DEF Evaluate, Next1
    <3> QED BY <3>3, <3>4, <3>5 DEF Hold
  <2>4. QuarterlyFetchFails(j, s) => holds' = holds
    BY DEF QuarterlyFetchFails
  <2> QED BY <2>1, <2>2, <2>3, <2>4
<1>3. ShType'
  BY <1>1, <1>2, HoldsType DEF ShInv, ShType
<1>4. \A x \in Names : ToFreeze(x) => ToFreeze(x)'
  <2>1. CASE holds[j] = h
    BY <1>2, <2>1 DEF ToFreeze, ShInv, ShType
  <2>2. CASE holds[j] = Nothing
    BY <1>2, <2>2, DutiesKept, NothingIsNoFreeze DEF ShInv
  <2> QED BY <1>2, <2>1, <2>2
<1> QED BY <1>1, <1>3, <1>4, TablesAlone DEF ShInv

\* The writes of a job.
LEMMA WriteKeeps ==
    ASSUME ShInv, NEW j \in Jobs, NEW x \in Names,
           CrossFetchFails(j, x) \/ MarkDoubtful(j) \/ Persist(j) \/ FreezeInstrument(j)
    PROVE  ShInv'
<1>0. holds[j] \in Holdings /\ ShType
  BY DEF ShInv, ShType
<1>1. CASE CrossFetchFails(j, x)
  <2>1. ShType'
    BY <1>1 DEF CrossFetchFails, Next1, Freeze, ShInv, ShType, Entries
  <2>2. BuyableIsCleared'
    BY <1>1 DEF CrossFetchFails, Freeze, ShInv, ShType, Entries, BuyableIsCleared, Buyable
  <2>3. FreezePending'
    BY <1>1 DEF CrossFetchFails, Freeze, ShInv, ShType, Entries, FreezePending, ToFreeze
  <2> QED BY <2>1, <2>2, <2>3 DEF ShInv
<1>2. CASE MarkDoubtful(j)
  <2>0. holds[j].name \in Names
    BY <1>0, <1>2 DEF MarkDoubtful, Holdings, Nothing
  <2>1. ShType'
    <3>1. whitelist' \in [Names -> Entries]
      BY <1>2, <2>0 DEF MarkDoubtful, ShInv, ShType, Entries
    <3>2. holds' \in [Jobs -> Holdings]
      BY <1>0, <1>2, HoldsType, NothingHeld DEF MarkDoubtful, Let
    <3> QED BY <1>2, <3>1, <3>2 DEF MarkDoubtful, ShInv, ShType
  <2>2. BuyableIsCleared'
    BY <1>2, <2>0 DEF MarkDoubtful, ShInv, ShType, Entries, BuyableIsCleared, Buyable
  <2>3. \A s \in Names : ToFreeze(s) => ToFreeze(s)'
    BY <1>0, <1>2, DutiesKept DEF MarkDoubtful, Let
  <2>4. FreezePending'
    BY <1>2, <2>0, <2>3 DEF MarkDoubtful, ShInv, ShType, Entries, FreezePending
  <2> QED BY <2>1, <2>2, <2>4 DEF ShInv
<1>3. CASE Persist(j)
  <2> DEFINE s == holds[j].name
             row == holds[j].row
  <2>0. s \in Names /\ row \in Evaluated
    BY <1>0, <1>3 DEF Persist, Holdings, Nothing
  <2>1. /\ screened' = [screened EXCEPT ![s] = row]
        /\ whitelist' = [whitelist EXCEPT ![s].status = WhitelistStatus[row.final]]
        /\ vouched' = vouched \ {s} /\ dropped' = dropped \ {s}
        /\ IF row.final \in NonClear THEN Hold(j, s, "freeze", row) ELSE Let(j)
        /\ UNCHANGED <<books, sanctioned, seeding, todo, jobs, turns, acts, faults>>
    BY <1>3 DEF Persist
  <2>2. row.final \in {"pass", "doubtful", "fail", "pending_review"}
    BY <2>0 DEF Evaluated
  <2> HIDE DEF s, row
  <2>3. /\ WhitelistStatus[row.final] \in {"compliant", "non_compliant", "doubtful", "pending_review"}
        /\ WhitelistStatus[row.final] = "compliant" => row.final = "pass"
    BY <2>2 DEF WhitelistStatus
  <2>4. PICK h \in Holdings : holds' = [holds EXCEPT ![j] = h]
                 /\ (row.final \in NonClear => h.name = s /\ h.step = "freeze")
    <3>1. [name |-> s, step |-> "freeze", row |-> row] \in Holdings
      BY <2>0 DEF Holdings
    <3> QED BY <2>1, <3>1, NothingHeld DEF Hold, Let
  <2>5. \A k \in Names : whitelist'[k] =
            IF k = s THEN [whitelist[s] EXCEPT !.status = WhitelistStatus[row.final]] ELSE whitelist[k]
    BY <1>0, <2>1 DEF ShType
  <2>6. ShType'
    <3>1. whitelist' \in [Names -> Entries]
      BY <1>0, <2>0, <2>1, <2>3 DEF ShType, Entries
    <3>2. screened' \in [Names -> Evaluated \cup {NoScreen}]
      BY <1>0, <2>0, <2>1 DEF ShType
    <3>3. holds' \in [Jobs -> Holdings]
      BY <1>0, <2>4, HoldsType
    <3> QED BY <1>0, <2>1, <3>1, <3>2, <3>3 DEF ShType
  <2>7. BuyableIsCleared'
    <3> SUFFICES ASSUME NEW k \in Names, Buyable(k)', k \notin vouched'
                 PROVE  /\ screened'[k].final = "pass"
                        /\ \/ screened'[k].local = "pass"
                           \/ screened'[k].inHouse = "pass" /\ screened'[k].second = "pass"
      BY DEF BuyableIsCleared
    <3>1. CASE k = s
      <4>1. screened'[k] = row
        BY <1>0, <2>1, <3>1 DEF ShType
      <4>2. whitelist'[k].status = WhitelistStatus[row.final]
        BY <1>0, <2>5, <3>1 DEF ShType, Entries
      <4>3. row.final = "pass"
        BY <2>3, <4>2 DEF Buyable
      <4> QED BY <2>0, <4>1, <4>3, PassIsCleared
    <3>2. CASE k # s
      <4>1. screened'[k] = screened[k] /\ whitelist'[k] = whitelist[k] /\ k \notin vouched
        BY <1>0, <2>1, <2>5, <3>2 DEF ShType
      <4> QED BY <4>1 DEF ShInv, BuyableIsCleared, Buyable
    <3> QED BY <3>1, <3>2
  <2>8. FreezePending'
    <3> SUFFICES ASSUME NEW k \in Names, screened'[k].final \in NonClear, k \notin dropped'
                 PROVE  whitelist'[k].frozen \/ ToFreeze(k)'
      BY DEF FreezePending
    <3>1. CASE k = s
      <4>1. screened'[k] = row
        BY <1>0, <2>1, <3>1 DEF ShType
      <4>2. holds'[j].name = k /\ holds'[j].step = "freeze"
        BY <1>0, <2>4, <3>1, <4>1 DEF ShType
      <4> QED BY <4>2 DEF ToFreeze
    <3>2. CASE k # s
      <4>1. screened'[k] = screened[k] /\ whitelist'[k] = whitelist[k] /\ k \notin dropped
        BY <1>0, <2>1, <2>5, <3>2 DEF ShType
      <4>2. whitelist[k].frozen \/ ToFreeze(k)
        BY <4>1 DEF ShInv, FreezePending
      <4>3. holds[j].step # "freeze"
        BY <1>3 DEF Persist
      <4>4. ToFreeze(k) => ToFreeze(k)'
        BY <1>0, <2>4, <4>3, DutiesKept
      <4> QED BY <4>1, <4>2, <4>4
    <3> QED BY <3>1, <3>2
  <2> QED BY <2>6, <2>7, <2>8 DEF ShInv
<1>4. CASE FreezeInstrument(j)
  <2>0. holds[j].name \in Names
    BY <1>0, <1>4 DEF FreezeInstrument, Holdings, Nothing
  <2>1. ShType'
    <3>1. whitelist' \in [Names -> Entries]
      BY <1>4, <2>0 DEF FreezeInstrument, Freeze, ShInv, ShType, Entries
    <3>2. holds' \in [Jobs -> Holdings]
      BY <1>0, <1>4, HoldsType, NothingHeld DEF FreezeInstrument, Let
    <3> QED BY <1>4, <3>1, <3>2 DEF FreezeInstrument, ShInv, ShType
  <2>2. BuyableIsCleared'
    BY <1>4, <2>0 DEF FreezeInstrument, Freeze, ShInv, ShType, Entries, BuyableIsCleared, Buyable
  <2>3. FreezePending'
    <3> SUFFICES ASSUME NEW k \in Names, screened'[k].final \in NonClear, k \notin dropped'
                 PROVE  whitelist'[k].frozen \/ ToFreeze(k)'
      BY DEF FreezePending
    <3>1. screened' = screened /\ dropped' = dropped
      BY <1>4 DEF FreezeInstrument
    <3>2. CASE k = holds[j].name
      BY <1>0, <1>4, <2>0, <3>2 DEF FreezeInstrument, Freeze, ShType, Entries
    <3>3. CASE k # holds[j].name
      <4>1. whitelist'[k] = whitelist[k]
        BY <1>0, <1>4, <3>3 DEF FreezeInstrument, Freeze, ShType
      <4>2. ToFreeze(k) => ToFreeze(k)'
        BY <1>0, <1>4, <3>3 DEF FreezeInstrument, Let, ToFreeze, ShType
      <4> QED BY <3>1, <4>1, <4>2 DEF ShInv, FreezePending
    <3> QED BY <3>2, <3>3
  <2> QED BY <2>1, <2>2, <2>3 DEF ShInv
<1> QED BY <1>1, <1>2, <1>3, <1>4

LEMMA CrashKeeps ==
    ASSUME ShInv, NEW j \in Jobs, Crash(j)
    PROVE  ShInv'
<1>0. holds[j] \in Holdings /\ ShType
  BY DEF ShInv, ShType
<1>1. holds' \in [Jobs -> Holdings]
  BY <1>0, HoldsType, NothingHeld DEF Crash, Let
<1>2. dropped \subseteq dropped' /\ dropped' \subseteq Names
  BY <1>0 DEF Crash, Holdings, Nothing, ShType
<1>3. ShType'
  BY <1>0, <1>1, <1>2 DEF Crash, ShType
<1>4. ASSUME NEW s \in Names, ToFreeze(s)
      PROVE  ToFreeze(s)' \/ s \in dropped'
  <2>1. PICK k \in Jobs : holds[k].name = s /\ holds[k].step = "freeze"
    BY <1>4 DEF ToFreeze
  <2>2. CASE k = j
    BY <2>1, <2>2 DEF Crash
  <2>3. CASE k # j
    BY <1>0, <2>1, <2>3 DEF Crash, Let, ToFreeze, ShType
  <2> QED BY <2>2, <2>3
<1>5. whitelist' = whitelist /\ screened' = screened /\ vouched' = vouched
  BY DEF Crash
<1> QED BY <1>2, <1>3, <1>4, <1>5, TablesAlone DEF ShInv

LEMMA TurnKeeps ==
    ASSUME ShInv, Turn
    PROVE  ShInv'
<1>1. ShType'
  BY DEF Turn, ShInv, ShType
<1>2. \A s \in Names : ToFreeze(s) => ToFreeze(s)'
  BY DEF Turn, ToFreeze
<1>3. whitelist' = whitelist /\ screened' = screened /\ vouched' = vouched /\ dropped' = dropped
  BY DEF Turn
<1> QED BY <1>1, <1>2, <1>3, TablesAlone DEF ShInv

\* ShInv is inductive.
LEMMA ShNext == ShInv /\ [Next]_shariaVars => ShInv'
<1> SUFFICES ASSUME ShInv, [Next]_shariaVars
             PROVE  ShInv'
  OBVIOUS
<1>1. ASSUME NEW s \in Names, Seed(s) \/ AddInstrument(s) \/ Unfreeze(s)
      PROVE  ShInv'
  BY <1>1, FounderKeeps
<1>2. ASSUME NEW j \in Jobs, StartJob(j)
      PROVE  ShInv'
  <2>1. ShType'
    BY <1>2 DEF StartJob, Listed, ShInv, ShType
  <2>2. \A s \in Names : ToFreeze(s) => ToFreeze(s)'
    BY <1>2 DEF StartJob, ToFreeze
  <2>3. whitelist' = whitelist /\ screened' = screened /\ vouched' = vouched /\ dropped' = dropped
    BY <1>2 DEF StartJob
  <2> QED BY <2>1, <2>2, <2>3, TablesAlone DEF ShInv
<1>3. ASSUME NEW j \in Jobs, NEW s \in Names,
             ScreenQuarterly(j, s) \/ QuarterlyFetchFails(j, s) \/ Evaluate(j, s)
      PROVE  ShInv'
  BY <1>3, VerdictKeeps
<1>4. ASSUME NEW j \in Jobs, NEW s \in Names, CrossFetchFails(j, s)
      PROVE  ShInv'
  BY <1>4, WriteKeeps
<1>5. ASSUME NEW j \in Jobs, MarkDoubtful(j) \/ Persist(j) \/ FreezeInstrument(j)
      PROVE  ShInv'
  <2>1. holds[j].name \in Names
    BY <1>5 DEF MarkDoubtful, Persist, FreezeInstrument, ShInv, ShType, Holdings, Nothing
  <2> QED BY <1>5, <2>1, WriteKeeps
<1>6. ASSUME NEW j \in Jobs, Crash(j)
      PROVE  ShInv'
  BY <1>6, CrashKeeps
<1>7. CASE Turn
  BY <1>7, TurnKeeps
<1>8. CASE UNCHANGED shariaVars
  BY <1>8 DEF shariaVars, ShInv, ShType, BuyableIsCleared, Buyable, FreezePending, ToFreeze
<1> QED BY <1>1, <1>2, <1>3, <1>4, <1>5, <1>6, <1>7, <1>8 DEF Next, Step

THEOREM ShariaShape == Spec => []ShInv
<1> QED BY ShInit, ShNext, PTL DEF Spec

\* No order of jobs, crashes, seeds and unfreezes makes a name buyable on one source.
THEOREM OnlyClearedIsBuyable == Spec => []BuyableIsCleared
<1>1. ShInv => BuyableIsCleared
  BY DEF ShInv
<1> QED BY <1>1, ShariaShape, PTL

\* What is not clear is frozen once nobody has it in hand, and without the founder's word
\* it is never buyable.
THEOREM NonClearFreezes == Spec => []NonClearIsFrozen
<1>1. ASSUME ShInv, NEW s \in Names, screened[s].final \in NonClear, \A j \in Jobs : holds[j].name # s
      PROVE  /\ s \notin dropped => whitelist[s].frozen
             /\ s \notin vouched => ~Buyable(s)
  <2>1. s \notin dropped => whitelist[s].frozen
    BY <1>1 DEF ShInv, FreezePending, ToFreeze
  <2>2. s \notin vouched => ~Buyable(s)
    BY <1>1 DEF ShInv, BuyableIsCleared, NonClear
  <2> QED BY <2>1, <2>2
<1>2. ShInv => NonClearIsFrozen
  BY <1>1 DEF NonClearIsFrozen
<1> QED BY <1>2, ShariaShape, PTL

----------------------------------------------------------------------------
\* The screen itself, over every company's books.

LEMMA BooksAreNumbers ==
    ASSUME NEW f \in Snapshots
    PROVE  /\ f \in Books
           /\ f.debt \in Nat /\ f.deposits \in Nat /\ f.invested \in Nat /\ f.receivables \in Nat
           /\ f.impure \in Nat /\ f.average \in Nat /\ f.spot \in Nat /\ f.assets \in Nat
           /\ f.revenue \in Nat /\ f.banned \in BOOLEAN
<1>1. f \in Books
  BY ShariaConstants
<1> QED BY <1>1 DEF Books

\* What fails a ratio, and what keeps it from a pass.
LEMMA ScreenByRatio ==
    ASSUME NEW f
    PROVE  /\ Screen(f) \in {"pass", "doubtful", "fail"}
           /\ Screen(f) = "fail" <=>
                \/ f.banned
                \/ Breach(f.debt, f.average, 30)
                \/ Breach(f.deposits + f.invested, f.average, 30)
                \/ Breach(f.deposits + f.receivables, f.assets, 67)
                \/ Breach(f.impure, f.revenue, 5)
           /\ Screen(f) = "pass" <=>
                /\ Screen(f) # "fail"
                /\ ~NearMiss(f.debt, f.average, 30, TRUE)
                /\ ~NearMiss(f.deposits + f.invested, f.average, 30, TRUE)
                /\ ~NearMiss(f.deposits + f.receivables, f.assets, 67, FALSE)
                /\ ~NearMiss(f.impure, f.revenue, 5, FALSE)
BY DEF Screen

\* A ratio gets no better when it is taken of more, over less.
LEMMA WorseRatio ==
    ASSUME NEW n \in Nat, NEW d \in Nat, NEW m \in Nat, NEW e \in Nat,
           m >= n, e <= d, e = 0 <=> d = 0
    PROVE  /\ Breach(n, d, 30) => Breach(m, e, 30)
           /\ Breach(n, d, 67) => Breach(m, e, 67)
           /\ Breach(n, d, 5) => Breach(m, e, 5)
           /\ NearMiss(n, d, 30, TRUE) => NearMiss(m, e, 30, TRUE) \/ Breach(m, e, 30)
           /\ NearMiss(n, d, 67, FALSE) => NearMiss(m, e, 67, FALSE)
           /\ NearMiss(n, d, 5, FALSE) => NearMiss(m, e, 5, FALSE)
BY DEF Breach, NearMiss

LEMMA RankOrder ==
    ASSUME NEW f, NEW g,
           Screen(f) = "fail" => Screen(g) = "fail",
           Screen(g) = "pass" => Screen(f) = "pass"
    PROVE  Milder(f, g)
<1>1. \A a \in {"pass", "doubtful", "fail"}, b \in {"pass", "doubtful", "fail"} :
         (a = "fail" => b = "fail") /\ (b = "pass" => a = "pass") => Rank[a] <= Rank[b]
  BY DEF Rank
<1>2. Screen(f) \in {"pass", "doubtful", "fail"} /\ Screen(g) \in {"pass", "doubtful", "fail"}
  BY ScreenByRatio
<1> QED BY <1>1, <1>2 DEF Milder

LEMMA CompactFields ==
    ASSUME NEW f \in Books, NEW given \in SUBSET Optional
    PROVE  LET c == Compact(f, given)
           IN  /\ c \in Books
               /\ c.debt = f.debt /\ c.deposits = 0 /\ c.invested = f.deposits + f.invested
               /\ c.receivables = IF "receivables" \in given THEN f.receivables ELSE 0
               /\ "total_assets" \in given => c.assets = f.assets
               /\ "total_assets" \notin given => c.assets > 0
               /\ c.impure = IF f.revenue > 0 THEN f.impure ELSE 0
               /\ c.revenue = IF f.revenue > 0 THEN f.revenue ELSE 1
               /\ c.average = f.spot /\ c.spot = f.spot
               /\ c.banned = (f.banned /\ "sector" \in given)
<1> DEFINE receivables == IF "receivables" \in given THEN f.receivables ELSE 0
           assets == CASE "total_assets" \in given -> f.assets
                       [] "total_assets" \notin given /\ f.spot > 0 -> f.spot
                       [] OTHER -> 1
           impure == IF f.revenue > 0 THEN f.impure ELSE 0
           revenue == IF f.revenue > 0 THEN f.revenue ELSE 1
           banned == f.banned /\ "sector" \in given
           c == [debt |-> f.debt, deposits |-> 0, invested |-> f.deposits + f.invested,
                 receivables |-> receivables, impure |-> impure, average |-> f.spot,
                 spot |-> f.spot, assets |-> assets, revenue |-> revenue, banned |-> banned]
<1>1. Compact(f, given) = c
  <2>1. f = [debt |-> f.debt, deposits |-> f.deposits, invested |-> f.invested,
             receivables |-> f.receivables, impure |-> f.impure, average |-> f.average,
             spot |-> f.spot, assets |-> f.assets, revenue |-> f.revenue, banned |-> f.banned]
    BY DEF Books
  <2>2. Compact(f, given) =
          [f EXCEPT !.average = f.spot, !.deposits = 0, !.invested = f.deposits + f.invested,
                    !.receivables = receivables, !.assets = assets, !.impure = impure,
                    !.revenue = revenue, !.banned = banned]
    BY DEF Compact
  <2> DEFINE total == f.deposits + f.invested
  <2> HIDE DEF receivables, assets, impure, revenue, banned, total
  <2>3. Compact(f, given) =
          [debt |-> f.debt, deposits |-> 0, invested |-> total, receivables |-> receivables,
           impure |-> impure, average |-> f.spot, spot |-> f.spot, assets |-> assets,
           revenue |-> revenue, banned |-> banned]
    BY <2>1, <2>2 DEF total
  <2> QED BY <2>3 DEF total
<1>2. /\ f.debt \in Nat /\ f.deposits \in Nat /\ f.invested \in Nat /\ f.spot \in Nat
      /\ f.receivables \in Nat /\ f.assets \in Nat /\ f.impure \in Nat /\ f.revenue \in Nat
      /\ f.banned \in BOOLEAN
  BY DEF Books
<1>3. receivables \in Nat /\ impure \in Nat /\ revenue \in Nat /\ banned \in BOOLEAN
  BY <1>2
<1>4. /\ assets \in Nat
      /\ "total_assets" \in given => assets = f.assets
      /\ "total_assets" \notin given => assets > 0
  <2>1. CASE "total_assets" \in given
    BY <1>2, <2>1
  <2>2. CASE "total_assets" \notin given /\ f.spot > 0
    BY <1>2, <2>2
  <2>3. CASE "total_assets" \notin given /\ ~(f.spot > 0)
    BY <1>2, <2>3
  <2> QED BY <2>1, <2>2, <2>3
<1>5. f.deposits + f.invested \in Nat
  BY <1>2
<1> HIDE DEF assets
<1>6. c \in Books
  BY <1>2, <1>3, <1>4, <1>5 DEF Books
<1> QED BY <1>1, <1>4, <1>6

\* The compact screen of a cap that has not fallen: each of its ratios is taken of no more
\* over no less than the full one.
LEMMA CompactIsMilder ==
    ASSUME NEW f \in Snapshots
    PROVE  NeverStricter(f)
<1> SUFFICES ASSUME f.spot = f.average \/ (0 < f.average /\ f.average < f.spot),
                    NEW given \in SUBSET Optional, "receivables" \in given => "total_assets" \in given
             PROVE  Milder(Compact(f, given), f)
  BY DEF NeverStricter
<1> DEFINE c == Compact(f, given)
<1>0. /\ f \in Books /\ f.debt \in Nat /\ f.deposits \in Nat /\ f.invested \in Nat
      /\ f.receivables \in Nat /\ f.impure \in Nat /\ f.average \in Nat /\ f.spot \in Nat
      /\ f.assets \in Nat /\ f.revenue \in Nat /\ f.banned \in BOOLEAN
  BY BooksAreNumbers
<1>1. /\ c.debt = f.debt /\ c.deposits = 0 /\ c.invested = f.deposits + f.invested
      /\ c.receivables = IF "receivables" \in given THEN f.receivables ELSE 0
      /\ "total_assets" \in given => c.assets = f.assets
      /\ "total_assets" \notin given => c.assets > 0
      /\ c.impure = IF f.revenue > 0 THEN f.impure ELSE 0
      /\ c.revenue = IF f.revenue > 0 THEN f.revenue ELSE 1
      /\ c.average = f.spot /\ c.banned = (f.banned /\ "sector" \in given)
  BY <1>0, CompactFields
<1>2. c.assets \in Nat
  BY <1>0, CompactFields DEF Books
<1> HIDE DEF c
<1>3. /\ Breach(c.debt, c.average, 30) => Breach(f.debt, f.average, 30)
      /\ NearMiss(c.debt, c.average, 30, TRUE) =>
            NearMiss(f.debt, f.average, 30, TRUE) \/ Breach(f.debt, f.average, 30)
  BY <1>0, <1>1 DEF Breach, NearMiss
<1>4. /\ Breach(c.deposits + c.invested, c.average, 30) => Breach(f.deposits + f.invested, f.average, 30)
      /\ NearMiss(c.deposits + c.invested, c.average, 30, TRUE) =>
            \/ NearMiss(f.deposits + f.invested, f.average, 30, TRUE)
            \/ Breach(f.deposits + f.invested, f.average, 30)
  <2>1. c.deposits + c.invested = f.deposits + f.invested
    BY <1>0, <1>1
  <2>2. f.deposits + f.invested \in Nat
    BY <1>0
  <2> QED BY <1>0, <1>1, <2>1, <2>2 DEF Breach, NearMiss
<1>5. /\ Breach(c.deposits + c.receivables, c.assets, 67) => Breach(f.deposits + f.receivables, f.assets, 67)
      /\ NearMiss(c.deposits + c.receivables, c.assets, 67, FALSE) =>
            NearMiss(f.deposits + f.receivables, f.assets, 67, FALSE)
  BY <1>0, <1>1, <1>2 DEF Breach, NearMiss
<1>6. /\ Breach(c.impure, c.revenue, 5) => Breach(f.impure, f.revenue, 5)
      /\ ~NearMiss(c.impure, c.revenue, 5, FALSE)
  BY <1>0, <1>1 DEF Breach, NearMiss
<1>7. Screen(c) = "fail" => Screen(f) = "fail"
  BY <1>1, <1>3, <1>4, <1>5, <1>6, ScreenByRatio
<1>8. Screen(f) = "pass" => Screen(c) = "pass"
  BY <1>3, <1>4, <1>5, <1>6, <1>7, ScreenByRatio
<1> QED BY <1>7, <1>8, RankOrder DEF c

\* With every optional field and a cap that has not risen, only the receivables ratio and
\* the income are taken of less.
LEMMA CompactMissesOnlyCash ==
    ASSUME NEW f \in Snapshots
    PROVE  MissesOnlyCash(f)
<1> SUFFICES ASSUME f.spot <= f.average, f.spot = 0 => f.average = 0,
                    ~Breach(f.deposits + f.receivables, f.assets, 67), f.revenue # 0
             PROVE  Milder(f, Compact(f, Optional))
  BY DEF MissesOnlyCash
<1> DEFINE c == Compact(f, Optional)
<1>0. /\ f \in Books /\ f.debt \in Nat /\ f.deposits \in Nat /\ f.invested \in Nat
      /\ f.receivables \in Nat /\ f.impure \in Nat /\ f.average \in Nat /\ f.spot \in Nat
      /\ f.assets \in Nat /\ f.revenue \in Nat /\ f.banned \in BOOLEAN
  BY BooksAreNumbers
<1>1. /\ c.debt = f.debt /\ c.deposits = 0 /\ c.invested = f.deposits + f.invested
      /\ c.receivables = f.receivables /\ c.assets = f.assets
      /\ c.impure = f.impure /\ c.revenue = f.revenue
      /\ c.average = f.spot /\ c.banned = f.banned
  BY <1>0, CompactFields DEF Optional
<1> HIDE DEF c
<1>2. /\ Breach(f.debt, f.average, 30) => Breach(c.debt, c.average, 30)
      /\ NearMiss(f.debt, f.average, 30, TRUE) =>
            NearMiss(c.debt, c.average, 30, TRUE) \/ Breach(c.debt, c.average, 30)
  BY <1>0, <1>1 DEF Breach, NearMiss
<1>3. /\ Breach(f.deposits + f.invested, f.average, 30) => Breach(c.deposits + c.invested, c.average, 30)
      /\ NearMiss(f.deposits + f.invested, f.average, 30, TRUE) =>
            \/ NearMiss(c.deposits + c.invested, c.average, 30, TRUE)
            \/ Breach(c.deposits + c.invested, c.average, 30)
  <2>1. c.deposits + c.invested = f.deposits + f.invested
    BY <1>0, <1>1
  <2>2. f.deposits + f.invested \in Nat
    BY <1>0
  <2> QED BY <1>0, <1>1, <2>1, <2>2 DEF Breach, NearMiss
<1>4. NearMiss(f.deposits + f.receivables, f.assets, 67, FALSE) =>
         NearMiss(c.deposits + c.receivables, c.assets, 67, FALSE)
  BY <1>1 DEF NearMiss
<1>5. Screen(f) = "fail" => Screen(c) = "fail"
  BY <1>1, <1>2, <1>3, ScreenByRatio
<1>6. Screen(c) = "pass" => Screen(f) = "pass"
  BY <1>1, <1>2, <1>3, <1>4, <1>5, ScreenByRatio
<1> QED BY <1>5, <1>6, RankOrder DEF c

LEMMA WorseIsNoMilder ==
    ASSUME NEW f \in Books, NEW g \in Books, Worse(g, f)
    PROVE  Milder(f, g)
<1>0. /\ f.debt \in Nat /\ f.deposits \in Nat /\ f.invested \in Nat /\ f.receivables \in Nat
      /\ f.impure \in Nat /\ f.average \in Nat /\ f.assets \in Nat /\ f.revenue \in Nat
      /\ f.deposits + f.invested \in Nat /\ f.deposits + f.receivables \in Nat
  BY DEF Books
<1>1. /\ g.debt \in Nat /\ g.deposits \in Nat /\ g.invested \in Nat /\ g.receivables \in Nat
      /\ g.impure \in Nat /\ g.average \in Nat /\ g.assets \in Nat /\ g.revenue \in Nat
      /\ g.deposits + g.invested \in Nat /\ g.deposits + g.receivables \in Nat
  BY DEF Books
<1>2. /\ g.debt >= f.debt /\ g.deposits >= f.deposits /\ g.invested >= f.invested
      /\ g.receivables >= f.receivables /\ g.impure >= f.impure
      /\ g.average <= f.average /\ (g.average = 0 <=> f.average = 0)
      /\ g.assets <= f.assets /\ (g.assets = 0 <=> f.assets = 0)
      /\ g.revenue <= f.revenue /\ (g.revenue = 0 <=> f.revenue = 0)
      /\ f.banned => g.banned
  BY DEF Worse, Amounts, Denominators
<1>3. /\ g.deposits + g.invested >= f.deposits + f.invested
      /\ g.deposits + g.receivables >= f.deposits + f.receivables
  BY <1>0, <1>1, <1>2
<1>4. /\ Breach(f.debt, f.average, 30) => Breach(g.debt, g.average, 30)
      /\ NearMiss(f.debt, f.average, 30, TRUE) =>
            NearMiss(g.debt, g.average, 30, TRUE) \/ Breach(g.debt, g.average, 30)
  BY <1>0, <1>1, <1>2, WorseRatio
<1>5. /\ Breach(f.deposits + f.invested, f.average, 30) => Breach(g.deposits + g.invested, g.average, 30)
      /\ NearMiss(f.deposits + f.invested, f.average, 30, TRUE) =>
            \/ NearMiss(g.deposits + g.invested, g.average, 30, TRUE)
            \/ Breach(g.deposits + g.invested, g.average, 30)
  <2> DEFINE n == f.deposits + f.invested
             k == g.deposits + g.invested
  <2>1. n \in Nat /\ k \in Nat /\ k >= n
    BY <1>0, <1>1, <1>3
  <2> HIDE DEF n, k
  <2>2. /\ Breach(n, f.average, 30) => Breach(k, g.average, 30)
        /\ NearMiss(n, f.average, 30, TRUE) => NearMiss(k, g.average, 30, TRUE) \/ Breach(k, g.average, 30)
    BY <1>0, <1>1, <1>2, <2>1, WorseRatio
  <2> QED BY <2>2 DEF n, k
<1>6. /\ Breach(f.deposits + f.receivables, f.assets, 67) => Breach(g.deposits + g.receivables, g.assets, 67)
      /\ NearMiss(f.deposits + f.receivables, f.assets, 67, FALSE) =>
            NearMiss(g.deposits + g.receivables, g.assets, 67, FALSE)
  <2> DEFINE n == f.deposits + f.receivables
             k == g.deposits + g.receivables
  <2>1. n \in Nat /\ k \in Nat /\ k >= n
    BY <1>0, <1>1, <1>3
  <2> HIDE DEF n, k
  <2>2. Breach(n, f.assets, 67) => Breach(k, g.assets, 67)
    BY <1>0, <1>1, <1>2, <2>1, WorseRatio
  <2>3. NearMiss(n, f.assets, 67, FALSE) => NearMiss(k, g.assets, 67, FALSE)
    BY <1>2 DEF NearMiss
  <2> QED BY <2>2, <2>3 DEF n, k
<1>7. /\ Breach(f.impure, f.revenue, 5) => Breach(g.impure, g.revenue, 5)
      /\ NearMiss(f.impure, f.revenue, 5, FALSE) => NearMiss(g.impure, g.revenue, 5, FALSE)
  <2> DEFINE n == f.impure
             k == g.impure
             d == f.revenue
             e == g.revenue
  <2>1. n \in Nat /\ k \in Nat /\ k >= n /\ d \in Nat /\ e \in Nat /\ e <= d /\ (e = 0 <=> d = 0)
    BY <1>0, <1>1, <1>2
  <2> HIDE DEF n, k, d, e
  <2>3. Breach(n, d, 5) => Breach(k, e, 5)
    BY <2>1, WorseRatio
  <2>2. NearMiss(f.impure, f.revenue, 5, FALSE) => NearMiss(g.impure, g.revenue, 5, FALSE)
    BY <1>2 DEF NearMiss
  <2> QED BY <2>2, <2>3 DEF n, k, d, e
<1>8. Screen(f) = "fail" => Screen(g) = "fail"
  BY <1>2, <1>4, <1>5, <1>6, <1>7, ScreenByRatio
<1>9. Screen(g) = "pass" => Screen(f) = "pass"
  BY <1>4, <1>5, <1>6, <1>7, <1>8, ScreenByRatio
<1> QED BY <1>8, <1>9, RankOrder

\* Worse books stay worse on their way through the compact snapshot.
LEMMA CompactKeepsWorse ==
    ASSUME NEW f \in Books, NEW g \in Books, Worse(g, f), f.revenue > 0 <=> g.revenue > 0
    PROVE  Worse(Compact(g, Optional), Compact(f, Optional))
<1>1. /\ f.deposits \in Nat /\ f.invested \in Nat /\ g.deposits \in Nat /\ g.invested \in Nat
      /\ f.revenue \in Nat /\ g.revenue \in Nat /\ f.impure \in Nat /\ g.impure \in Nat
      /\ f.spot \in Nat /\ g.spot \in Nat /\ f.assets \in Nat /\ g.assets \in Nat
  BY DEF Books
<1>2. /\ \A k \in Amounts : g[k] >= f[k]
      /\ \A k \in Denominators : g[k] <= f[k] /\ (g[k] = 0 <=> f[k] = 0)
      /\ f.banned => g.banned
  BY DEF Worse
<1>3. /\ g.debt >= f.debt /\ g.deposits >= f.deposits /\ g.invested >= f.invested
      /\ g.receivables >= f.receivables /\ g.impure >= f.impure
      /\ g.spot <= f.spot /\ (g.spot = 0 <=> f.spot = 0)
      /\ g.assets <= f.assets /\ (g.assets = 0 <=> f.assets = 0)
      /\ g.revenue <= f.revenue /\ (g.revenue = 0 <=> f.revenue = 0)
  BY <1>2 DEF Amounts, Denominators
<1> DEFINE c == Compact(f, Optional)
           e == Compact(g, Optional)
<1>4. /\ c.debt = f.debt /\ c.deposits = 0 /\ c.invested = f.deposits + f.invested
      /\ c.receivables = f.receivables /\ c.assets = f.assets
      /\ c.impure = IF f.revenue > 0 THEN f.impure ELSE 0
      /\ c.revenue = IF f.revenue > 0 THEN f.revenue ELSE 1
      /\ c.average = f.spot /\ c.spot = f.spot /\ c.banned = f.banned
  BY CompactFields DEF Optional, Books
<1>5. /\ e.debt = g.debt /\ e.deposits = 0 /\ e.invested = g.deposits + g.invested
      /\ e.receivables = g.receivables /\ e.assets = g.assets
      /\ e.impure = IF g.revenue > 0 THEN g.impure ELSE 0
      /\ e.revenue = IF g.revenue > 0 THEN g.revenue ELSE 1
      /\ e.average = g.spot /\ e.spot = g.spot /\ e.banned = g.banned
  BY CompactFields DEF Optional, Books
<1> HIDE DEF c, e
<1>6. \A k \in Amounts : e[k] >= c[k]
  BY <1>1, <1>3, <1>4, <1>5 DEF Amounts
<1>7. \A k \in Denominators : e[k] <= c[k] /\ (e[k] = 0 <=> c[k] = 0)
  BY <1>1, <1>3, <1>4, <1>5 DEF Denominators
<1> QED BY <1>2, <1>4, <1>5, <1>6, <1>7 DEF Worse, c, e

\* The two screens contradict each other in nothing but what the compact snapshot loses,
\* worse books never screen better, and nothing passes on data that is missing - for
\* whatever books come.
THEOREM ScreensNeverDisagree == Spec => []ScreensAgree
<1>1. ASSUME ShInv PROVE ScreensAgree
  <2> SUFFICES ASSUME NEW s \in Names PROVE books[s] \in InOrder
    BY DEF ScreensAgree
  <2> DEFINE f == books[s]
  <2>1. f \in Snapshots
    BY <1>1 DEF ShInv, ShType
  <2> HIDE DEF f
  <2>2. f \in Books /\ f.average \in Nat /\ f.assets \in Nat /\ f.revenue \in Nat
    BY <2>1, BooksAreNumbers
  <2>3. ASSUME NEW g \in Snapshots, Worse(g, f)
        PROVE  /\ Milder(f, g) /\ Milder(Compact(f, Optional), Compact(g, Optional))
    <3>1. g \in Books /\ g.revenue \in Nat
      BY BooksAreNumbers
    <3>2. f.revenue > 0 <=> g.revenue > 0
      BY <2>2, <2>3, <3>1 DEF Worse, Denominators
    <3>3. Compact(f, Optional) \in Books /\ Compact(g, Optional) \in Books
      BY <2>2, <3>1, CompactFields
    <3>4. Worse(Compact(g, Optional), Compact(f, Optional))
      BY <2>2, <2>3, <3>1, <3>2, CompactKeepsWorse
    <3> QED BY <2>2, <2>3, <3>1, <3>3, <3>4, WorseIsNoMilder
  <2>4. Screen(f) = "pass" => f.average > 0 /\ f.assets > 0 /\ f.revenue > 0
    BY <2>2, ScreenByRatio DEF NearMiss
  <2>5. NeverStricter(f) /\ MissesOnlyCash(f)
    BY <2>1, CompactIsMilder, CompactMissesOnlyCash
  <2>6. f \in InOrder
    BY <2>1, <2>3, <2>4, <2>5 DEF InOrder
  <2> QED BY <2>6 DEF f
<1> QED BY <1>1, ShariaShape, PTL

----------------------------------------------------------------------------
(* Autonomy.  The way to ACTING, to a live rung and to production is long, *)
(* and each property speaks of its end: the invariant says of every stage  *)
(* on the way what has been passed by then.                                *)

Modes == {"backtest", "realistic_paper", "shadow", "live_small", "live_scale"}
Stages == {"PRODUCT_THESIS", "PRD", "BUILD_PLAN", "ISSUES", "MVP", "TESTS",
           "STAGING", "APPROVAL", "PRODUCTION", "MEASURE"}

AuType ==
    /\ state \in States /\ trail \subseteq States /\ let \in BOOLEAN
    /\ mode \in [Strategies -> Modes]
    /\ climb \in [Strategies -> [Modes -> {"none", "founder", "evidence"}]]
    /\ stage \in Stages \cup {"none"} /\ passed \subseteq {"thesis", "tests", "launch"}

\* The operator's way since its last rest.
WayThere ==
    /\ state \in {"FORMING_THESIS", "TESTING_EDGE", "AWAITING_APPROVAL", "ACTING"} => "FORMING_THESIS" \in trail
    /\ state \in {"TESTING_EDGE", "AWAITING_APPROVAL", "ACTING"} => "TESTING_EDGE" \in trail
    /\ state \in {"AWAITING_APPROVAL", "ACTING"} => "AWAITING_APPROVAL" \in trail
    /\ "PAUSED" \in trail => state \in {"PAUSED", "KILLED"}
    /\ state \notin {"PAUSED", "KILLED"} => let

\* Every rung above the cooldown up to the strategy's own was earned or granted.
RungsWon ==
    \A s \in Strategies : \A i \in 3..Rung(mode[s]) :
        climb[s][Ladder[i]] \in (IF Ladder[i] \in LiveRungs THEN {"founder"} ELSE {"founder", "evidence"})

\* The product's way through the pipeline.
GatesPassed ==
    /\ stage # "none" => "thesis" \in passed
    /\ stage \in {"STAGING", "APPROVAL", "PRODUCTION", "MEASURE"} => "tests" \in passed
    /\ stage \in {"PRODUCTION", "MEASURE"} => "launch" \in passed

AuInv == AuType /\ WayThere /\ RungsWon /\ GatesPassed

LEMMA StatesAre ==
    States = {"IDLE", "OBSERVING", "RESEARCHING", "FORMING_THESIS", "TESTING_EDGE",
              "AWAITING_APPROVAL", "ACTING", "MONITORING", "LEARNING", "PAUSED", "KILLED"}
BY DEF States, Allowed

\* Rung is where a mode stands on the ladder.
LEMMA RungOfMode ==
    ASSUME NEW m \in Modes
    PROVE  Rung(m) \in 1..5 /\ Ladder[Rung(m)] = m
<1>1. \E i \in DOMAIN Ladder : Ladder[i] = m
  <2>1. /\ Ladder[1] = "backtest" /\ Ladder[2] = "realistic_paper" /\ Ladder[3] = "shadow"
        /\ Ladder[4] = "live_small" /\ Ladder[5] = "live_scale" /\ DOMAIN Ladder = 1..5
    BY DEF Ladder
  <2> QED BY <2>1 DEF Modes
<1>2. Rung(m) \in DOMAIN Ladder /\ Ladder[Rung(m)] = m
  BY <1>1 DEF Rung
<1> QED BY <1>2 DEF Ladder

LEMMA LadderIsInjective ==
    /\ \A i, k \in 1..5 : Ladder[i] = Ladder[k] => i = k
    /\ \A i \in 1..5 : Ladder[i] \in Modes
    /\ Len(Ladder) = 5 /\ DOMAIN Ladder = 1..5
BY DEF Ladder, Modes

LEMMA RungOfRung ==
    ASSUME NEW i \in 1..5
    PROVE  Rung(Ladder[i]) = i
BY LadderIsInjective, RungOfMode

LEMMA AuInit == AutonomyInit => AuInv
<1> SUFFICES ASSUME AutonomyInit PROVE AuInv
  OBVIOUS
<1>0. {Ladder[i] : i \in DOMAIN Ladder} = Modes
  <2>1. \A m \in Modes : m \in {Ladder[i] : i \in DOMAIN Ladder}
    BY RungOfMode, LadderIsInjective
  <2> QED BY <2>1, LadderIsInjective
<1>1. AuType
  BY <1>0, StatesAre DEF AutonomyInit, AuType, Modes
<1>2. WayThere
  BY DEF AutonomyInit, WayThere
<1>3. RungsWon
  <2>1. ASSUME NEW s \in Strategies PROVE Rung(mode[s]) \in {1, 2}
    <3>1. Ladder[1] = "backtest" /\ Ladder[2] = "realistic_paper"
      BY DEF Ladder
    <3>2. mode[s] = Ladder[1] \/ mode[s] = Ladder[2]
      BY <3>1 DEF AutonomyInit
    <3> QED BY <3>2, RungOfRung
  <2> QED BY <2>1 DEF RungsWon
<1>4. GatesPassed
  BY DEF AutonomyInit, GatesPassed
<1> QED BY <1>1, <1>2, <1>3, <1>4 DEF AuInv

\* The operator's own moves.
LEMMA OperatorKeeps ==
    ASSUME AuInv, OperatorStep
    PROVE  AuInv'
<1>0. UNCHANGED <<mode, climb, stage, passed>>
  BY DEF OperatorStep, Transition, Pause, Kill, Restart, registry, pipeline
<1>1. RungsWon' /\ GatesPassed'
  BY <1>0 DEF AuInv, RungsWon, GatesPassed
<1>2. CASE \E to \in States, founder \in BOOLEAN : Transition(to, founder)
  <2>1. PICK to \in States, founder \in BOOLEAN : Transition(to, founder)
    BY <1>2
  <2>2. to \in Allowed[state] /\ state' = to /\ trail' = (IF to \in Restful THEN {to} ELSE trail \cup {to})
    BY <2>1 DEF Transition, Onward, Enter
  <2>3. state # "KILLED" /\ let' = (IF state = "PAUSED" THEN TRUE ELSE let)
    BY <2>1 DEF Transition
  <2>4. AuType'
    BY <1>0, <2>2, <2>3 DEF AuInv, AuType
  <2>5. /\ to # "PAUSED" /\ to # "KILLED"
        /\ to = "TESTING_EDGE" => state = "FORMING_THESIS"
        /\ to = "AWAITING_APPROVAL" => state = "TESTING_EDGE"
        /\ to = "ACTING" => state = "AWAITING_APPROVAL"
        /\ state = "PAUSED" => to \in Restful
    BY <2>2, <2>3, StatesAre DEF AuInv, AuType, Allowed, Restful
  <2>6. WayThere'
    BY <2>2, <2>3, <2>5 DEF AuInv, WayThere, Restful
  <2> QED BY <1>1, <2>4, <2>6 DEF AuInv
<1>3. CASE Pause
  BY <1>0, <1>1, <1>3, StatesAre DEF AuInv, AuType, WayThere, Pause, Enter, Restful
<1>4. CASE Kill
  BY <1>0, <1>1, <1>4, StatesAre DEF AuInv, AuType, WayThere, Kill, Enter, Restful
<1>5. CASE Restart
  BY <1>0, <1>1, <1>5, StatesAre DEF AuInv, AuType, WayThere, Restart, Enter, Restful
<1> QED BY <1>2, <1>3, <1>4, <1>5 DEF OperatorStep

\* Promotions, demotions, changes of status.
LEMMA RegistryKeeps ==
    ASSUME AuInv, RegistryStep
    PROVE  AuInv'
<1>0. UNCHANGED <<state, trail, let, stage, passed>>
  BY DEF RegistryStep, Promote, Demote, SetStatus, operator, pipeline
<1>1. WayThere' /\ GatesPassed'
  BY <1>0 DEF AuInv, WayThere, GatesPassed
<1>2. ASSUME NEW s \in Strategies, NEW e \in Evidence, NEW founder \in BOOLEAN, Promote(s, e, founder)
      PROVE  AuInv'
  <2> DEFINE r == Rung(mode[s])
             next == Ladder[r + 1]
             won == IF founder THEN "founder" ELSE "evidence"
  <2>1. mode[s] \in Modes /\ r \in 1..4
    BY <1>2, RungOfMode, LadderIsInjective DEF Promote, AuInv, AuType
  <2>2. /\ mode' = [mode EXCEPT ![s] = next] /\ climb' = [climb EXCEPT ![s][next] = won]
        /\ next \in LiveRungs => founder
    BY <1>2 DEF Promote, FounderOnly
  <2>3. next \in Modes /\ Rung(next) = r + 1
    BY <2>1, RungOfRung, LadderIsInjective
  <2>4. AuType'
    BY <1>0, <2>2, <2>3 DEF AuInv, AuType
  <2>5. RungsWon'
    <3> SUFFICES ASSUME NEW x \in Strategies, NEW i \in 3..Rung(mode'[x])
                 PROVE  climb'[x][Ladder[i]] \in (IF Ladder[i] \in LiveRungs THEN {"founder"} ELSE {"founder", "evidence"})
      BY DEF RungsWon
    <3> HIDE DEF next, won, r
    <3>1. CASE x # s
      <4>1. mode'[x] = mode[x] /\ climb'[x] = climb[x]
        BY <2>2, <3>1 DEF AuInv, AuType
      <4> QED BY <4>1 DEF AuInv, RungsWon
    <3>2. CASE x = s
      <4>1. mode'[s] = next /\ i \in 3..(r + 1)
        BY <2>2, <2>3, <3>2 DEF AuInv, AuType
      <4>2. CASE i = r + 1
        <5>1. Ladder[i] = next
          BY <4>2 DEF next
        <5>2. climb'[s][next] = won
          BY <2>2, <2>3 DEF AuInv, AuType
        <5>3. won \in (IF next \in LiveRungs THEN {"founder"} ELSE {"founder", "evidence"})
          BY <2>2 DEF won
        <5> QED BY <3>2, <5>1, <5>2, <5>3
      <4>3. CASE i # r + 1
        <5>1. i \in 3..r /\ i \in 1..5
          BY <2>1, <4>1, <4>3
        <5>2. Ladder[i] # next /\ Ladder[i] \in Modes
          BY <2>1, <4>3, <5>1, LadderIsInjective DEF next
        <5>3. climb'[s][Ladder[i]] = climb[s][Ladder[i]]
          BY <2>2, <5>2 DEF AuInv, AuType
        <5> QED BY <3>2, <5>1, <5>3 DEF AuInv, RungsWon, r
      <4> QED BY <4>2, <4>3
    <3> QED BY <3>1, <3>2
  <2> QED BY <1>1, <2>4, <2>5 DEF AuInv
<1>3. ASSUME NEW s \in Strategies, Demote(s)
      PROVE  AuInv'
  <2> DEFINE down == IF mode[s] = "backtest" THEN "backtest" ELSE "realistic_paper"
  <2>1. down \in Modes /\ Rung(down) \in {1, 2}
    <3>1. Ladder[1] = "backtest" /\ Ladder[2] = "realistic_paper"
      BY DEF Ladder
    <3>2. down \in {Ladder[1], Ladder[2]} /\ down \in Modes
      BY <3>1 DEF Modes
    <3> QED BY <3>2, RungOfRung
  <2>2. /\ mode' = [mode EXCEPT ![s] = down]
        /\ climb' = [climb EXCEPT ![s] = [m \in DOMAIN climb[s] |-> IF Rung(m) > Rung(down) THEN "none" ELSE climb[s][m]]]
    BY <1>3 DEF Demote
  <2> HIDE DEF down
  <2>3. AuType'
    BY <1>0, <2>1, <2>2 DEF AuInv, AuType
  <2>4. RungsWon'
    <3> SUFFICES ASSUME NEW x \in Strategies, NEW i \in 3..Rung(mode'[x])
                 PROVE  climb'[x][Ladder[i]] \in (IF Ladder[i] \in LiveRungs THEN {"founder"} ELSE {"founder", "evidence"})
      BY DEF RungsWon
    <3>1. x # s
      BY <2>1, <2>2 DEF AuInv, AuType
    <3>2. mode'[x] = mode[x] /\ climb'[x] = climb[x]
      BY <2>2, <3>1 DEF AuInv, AuType
    <3> QED BY <3>2 DEF AuInv, RungsWon
  <2> QED BY <1>1, <2>3, <2>4 DEF AuInv
<1>4. ASSUME NEW s \in Strategies, NEW new, SetStatus(s, new)
      PROVE  AuInv'
  <2>1. UNCHANGED <<mode, climb>>
    BY <1>4 DEF SetStatus
  <2> QED BY <1>0, <1>1, <2>1 DEF AuInv, AuType, RungsWon
<1> QED BY <1>2, <1>3, <1>4 DEF RegistryStep

\* What follows a stage.
LEMMA StageAfter ==
    ASSUME NEW st \in Stages
    PROVE  LET at == CHOOSE i \in DOMAIN Order : Order[i] = st
           IN  /\ at \in 1..10 /\ Len(Order) = 10
               /\ at < 10 => /\ Order[at + 1] \in Stages
                             /\ Order[at + 1] = "APPROVAL" => st = "STAGING"
                             /\ Order[at + 1] = "PRODUCTION" => st = "APPROVAL"
                             /\ Order[at + 1] = "MEASURE" => st = "PRODUCTION"
<1> DEFINE at == CHOOSE i \in DOMAIN Order : Order[i] = st
<1>1. \E i \in DOMAIN Order : Order[i] = st
  <2>1. /\ Order[1] = "PRODUCT_THESIS" /\ Order[2] = "PRD" /\ Order[3] = "BUILD_PLAN" /\ Order[4] = "ISSUES"
        /\ Order[5] = "MVP" /\ Order[6] = "TESTS" /\ Order[7] = "STAGING" /\ Order[8] = "APPROVAL"
        /\ Order[9] = "PRODUCTION" /\ Order[10] = "MEASURE" /\ DOMAIN Order = 1..10
    BY DEF Order
  <2> QED BY <2>1 DEF Stages
<1>2. at \in DOMAIN Order /\ Order[at] = st
  BY <1>1
<1> HIDE DEF at
<1>3. at \in 1..10 /\ Len(Order) = 10
  BY <1>2 DEF Order
<1>4. at < 10 => /\ Order[at + 1] \in Stages
                 /\ Order[at + 1] = "APPROVAL" => st = "STAGING"
                 /\ Order[at + 1] = "PRODUCTION" => st = "APPROVAL"
                 /\ Order[at + 1] = "MEASURE" => st = "PRODUCTION"
  BY <1>2, <1>3 DEF Order, Stages
<1> QED BY <1>3, <1>4 DEF at

LEMMA PipelineKeeps ==
    ASSUME AuInv, PipelineStep
    PROVE  AuInv'
<1>0. UNCHANGED <<state, trail, let, mode, climb>>
  BY DEF PipelineStep, StartPipeline, Advance, operator, registry
<1>1. WayThere' /\ RungsWon'
  BY <1>0 DEF AuInv, WayThere, RungsWon
<1>2. ASSUME NEW thesis \in Theses, StartPipeline(thesis)
      PROVE  AuInv'
  <2>1. stage' = "PRODUCT_THESIS" /\ passed' = {"thesis"}
    BY <1>2 DEF StartPipeline, Order
  <2> QED BY <1>0, <1>1, <2>1 DEF AuInv, AuType, Stages, GatesPassed
<1>3. ASSUME NEW ctx \in Contexts, Advance(ctx)
      PROVE  AuInv'
  <2> DEFINE at == CHOOSE i \in DOMAIN Order : Order[i] = stage
             next == Order[at + 1]
  <2>1. /\ stage # "none" /\ at < Len(Order) /\ stage' = next
        /\ next = "STAGING" => ctx.tests
        /\ next = "PRODUCTION" => ctx.approved /\ ~ctx.haram
        /\ passed' = passed \cup (IF next = "STAGING" /\ ctx.tests THEN {"tests"} ELSE {})
                            \cup (IF next = "PRODUCTION" /\ ctx.approved /\ ~ctx.haram THEN {"launch"} ELSE {})
    BY <1>3 DEF Advance, CanAdvance, AllowsLaunch
  <2>2. stage \in Stages
    BY <2>1 DEF AuInv, AuType
  <2>3. /\ next \in Stages
        /\ next = "APPROVAL" => stage = "STAGING"
        /\ next = "PRODUCTION" => stage = "APPROVAL"
        /\ next = "MEASURE" => stage = "PRODUCTION"
    BY <2>1, <2>2, StageAfter
  <2> HIDE DEF at, next
  <2>4. AuType'
    BY <1>0, <2>1, <2>3 DEF AuInv, AuType
  <2>5. GatesPassed'
    BY <2>1, <2>2, <2>3 DEF AuInv, GatesPassed
  <2> QED BY <1>1, <2>4, <2>5 DEF AuInv
<1> QED BY <1>2, <1>3 DEF PipelineStep

\* To act, to hold real money and to launch are always the end of the whole way there,
\* whatever pauses, kills, restarts and demotions came in between.
THEOREM EarnedAutonomy == AutonomySpec => []AutonomyIsEarned
<1>1. AuInv /\ [AutonomyNext]_autonomyVars => AuInv'
  <2>1. ASSUME AuInv, UNCHANGED autonomyVars PROVE AuInv'
    BY <2>1 DEF autonomyVars, operator, registry, pipeline, AuInv, AuType, WayThere, RungsWon, GatesPassed
  <2> QED BY <2>1, OperatorKeeps, RegistryKeeps, PipelineKeeps DEF AutonomyNext
<1>2. AuInv => AutonomyIsEarned
  <2> SUFFICES ASSUME AuInv PROVE AutonomyIsEarned
    OBVIOUS
  <2>1. ActingIsGated
    BY DEF AuInv, WayThere, ActingIsGated
  <2>2. CapitalIsFounders
    BY DEF AuInv, AuType, RungsWon, GatesPassed, CapitalIsFounders, IsLive
  <2> QED BY <2>1, <2>2 DEF AutonomyIsEarned
<1> QED BY <1>1, <1>2, AuInit, PTL DEF AutonomySpec

----------------------------------------------------------------------------
(* The runs table.  A row is written from the RunState its process holds   *)
(* in memory, so the invariant says of every process at work what it holds *)
(* of its row, that the row is still running, and that nobody else has it. *)

Marks == {"pending", "ok", "error"}
Row == [mode : {"operational", "investment_valid"}, steps : [1..6 -> Marks],
        outcome : {"running", "complete", "no_action", "error"}]
RunState == [at : {"idle", "begin", "run", "save", "finish", "handle", "tick", "ended"},
             id : Nat, step : 1..6, steps : [1..6 -> Marks],
             outcome : {"running", "complete", "no_action", "error", "halted"}]
AtARow == {"run", "save", "finish", "handle", "tick"}

RnType ==
    /\ runs \in Seq(Row) /\ did \in Seq(SUBSET (1..6)) /\ Len(did) = Len(runs)
    /\ loop \in [Procs -> RunState]
    /\ track \in Nat /\ mishaps \in Nat /\ halted \in BOOLEAN
    /\ gate \in [at : {"idle", "count", "answered"}, halted : BOOLEAN, ready : BOOLEAN]

\* What process p holds of its row.
Holds(p) ==
    /\ loop[p].at \in {"idle", "begin"} =>
          loop[p].id = 0 /\ loop[p].step = 1 /\ loop[p].steps = Pending /\ loop[p].outcome = "running"
    /\ loop[p].at \in AtARow => loop[p].id \in 1..Len(runs) /\ runs[loop[p].id].outcome = "running"
    /\ loop[p].at = "tick" => /\ did[loop[p].id] = {} /\ runs[loop[p].id].steps = Pending
                              /\ loop[p].steps = Pending
    /\ loop[p].at \in AtARow \ {"tick"} =>
          /\ runs[loop[p].id].mode = "operational"
          /\ \A k \in 1..6 : loop[p].steps[k] = "ok" => k \in did[loop[p].id]
    /\ loop[p].at = "run" => \A k \in 1..4 : k < loop[p].step => k \in did[loop[p].id]
    /\ loop[p].at = "save" => \A k \in 1..4 : k <= loop[p].step => k \in did[loop[p].id]
    /\ loop[p].at \in {"run", "save"} => loop[p].outcome = "running"
    /\ loop[p].at = "finish" => /\ loop[p].outcome \in {"complete", "error"}
                                /\ loop[p].outcome = "complete" => 1..4 \subseteq did[loop[p].id]
    /\ loop[p].at = "handle" => loop[p].outcome = "error"

\* No two processes are at one row.
Alone == \A p, q \in Procs :
    p # q /\ loop[p].at \in AtARow /\ loop[q].at \in AtARow => loop[p].id # loop[q].id

RowTrue(i) ==
    /\ (did[i] # {} \/ runs[i].steps # Pending) /\ runs[i].outcome = "complete" => 1..4 \subseteq did[i]
    /\ \A k \in 1..6 : runs[i].steps[k] = "ok" => k \in did[i]

Orphans == {i \in 1..Len(runs) : runs[i].outcome = "running" /\ ~Held(i)}
PaperRows == {i \in 1..Len(runs) : runs[i].outcome = "complete" /\ runs[i].mode = "investment_valid"}

RnInv ==
    /\ RnType
    /\ \A p \in Procs : Holds(p)
    /\ Alone
    /\ \A i \in 1..Len(runs) : RowTrue(i)
    /\ Cardinality(Orphans) <= mishaps
    /\ Cardinality(PaperRows) = track
    /\ gate.ready => track >= MinPaperRuns

LEMMA SomeRows ==
    ASSUME NEW n \in Nat, NEW S, S \subseteq 1..n
    PROVE  IsFiniteSet(S) /\ Cardinality(S) \in Nat
<1>1. IsFiniteSet(1..n)
  BY FS_Interval
<1> QED BY <1>1, FS_Subset, FS_CardinalityType

LEMMA PendingMarks == Pending \in [1..6 -> Marks] /\ DOMAIN Steps = 1..6 /\ \A k \in 1..6 : Pending[k] = "pending"
BY DEF Pending, Steps, Marks

LEMMA RnInit == RunnerInit => RnInv
<1> SUFFICES ASSUME RunnerInit PROVE RnInv
  OBVIOUS
<1>1. RnType
  <2>1. Fresh \in RunState
    BY PendingMarks DEF RunState, Fresh
  <2>2. NoGate \in [at : {"idle", "count", "answered"}, halted : BOOLEAN, ready : BOOLEAN]
    BY Zenon DEF NoGate
  <2>3. gate \in [at : {"idle", "count", "answered"}, halted : BOOLEAN, ready : BOOLEAN] /\ halted \in BOOLEAN
    BY <2>2, Zenon DEF RunnerInit
  <2>4. runs \in Seq(Row) /\ did \in Seq(SUBSET (1..6)) /\ Len(did) = Len(runs)
    BY DEF RunnerInit
  <2>5. loop \in [Procs -> RunState] /\ track \in Nat /\ mishaps \in Nat
    BY <2>1 DEF RunnerInit
  <2> QED BY <2>3, <2>4, <2>5 DEF RnType
<1>2. \A p \in Procs : Holds(p)
  BY DEF RunnerInit, Holds, Fresh, AtARow
<1>3. Alone
  BY DEF RunnerInit, Alone, Fresh, AtARow
<1>4. Len(runs) = 0 /\ Orphans = {} /\ PaperRows = {}
  BY DEF RunnerInit, Orphans, PaperRows
<1>5. Cardinality(Orphans) <= mishaps /\ Cardinality(PaperRows) = track
  BY <1>4, FS_EmptySet DEF RunnerInit
<1> QED BY <1>1, <1>2, <1>3, <1>4, <1>5 DEF RunnerInit, RnInv, NoGate

----------------------------------------------------------------------------
\* A process moves from one RunState to another, and writes nothing but its own row.
OwnStep(p, l) ==
    /\ RnInv /\ p \in Procs /\ l \in RunState
    /\ loop' = [loop EXCEPT ![p] = l]
    /\ runs' \in Seq(Row) /\ did' \in Seq(SUBSET (1..6))
    /\ Len(runs') = Len(runs) /\ Len(did') = Len(did)
    /\ \A i \in 1..Len(runs) : i # loop[p].id \/ loop[p].at \notin AtARow => runs'[i] = runs[i] /\ did'[i] = did[i]
    /\ l.at \in AtARow => l.id = loop[p].id /\ loop[p].at \in AtARow

LEMMA OthersKeepTheirs ==
    ASSUME NEW p \in Procs, NEW l \in RunState, OwnStep(p, l)
    PROVE  /\ loop' \in [Procs -> RunState] /\ loop'[p] = l
           /\ \A q \in Procs \ {p} : loop'[q] = loop[q] /\ Holds(q)'
           /\ Alone'
<1>1. /\ loop' \in [Procs -> RunState] /\ loop'[p] = l
      /\ \A q \in Procs \ {p} : loop'[q] = loop[q]
  BY DEF OwnStep, RnInv, RnType
<1>2. ASSUME NEW q \in Procs \ {p} PROVE Holds(q)'
  <2>0. Holds(q) /\ loop'[q] = loop[q]
    BY <1>1 DEF OwnStep, RnInv
  <2>1. CASE loop[q].at \in AtARow
    <3>1. loop[q].id \in 1..Len(runs)
      BY <2>0, <2>1 DEF Holds
    <3>2. loop[p].at \in AtARow => loop[q].id # loop[p].id
      BY <2>1 DEF OwnStep, RnInv, Alone
    <3>3. runs'[loop[q].id] = runs[loop[q].id] /\ did'[loop[q].id] = did[loop[q].id] /\ Len(runs') = Len(runs)
      BY <3>1, <3>2 DEF OwnStep
    <3> QED BY <2>0, <3>3 DEF Holds
  <2>2. CASE loop[q].at \notin AtARow
    BY <2>0, <2>2 DEF Holds, AtARow
  <2> QED BY <2>1, <2>2
<1>3. Alone'
  BY <1>1 DEF OwnStep, RnInv, Alone
<1> QED BY <1>1, <1>2, <1>3

\* Rows that are not the process's own stay as true, as held and as counted as they were.
LEMMA OwnRowOnly ==
    ASSUME NEW p \in Procs, NEW l \in RunState, OwnStep(p, l)
    PROVE  /\ \A i \in 1..Len(runs') : i # loop[p].id \/ loop[p].at \notin AtARow => RowTrue(i)'
           /\ Orphans' \subseteq Orphans \cup {loop[p].id}
           /\ l.at \in AtARow \/ loop[p].at \notin AtARow => Orphans' \subseteq Orphans
           /\ PaperRows' \ {loop[p].id} = PaperRows \ {loop[p].id}
           /\ loop[p].at \notin AtARow => PaperRows' = PaperRows
<1>0. Len(runs') = Len(runs) /\ RnType
  BY DEF OwnStep, RnInv
<1>1. ASSUME NEW i \in 1..Len(runs'), i # loop[p].id \/ loop[p].at \notin AtARow
      PROVE  RowTrue(i)'
  <2>1. RowTrue(i) /\ runs'[i] = runs[i] /\ did'[i] = did[i]
    BY <1>1 DEF OwnStep, RnInv
  <2> QED BY <2>1 DEF RowTrue
<1>2. ASSUME NEW i \in Orphans', i # loop[p].id \/ l.at \in AtARow \/ loop[p].at \notin AtARow
      PROVE  i \in Orphans
  <2>1. i \in 1..Len(runs) /\ runs'[i].outcome = "running" /\ ~Held(i)'
    BY <1>0 DEF Orphans
  <2>2. \A q \in Procs : ~(loop'[q].id = i /\ loop'[q].at # "ended")
    BY <2>1 DEF Held
  <2>3. \A q \in Procs \ {p} : ~(loop[q].id = i /\ loop[q].at # "ended")
    BY <2>2, OthersKeepTheirs
  <2>4. ~(loop[p].id = i /\ loop[p].at # "ended")
    <3>1. loop[p].at \in AtARow => i # loop[p].id
      BY <1>2, <2>2, OthersKeepTheirs DEF OwnStep, AtARow
    <3>2. loop[p].at \in {"idle", "begin"} => i # loop[p].id
      BY <2>1 DEF OwnStep, RnInv, Holds
    <3>3. loop[p].at \in AtARow \cup {"idle", "begin", "ended"}
      BY <1>0 DEF RnType, RunState, AtARow
    <3> QED BY <3>1, <3>2, <3>3
  <2>5. runs'[i] = runs[i]
    <3>1. CASE i # loop[p].id \/ loop[p].at \notin AtARow
      BY <2>1, <3>1 DEF OwnStep
    <3>2. CASE i = loop[p].id /\ loop[p].at \in AtARow
      BY <2>4, <3>2 DEF AtARow
    <3> QED BY <3>1, <3>2
  <2> QED BY <2>1, <2>3, <2>4, <2>5 DEF Orphans, Held
<1>3. PaperRows' \ {loop[p].id} = PaperRows \ {loop[p].id}
  BY <1>0 DEF PaperRows, OwnStep
<1>4. loop[p].at \notin AtARow => PaperRows' = PaperRows
  BY <1>0 DEF PaperRows, OwnStep
<1> QED BY <1>1, <1>2, <1>3, <1>4

\* A step that makes an orphan only with a mishap, and moves the clock only by its own row.
LEMMA PlainStep ==
    ASSUME NEW p \in Procs, NEW l \in RunState, OwnStep(p, l), Holds(p)',
           l.at \in AtARow \/ loop[p].at \notin AtARow \/ loop[p].id \notin Orphans' \/ mishaps' = mishaps + 1,
           \A i \in 1..Len(runs') : i = loop[p].id => RowTrue(i)',
           \/ track' = track /\ (loop[p].at \in AtARow => (loop[p].id \in PaperRows' <=> loop[p].id \in PaperRows))
           \/ track' = track + 1 /\ loop[p].id \in PaperRows' \ PaperRows,
           mishaps' \in {mishaps, mishaps + 1},
           UNCHANGED <<gate, halted>>
    PROVE  RnInv'
<1>0. RnInv
  BY DEF OwnStep
<1>1. RnType'
  BY <1>0, OthersKeepTheirs DEF OwnStep, RnInv, RnType
<1>2. (\A q \in Procs : Holds(q)') /\ Alone'
  BY OthersKeepTheirs
<1>3. \A i \in 1..Len(runs') : RowTrue(i)'
  BY OwnRowOnly, Zenon
<1>4. Cardinality(PaperRows') = track' /\ (gate'.ready => track' >= MinPaperRuns)
  <2>0. PaperRows' \ {loop[p].id} = PaperRows \ {loop[p].id} /\ (loop[p].at \notin AtARow => PaperRows' = PaperRows)
    BY OwnRowOnly, Zenon
  <2>1. CASE track' = track + 1 /\ loop[p].id \in PaperRows' \ PaperRows
    <3>1. PaperRows' = PaperRows \cup {loop[p].id}
      BY <2>0, <2>1
    <3>2. IsFiniteSet(PaperRows)
      <4>1. Len(runs) \in Nat /\ PaperRows \subseteq 1..Len(runs)
        BY <1>0 DEF RnInv, RnType, PaperRows
      <4> QED BY <4>1, SomeRows
    <3>3. Cardinality(PaperRows') = Cardinality(PaperRows) + 1
      BY <2>1, <3>1, <3>2, FS_AddElement
    <3> QED BY <1>0, <2>1, <3>3, LoopRunnerConstants DEF RnInv, RnType
  <2>2. CASE track' = track /\ (loop[p].at \in AtARow => (loop[p].id \in PaperRows' <=> loop[p].id \in PaperRows))
    <3>1. ASSUME NEW i PROVE i \in PaperRows' <=> i \in PaperRows
      BY <2>0, <2>2
    <3>2. PaperRows' \subseteq PaperRows /\ PaperRows \subseteq PaperRows'
      BY <3>1
    <3> QED BY <1>0, <2>2, <3>2 DEF RnInv
  <2> QED BY <2>1, <2>2
<1>5. Cardinality(Orphans') <= mishaps'
  <2>0. /\ IsFiniteSet(Orphans) /\ Cardinality(Orphans) \in Nat /\ Cardinality(Orphans) <= mishaps /\ mishaps \in Nat
        /\ IsFiniteSet(Orphans') /\ Cardinality(Orphans') \in Nat
    <3>1. Len(runs) \in Nat /\ Len(runs') \in Nat
      BY <1>0, <1>1 DEF RnInv, RnType
    <3>2. Orphans \subseteq 1..Len(runs) /\ Orphans' \subseteq 1..Len(runs')
      BY DEF Orphans
    <3> QED BY <1>0, <3>1, <3>2, SomeRows DEF RnInv, RnType
  <2>1. CASE Orphans' \subseteq Orphans
    BY <2>0, <2>1, FS_Subset
  <2>2. CASE mishaps' = mishaps + 1
    <3> DEFINE more == Orphans \cup {loop[p].id}
    <3>1. Orphans' \subseteq more
      BY OwnRowOnly
    <3>2. IsFiniteSet(more) /\ Cardinality(more) <= Cardinality(Orphans) + 1
      <4>1. IsFiniteSet(Orphans) /\ Cardinality(Orphans) \in Nat
        BY <2>0
      <4>2. /\ IsFiniteSet(more)
            /\ Cardinality(more) = IF loop[p].id \in Orphans THEN Cardinality(Orphans) ELSE Cardinality(Orphans) + 1
        BY <4>1, FS_AddElement, Zenon
      <4> QED BY <4>1, <4>2
    <3> HIDE DEF more
    <3>3. Cardinality(Orphans') <= Cardinality(more)
      BY <3>1, <3>2, FS_Subset
    <3>4. Cardinality(more) \in Nat
      BY <3>2, FS_CardinalityType
    <3> QED BY <2>0, <2>2, <3>2, <3>3, <3>4
  <2> QED BY <2>1, <2>2, OwnRowOnly
<1> QED BY <1>0, <1>1, <1>2, <1>3, <1>4, <1>5 DEF RnInv

\* The row a process writes.
LEMMA WrittenRow ==
    ASSUME RnInv, NEW p \in Procs, loop[p].at \in AtARow, NEW l \in RunState, l.id = loop[p].id,
           l.outcome # "halted", Write(p, l)
    PROVE  /\ runs' \in Seq(Row) /\ Len(runs') = Len(runs)
           /\ runs'[l.id] = [mode |-> runs[l.id].mode, steps |-> l.steps, outcome |-> l.outcome]
           /\ \A i \in 1..Len(runs) : i # l.id => runs'[i] = runs[i]
<1>1. l.id \in 1..Len(runs) /\ runs \in Seq(Row) /\ runs[l.id] \in Row
  BY DEF RnInv, RnType, Holds
<1> DEFINE row == [mode |-> runs[l.id].mode, steps |-> l.steps, outcome |-> l.outcome]
<1>2. row \in Row
  BY <1>1 DEF Row, RunState
<1>3. runs' = [runs EXCEPT ![l.id] = row]
  <2>1. runs \in [1..Len(runs) -> Row]
    BY <1>1
  <2>2. [runs EXCEPT ![l.id].steps = l.steps, ![l.id].outcome = l.outcome] = [runs EXCEPT ![l.id] = row]
    <3> DEFINE g == [runs EXCEPT ![l.id].steps = l.steps]
               first == [mode |-> runs[l.id].mode, steps |-> l.steps, outcome |-> runs[l.id].outcome]
    <3>1. first \in Row
      BY <1>1 DEF Row, RunState
    <3>2. g \in [1..Len(runs) -> Row] /\ g[l.id] = first /\ \A i \in 1..Len(runs) : i # l.id => g[i] = runs[i]
      BY <1>1, <2>1, <3>1 DEF Row
    <3> HIDE DEF g
    <3>3. [g EXCEPT ![l.id].outcome = l.outcome] = [g EXCEPT ![l.id] = row]
      <4>1. [first EXCEPT !.outcome = l.outcome] = row
        OBVIOUS
      <4> HIDE DEF first, row
      <4>2. [g[l.id] EXCEPT !.outcome = l.outcome] = row
        BY <3>2, <4>1
      <4>3. [g EXCEPT ![l.id].outcome = l.outcome] = [g EXCEPT ![l.id] = [g[l.id] EXCEPT !.outcome = l.outcome]]
        BY <1>1, <3>2
      <4> QED BY <4>2, <4>3
    <3>4. [g EXCEPT ![l.id] = row] = [runs EXCEPT ![l.id] = row]
      BY <1>1, <2>1, <3>2
    <3> QED BY <3>3, <3>4 DEF g
  <2> QED BY <2>2 DEF Write
<1> QED BY <1>1, <1>2, <1>3, ExceptSeq

----------------------------------------------------------------------------
\* The actions of a process.

LEMMA QuietKeeps ==
    ASSUME RnInv, NEW p \in Procs, StartLoop(p) \/ BeginRefused(p) \/ Again(p)
    PROVE  RnInv'
<1>0. loop[p] \in RunState /\ Holds(p) /\ mishaps \in Nat
  BY DEF RnInv, RnType
<1>1. Fresh \in RunState /\ [Fresh EXCEPT !.at = "begin"] \in RunState /\ [Fresh EXCEPT !.at = "ended"] \in RunState
      /\ [Fresh EXCEPT !.at = "ended", !.outcome = "halted"] \in RunState
  <2>1. Fresh \in RunState
    BY PendingMarks DEF RunState, Fresh
  <2> QED BY <2>1 DEF RunState
<1>2. PICK l \in RunState : /\ loop' = [loop EXCEPT ![p] = l]
                            /\ l.at \in {"idle", "begin", "ended"}
                            /\ l.at # "ended" => l.id = 0 /\ l.step = 1 /\ l.steps = Pending /\ l.outcome = "running"
  <2>1. CASE StartLoop(p)
    BY <1>1, <2>1 DEF StartLoop, Becomes, Fresh
  <2>2. CASE BeginRefused(p)
    BY <1>1, <2>2 DEF BeginRefused, Becomes, Fresh
  <2>3. CASE Again(p)
    BY <1>1, <2>3 DEF Again, Becomes, Fresh
  <2> QED BY <2>1, <2>2, <2>3
<1>3. /\ UNCHANGED <<runs, did, track, gate, halted>> /\ mishaps' \in {mishaps, mishaps + 1}
      /\ loop[p].at \notin AtARow /\ l.at \notin AtARow
  BY <1>2 DEF StartLoop, BeginRefused, Again, Mishap, AtARow
<1>4. OwnStep(p, l)
  BY <1>2, <1>3 DEF OwnStep, RnInv, RnType
<1>5. Holds(p)'
  <2>1. loop'[p] = l
    BY <1>4, OthersKeepTheirs
  <2> QED BY <1>2, <2>1 DEF Holds, AtARow
<1>6. \A i \in 1..Len(runs') : RowTrue(i)'
  BY <1>3 DEF RnInv, RowTrue
<1> QED BY <1>3, <1>4, <1>5, <1>6, PlainStep

LEMMA StepKeeps ==
    ASSUME RnInv, NEW p \in Procs, StepOk(p) \/ StepRaises(p)
    PROVE  RnInv'
<1> DEFINE i == loop[p].step
           id == loop[p].id
<1>0. /\ loop[p] \in RunState /\ Holds(p) /\ mishaps \in Nat
      /\ loop[p].at = "run" /\ i \in 1..6 /\ id \in 1..Len(runs) /\ RowTrue(id)
  BY DEF RnInv, RnType, RunState, StepOk, StepRaises, Holds, AtARow
<1>1. /\ Len(did) = Len(runs) /\ did \in Seq(SUBSET (1..6)) /\ runs \in Seq(Row)
      /\ UNCHANGED <<runs, track, gate, halted, mishaps>>
  BY DEF RnInv, RnType, StepOk, StepRaises
<1>2. /\ did' \in Seq(SUBSET (1..6)) /\ Len(did') = Len(did)
      /\ \A k \in 1..Len(did) : did[k] \subseteq did'[k] /\ (k # id => did'[k] = did[k])
      /\ StepOk(p) => i \in did'[id]
  <2>1. CASE StepOk(p)
    <3>1. did' = [did EXCEPT ![id] = did[id] \cup {i}] /\ did[id] \cup {i} \in SUBSET (1..6)
      BY <1>0, <1>1, <2>1 DEF StepOk
    <3> QED BY <1>0, <1>1, <3>1, ExceptSeq
  <2>2. CASE StepRaises(p) /\ ~StepOk(p)
    BY <1>1, <2>2 DEF StepRaises
  <2> QED BY <2>1, <2>2
<1>3. PICK l \in RunState :
          /\ loop' = [loop EXCEPT ![p] = l] /\ l.id = id /\ l.step = i /\ l.at \in {"save", "finish", "handle"}
          /\ \A k \in 1..6 : l.steps[k] = "ok" => loop[p].steps[k] = "ok" \/ (StepOk(p) /\ k = i)
          /\ l.at = "save" => l.outcome = "running" /\ (StepOk(p) \/ i > 4)
          /\ l.at \in {"finish", "handle"} => l.outcome = "error"
  <2>1. CASE StepOk(p)
    <3> DEFINE l == [loop[p] EXCEPT !.at = "save", !.steps[i] = "ok"]
    <3>1. /\ l \in RunState /\ l.id = id /\ l.step = i /\ l.at = "save" /\ l.outcome = loop[p].outcome
          /\ \A k \in 1..6 : l.steps[k] = IF k = i THEN "ok" ELSE loop[p].steps[k]
      BY <1>0 DEF RunState, Marks
    <3>2. loop' = [loop EXCEPT ![p] = l] /\ loop[p].outcome = "running"
      BY <1>0, <2>1 DEF StepOk, Becomes, Holds
    <3> HIDE DEF l
    <3> QED BY <2>1, <3>1, <3>2
  <2>2. CASE StepRaises(p)
    <3> DEFINE l1 == [loop[p] EXCEPT !.at = "finish", !.steps[i] = "error", !.outcome = "error"]
               l2 == [loop[p] EXCEPT !.at = "handle", !.outcome = "error"]
               l3 == [loop[p] EXCEPT !.at = "save", !.steps[i] = "error"]
    <3>1. /\ l1 \in RunState /\ l1.id = id /\ l1.step = i /\ l1.at = "finish" /\ l1.outcome = "error"
          /\ \A k \in 1..6 : l1.steps[k] = IF k = i THEN "error" ELSE loop[p].steps[k]
      BY <1>0 DEF RunState, Marks
    <3>2. /\ l2 \in RunState /\ l2.id = id /\ l2.step = i /\ l2.at = "handle" /\ l2.outcome = "error"
          /\ l2.steps = loop[p].steps
      BY <1>0 DEF RunState, Marks
    <3>3. /\ l3 \in RunState /\ l3.id = id /\ l3.step = i /\ l3.at = "save" /\ l3.outcome = loop[p].outcome
          /\ \A k \in 1..6 : l3.steps[k] = IF k = i THEN "error" ELSE loop[p].steps[k]
      BY <1>0 DEF RunState, Marks
    <3>4. \/ loop' = [loop EXCEPT ![p] = l1]
          \/ loop' = [loop EXCEPT ![p] = l2]
          \/ loop' = [loop EXCEPT ![p] = l3] /\ i > 4
      <4>1. Steps[4] = "act"
        BY DEF Steps
      <4>2. loop' = [loop EXCEPT ![p] = IF Vital(i) THEN l1 ELSE IF Steps[i] = "act" THEN l2 ELSE l3]
        BY <2>2 DEF StepRaises, Becomes
      <4>3. Vital(i) \/ Steps[i] = "act" \/ i > 4
        BY <1>0, <4>1 DEF Vital
      <4> HIDE DEF l1, l2, l3
      <4> QED BY <4>2, <4>3
    <3>5. loop[p].outcome = "running"
      BY <1>0 DEF Holds
    <3> HIDE DEF l1, l2, l3
    <3> QED BY <3>1, <3>2, <3>3, <3>4, <3>5
  <2> QED BY <2>1, <2>2
<1>4. OwnStep(p, l)
  BY <1>0, <1>1, <1>2, <1>3 DEF OwnStep, AtARow
<1>5. loop'[p] = l
  BY <1>4, OthersKeepTheirs
<1>6. Holds(p)'
  <2>0. did[id] \subseteq did'[id] /\ runs'[id] = runs[id] /\ Len(runs') = Len(runs)
    BY <1>0, <1>1, <1>2
  <2>1. runs[id].outcome = "running" /\ runs[id].mode = "operational"
    BY <1>0 DEF Holds, AtARow
  <2>2. \A k \in 1..6 : l.steps[k] = "ok" => k \in did'[id]
    <3>1. \A k \in 1..6 : loop[p].steps[k] = "ok" => k \in did[id]
      BY <1>0 DEF Holds, AtARow
    <3> QED BY <1>2, <1>3, <2>0, <3>1
  <2>3. l.at = "save" => \A k \in 1..4 : k <= l.step => k \in did'[id]
    <3>1. \A k \in 1..4 : k < i => k \in did[id]
      BY <1>0 DEF Holds
    <3>2. \A k \in 1..4 : k <= i => k < i \/ k = i
      BY <1>0
    <3> QED BY <1>2, <1>3, <2>0, <3>1, <3>2
  <2> HIDE DEF id, i
  <2> QED BY <1>0, <1>3, <1>5, <2>0, <2>1, <2>2, <2>3 DEF Holds, AtARow
<1>7. \A k \in 1..Len(runs') : k = id => RowTrue(k)'
  <2>1. runs[id].outcome = "running" /\ runs'[id] = runs[id] /\ did[id] \subseteq did'[id]
    BY <1>0, <1>1, <1>2 DEF Holds, AtARow
  <2> QED BY <1>0, <2>1 DEF RowTrue
<1>8. id \in PaperRows' <=> id \in PaperRows
  BY <1>1 DEF PaperRows
<1> QED BY <1>1, <1>3, <1>4, <1>6, <1>7, <1>8, PlainStep DEF AtARow

\* update_run after a step.
LEMMA SaveKeeps ==
    ASSUME RnInv, NEW p \in Procs, SaveStep(p)
    PROVE  RnInv'
<1> DEFINE lp == loop[p]
           id == lp.id
           row == [mode |-> runs[id].mode, steps |-> lp.steps, outcome |-> lp.outcome]
<1>0. /\ lp \in RunState /\ Holds(p) /\ lp.at = "save" /\ lp.outcome = "running"
      /\ id \in 1..Len(runs) /\ RowTrue(id) /\ runs[id].outcome = "running"
      /\ UNCHANGED <<did, track, gate, halted, mishaps>> /\ mishaps \in Nat
  BY DEF RnInv, RnType, SaveStep, Holds, AtARow
<1>1. /\ runs' \in Seq(Row) /\ Len(runs') = Len(runs) /\ runs'[id] = row
      /\ \A i \in 1..Len(runs) : i # id => runs'[i] = runs[i]
  BY <1>0, WrittenRow DEF SaveStep, AtARow
<1>2. PICK l \in RunState :
          /\ loop' = [loop EXCEPT ![p] = l] /\ l.id = id /\ l.steps = lp.steps
          /\ \/ l.at = "run" /\ l.outcome = "running" /\ l.step = lp.step + 1
             \/ l.at = "finish" /\ l.outcome = "complete" /\ lp.step = 6
  <2> DEFINE l1 == [lp EXCEPT !.at = "run", !.step = @ + 1]
             l2 == [lp EXCEPT !.at = "finish", !.outcome = "complete"]
  <2>1. lp.step < 6 => l1 \in RunState /\ l1.id = id /\ l1.steps = lp.steps /\ l1.at = "run"
                       /\ l1.outcome = "running" /\ l1.step = lp.step + 1
    <3>1. lp.step \in 1..6 /\ (lp.step < 6 => lp.step + 1 \in 1..6)
      BY <1>0 DEF RunState
    <3> QED BY <1>0, <3>1 DEF RunState
  <2>2. l2 \in RunState /\ l2.id = id /\ l2.steps = lp.steps /\ l2.at = "finish" /\ l2.outcome = "complete"
    BY <1>0 DEF RunState
  <2>3. Len(Steps) = 6 /\ lp.step \in 1..6
    BY <1>0 DEF Steps, RunState
  <2>4. loop' = [loop EXCEPT ![p] = IF lp.step < Len(Steps) THEN l1 ELSE l2]
    BY DEF SaveStep, Becomes
  <2> HIDE DEF l1, l2, lp, id
  <2>5. CASE lp.step < 6
    BY <2>1, <2>3, <2>4, <2>5
  <2>6. CASE lp.step = 6
    <3>1. loop' = [loop EXCEPT ![p] = l2]
      BY <2>3, <2>4, <2>6
    <3> QED BY <2>2, <2>6, <3>1
  <2> QED BY <2>3, <2>5, <2>6
<1>3. OwnStep(p, l)
  BY <1>0, <1>1, <1>2 DEF OwnStep, AtARow, RnInv, RnType
<1>4. loop'[p] = l
  BY <1>3, OthersKeepTheirs
<1>5. \A k \in 1..6 : lp.steps[k] = "ok" => k \in did[id]
  BY <1>0 DEF Holds, AtARow
<1>6. \A k \in 1..4 : k <= lp.step => k \in did[id]
  BY <1>0 DEF Holds
<1>7. Holds(p)'
  <2>1. runs'[id].outcome = "running" /\ runs'[id].mode = "operational"
    BY <1>0, <1>1 DEF Holds, AtARow
  <2>2. l.at = "run" => \A k \in 1..4 : k < l.step => k \in did[id]
    <3>1. lp.step \in 1..6
      BY <1>0 DEF RunState
    <3> QED BY <1>2, <1>6, <3>1
  <2>3. l.at = "finish" => 1..4 \subseteq did[id]
    BY <1>2, <1>6
  <2> HIDE DEF id, lp
  <2> QED BY <1>0, <1>1, <1>2, <1>4, <1>5, <2>1, <2>2, <2>3 DEF Holds, AtARow
<1>8. \A i \in 1..Len(runs') : i = id => RowTrue(i)'
  BY <1>0, <1>1, <1>5 DEF RowTrue
<1>9. id \in PaperRows' <=> id \in PaperRows
  BY <1>0, <1>1 DEF PaperRows
<1> QED BY <1>0, <1>2, <1>3, <1>7, <1>8, <1>9, PlainStep DEF AtARow

\* finish_run, and the end of a tick.
LEMMA FinishKeeps ==
    ASSUME RnInv, NEW p \in Procs,
           FinishRun(p) \/ \E outcome \in {"complete", "no_action", "error"} : TickEnds(p, outcome)
    PROVE  RnInv'
<1> DEFINE lp == loop[p]
           id == lp.id
<1>0. /\ lp \in RunState /\ Holds(p) /\ lp.at \in {"finish", "handle", "tick"}
      /\ id \in 1..Len(runs) /\ RowTrue(id) /\ runs[id] \in Row /\ runs[id].outcome = "running"
      /\ UNCHANGED <<did, gate, halted, mishaps>> /\ mishaps \in Nat
  BY DEF RnInv, RnType, FinishRun, TickEnds, Holds, AtARow
<1>1. PICK o \in {"complete", "no_action", "error"} :
          /\ Write(p, [lp EXCEPT !.at = "ended", !.outcome = o])
          /\ loop' = [loop EXCEPT ![p] = [lp EXCEPT !.at = "ended", !.outcome = o]]
          /\ lp.at # "tick" => track' = track /\ lp.outcome = o
          /\ lp.at = "tick" =>
                track' = IF o = "complete" /\ runs[id].mode = "investment_valid" THEN track + 1 ELSE track
  <2>1. CASE FinishRun(p)
    <3>1. lp.outcome \in {"complete", "error"}
      BY <1>0, <2>1 DEF FinishRun, Holds
    <3>2. [lp EXCEPT !.at = "ended", !.outcome = lp.outcome] = [lp EXCEPT !.at = "ended"]
      BY <1>0 DEF RunState
    <3>3. runs' = [runs EXCEPT ![id].steps = lp.steps, ![id].outcome = lp.outcome]
      BY <2>1 DEF FinishRun, Write
    <3>4. /\ [lp EXCEPT !.at = "ended"].id = id /\ [lp EXCEPT !.at = "ended"].steps = lp.steps
          /\ [lp EXCEPT !.at = "ended"].outcome = lp.outcome
      BY <1>0 DEF RunState
    <3>5. Write(p, [lp EXCEPT !.at = "ended"])
      BY <3>3, <3>4 DEF Write
    <3>6. loop' = [loop EXCEPT ![p] = [lp EXCEPT !.at = "ended"]] /\ track' = track /\ lp.at # "tick"
      BY <2>1 DEF FinishRun, Becomes
    <3> QED BY <3>1, <3>2, <3>5, <3>6
  <2>2. CASE \E o \in {"complete", "no_action", "error"} : TickEnds(p, o)
    <3>1. PICK o \in {"complete", "no_action", "error"} : TickEnds(p, o)
      BY <2>2
    <3>2. [lp EXCEPT !.at = "ended", !.outcome = o].id = id
      BY <1>0 DEF RunState
    <3> QED BY <3>1, <3>2 DEF TickEnds, Becomes
  <2> QED BY <2>1, <2>2
<1> DEFINE l == [lp EXCEPT !.at = "ended", !.outcome = o]
           row == [mode |-> runs[id].mode, steps |-> lp.steps, outcome |-> o]
<1>2. l \in RunState /\ l.id = id /\ l.at = "ended" /\ l.steps = lp.steps /\ l.outcome = o
  BY <1>0 DEF RunState
<1> HIDE DEF l
<1>3. /\ runs' \in Seq(Row) /\ Len(runs') = Len(runs) /\ runs'[id] = row
      /\ \A i \in 1..Len(runs) : i # id => runs'[i] = runs[i]
  <2>1. Write(p, l) /\ o # "halted" /\ loop[p].at \in AtARow
    BY <1>0, <1>1 DEF l, AtARow
  <2> QED BY <1>2, <2>1, WrittenRow
<1>4. OwnStep(p, l)
  BY <1>0, <1>1, <1>2, <1>3 DEF OwnStep, AtARow, RnInv, RnType, l
<1>5. Holds(p)'
  BY <1>2, <1>4, OthersKeepTheirs DEF Holds, AtARow
<1>6. \A i \in 1..Len(runs') : i = id => RowTrue(i)'
  <2>1. lp.at = "tick" => did[id] = {} /\ lp.steps = Pending
    BY <1>0 DEF Holds
  <2>2. lp.at # "tick" => /\ \A k \in 1..6 : lp.steps[k] = "ok" => k \in did[id]
                          /\ o = "complete" => 1..4 \subseteq did[id]
    BY <1>0, <1>1 DEF Holds, AtARow
  <2>3. \A k \in 1..6 : Pending[k] # "ok"
    BY PendingMarks
  <2> QED BY <1>0, <1>3, <2>1, <2>2, <2>3 DEF RowTrue
<1>7. id \notin Orphans'
  BY <1>3 DEF Orphans
<1>8. \/ track' = track /\ (id \in PaperRows' <=> id \in PaperRows)
      \/ track' = track + 1 /\ id \in PaperRows' \ PaperRows
  <2>1. lp.at # "tick" => runs[id].mode = "operational"
    BY <1>0 DEF Holds, AtARow
  <2>2. id \notin PaperRows /\ (id \in PaperRows' <=> o = "complete" /\ runs[id].mode = "investment_valid")
    BY <1>0, <1>3 DEF PaperRows
  <2> QED BY <1>1, <2>1, <2>2
<1> QED BY <1>0, <1>2, <1>4, <1>5, <1>6, <1>7, <1>8, PlainStep

\* A write that is refused, and the death of a process.
LEMMA FaultKeeps ==
    ASSUME RnInv, NEW p \in Procs, WriteRefused(p) \/ ProcessDies(p)
    PROVE  RnInv'
<1> DEFINE lp == loop[p]
<1>0. /\ lp \in RunState /\ Holds(p) /\ mishaps' = mishaps + 1 /\ mishaps \in Nat
      /\ UNCHANGED <<runs, did, track, gate, halted>>
  BY DEF RnInv, RnType, WriteRefused, ProcessDies, Mishap
<1>1. PICK l \in RunState : /\ loop' = [loop EXCEPT ![p] = l]
                            /\ \/ l.at = "ended"
                               \/ /\ l.at = "handle" /\ l.id = lp.id /\ l.steps = lp.steps /\ l.outcome = "error"
                                  /\ lp.at \in {"save", "finish"}
  <2>1. CASE ProcessDies(p)
    <3>1. Fresh \in RunState
      BY PendingMarks DEF RunState, Fresh
    <3>2. [Fresh EXCEPT !.at = "ended"] \in RunState /\ [Fresh EXCEPT !.at = "ended"].at = "ended"
      BY <3>1 DEF RunState
    <3> QED BY <2>1, <3>2 DEF ProcessDies, Becomes
  <2>2. CASE WriteRefused(p)
    <3> DEFINE l1 == [lp EXCEPT !.at = "ended"]
               l2 == [lp EXCEPT !.at = "handle", !.outcome = "error"]
    <3>1. l1 \in RunState /\ l1.at = "ended"
      BY <1>0 DEF RunState
    <3>2. l2 \in RunState /\ l2.at = "handle" /\ l2.id = lp.id /\ l2.steps = lp.steps /\ l2.outcome = "error"
      BY <1>0 DEF RunState
    <3>3. loop' = [loop EXCEPT ![p] = IF lp.at = "handle" THEN l1 ELSE l2] /\ lp.at \in {"save", "finish", "handle"}
      BY <2>2 DEF WriteRefused, Becomes, AfterRefusal
    <3> HIDE DEF l1, l2, lp
    <3> QED BY <3>1, <3>2, <3>3
  <2> QED BY <2>1, <2>2
<1>2. OwnStep(p, l)
  BY <1>0, <1>1 DEF OwnStep, AtARow, RnInv, RnType
<1>3. loop'[p] = l
  BY <1>2, OthersKeepTheirs
<1>4. Holds(p)'
  <2>1. CASE l.at = "ended"
    BY <1>3, <2>1 DEF Holds, AtARow
  <2>2. CASE l.at = "handle" /\ lp.at \in {"save", "finish"}
    BY <1>0, <1>1, <1>3, <2>2 DEF Holds, AtARow
  <2> QED BY <1>1, <2>1, <2>2
<1>5. \A i \in 1..Len(runs') : RowTrue(i)'
  BY <1>0 DEF RnInv, RowTrue
<1>6. lp.id \in PaperRows' <=> lp.id \in PaperRows
  BY <1>0 DEF PaperRows
<1> QED BY <1>0, <1>2, <1>4, <1>5, <1>6, PlainStep

\* begin_run: the one step that adds a row.
LEMMA BeginKeeps ==
    ASSUME RnInv, NEW p \in Procs, NEW m \in {"operational", "investment_valid"},
           p \in Loops => m = "operational", BeginRun(p, m)
    PROVE  RnInv'
<1> DEFINE row == [mode |-> m, steps |-> Pending, outcome |-> "running"]
           n == Len(runs) + 1
           at == IF p \in Loops THEN "run" ELSE "tick"
           l == [loop[p] EXCEPT !.at = at, !.id = n]
<1>0. /\ loop[p] \in RunState /\ loop[p].at = "begin" /\ loop[p].id = 0 /\ loop[p].step = 1
      /\ loop[p].steps = Pending /\ loop[p].outcome = "running"
      /\ UNCHANGED <<track, gate, halted, mishaps>> /\ mishaps \in Nat /\ track \in Nat
      /\ runs \in Seq(Row) /\ did \in Seq(SUBSET (1..6)) /\ Len(did) = Len(runs) /\ Len(runs) \in Nat
  BY DEF RnInv, RnType, BeginRun, Holds
<1>1. /\ runs' = Append(runs, row) /\ did' = Append(did, {}) /\ loop' = [loop EXCEPT ![p] = l]
  BY DEF BeginRun, Becomes
<1>2. /\ l \in RunState /\ l.at = at /\ l.id = n /\ l.step = 1 /\ l.steps = Pending /\ l.outcome = "running"
  <2>1. at \in {"run", "tick"} /\ n \in Nat
    BY <1>0
  <2> HIDE DEF at, n
  <2> QED BY <1>0, <2>1 DEF RunState
<1>3. row \in Row
  BY PendingMarks DEF Row
<1>4. /\ runs' \in Seq(Row) /\ Len(runs') = n /\ runs'[n] = row
      /\ \A i \in 1..Len(runs) : runs'[i] = runs[i]
  BY <1>0, <1>1, <1>3
<1>5. /\ did' \in Seq(SUBSET (1..6)) /\ Len(did') = n /\ did'[n] = {}
      /\ \A i \in 1..Len(runs) : did'[i] = did[i]
  BY <1>0, <1>1
<1> HIDE DEF l, n
<1>6. /\ loop' \in [Procs -> RunState] /\ loop'[p] = l
      /\ \A q \in Procs \ {p} : loop'[q] = loop[q]
  BY <1>1, <1>2 DEF RnInv, RnType
<1>n. n = Len(runs) + 1
  BY DEF n
<1>7. RnType'
  BY <1>0, <1>4, <1>5, <1>6 DEF RnInv, RnType
<1>8. ASSUME NEW q \in Procs PROVE Holds(q)'
  <2>1. CASE q = p
    BY <1>0, <1>2, <1>4, <1>5, <1>6, <1>n, <2>1, PendingMarks DEF Holds, AtARow
  <2>2. CASE q # p
    <3>1. Holds(q) /\ loop'[q] = loop[q]
      BY <1>6, <2>2 DEF RnInv
    <3>2. CASE loop[q].at \in AtARow
      <4>1. loop[q].id \in 1..Len(runs)
        BY <3>1, <3>2 DEF Holds
      <4>2. runs'[loop[q].id] = runs[loop[q].id] /\ did'[loop[q].id] = did[loop[q].id]
            /\ loop[q].id \in 1..Len(runs')
        BY <1>0, <1>4, <1>5, <1>n, <4>1
      <4> QED BY <3>1, <4>2 DEF Holds
    <3>3. CASE loop[q].at \notin AtARow
      BY <3>1, <3>3 DEF Holds, AtARow
    <3> QED BY <3>2, <3>3
  <2> QED BY <2>1, <2>2
<1>9. Alone'
  <2>1. \A q \in Procs : loop[q].at \in AtARow => loop[q].id # n
    BY <1>0, <1>n DEF RnInv, Holds
  <2> QED BY <1>2, <1>6, <2>1 DEF RnInv, Alone
<1>10. \A i \in 1..Len(runs') : RowTrue(i)'
  <2>1. ASSUME NEW i \in 1..Len(runs), RowTrue(i) PROVE RowTrue(i)'
    BY <1>4, <1>5, <2>1 DEF RowTrue
  <2>2. ASSUME NEW i, i = n PROVE RowTrue(i)'
    BY <1>4, <1>5, <2>2, PendingMarks DEF RowTrue
  <2>3. \A i \in 1..Len(runs') : i \in 1..Len(runs) \/ i = n
    BY <1>0, <1>4, <1>n
  <2> QED BY <2>1, <2>2, <2>3 DEF RnInv
<1>11. Orphans' = Orphans
  <2>1. ASSUME NEW i \in 1..Len(runs) PROVE Held(i)' <=> Held(i)
    <3>1. i # n /\ i # 0
      BY <1>0, <1>n
    <3> QED BY <1>0, <1>2, <1>6, <3>1 DEF Held
  <2>2. ASSUME NEW i, i = n PROVE Held(i)'
    <3>1. loop'[p].id = i /\ loop'[p].at # "ended"
      BY <1>2, <1>6, <2>2
    <3> QED BY <3>1 DEF Held
  <2>3. ASSUME NEW i PROVE i \in Orphans' <=> i \in Orphans
    <3>1. i \in 1..Len(runs') <=> i \in 1..Len(runs) \/ i = n
      BY <1>0, <1>4, <1>n
    <3>2. i = n => i \notin Orphans' /\ i \notin Orphans
      BY <1>0, <1>n, <2>2 DEF Orphans
    <3>3. i \in 1..Len(runs) => (i \in Orphans' <=> i \in Orphans)
      BY <1>4, <2>1, <3>1 DEF Orphans
    <3>4. i \in Orphans => i \in 1..Len(runs)
      BY DEF Orphans
    <3>5. i \in Orphans' => i \in 1..Len(runs')
      BY DEF Orphans
    <3> QED BY <3>1, <3>2, <3>3, <3>4, <3>5
  <2>4. Orphans' \subseteq Orphans /\ Orphans \subseteq Orphans'
    BY <2>3
  <2> QED BY <2>4
<1>12. PaperRows' = PaperRows
  BY <1>0, <1>4, <1>n DEF PaperRows
<1> QED BY <1>0, <1>7, <1>8, <1>9, <1>10, <1>11, <1>12 DEF RnInv

----------------------------------------------------------------------------
\* RnInv is inductive.
LEMMA RnNext == RnInv /\ [RunnerNext]_runnerVars => RnInv'
<1> SUFFICES ASSUME RnInv, [RunnerNext]_runnerVars
             PROVE  RnInv'
  OBVIOUS
<1>1. ASSUME NEW p \in Procs, LoopStep(p) PROVE RnInv'
  BY <1>1, QuietKeeps, StepKeeps, SaveKeeps, FinishKeeps, FaultKeeps, BeginKeeps DEF LoopStep
<1>2. ASSUME UNCHANGED <<runs, loop, did, track, mishaps>>, halted' \in BOOLEAN,
             gate' \in [at : {"idle", "count", "answered"}, halted : BOOLEAN, ready : BOOLEAN],
             gate'.ready => track >= MinPaperRuns
      PROVE  RnInv'
  BY <1>2 DEF RnInv, RnType, Holds, Alone, RowTrue, Orphans, Held, PaperRows
<1>3. CASE Throw
  BY <1>2, <1>3 DEF Throw, RnInv, RnType
<1>4. CASE AskFlag
  <2>1. gate' = [at |-> "count", halted |-> halted, ready |-> FALSE] /\ halted \in BOOLEAN
    BY <1>4 DEF AskFlag, NoGate, RnInv, RnType
  <2>2. gate' \in [at : {"idle", "count", "answered"}, halted : BOOLEAN, ready : BOOLEAN] /\ ~gate'.ready
    BY <2>1, Zenon
  <2> QED BY <1>2, <1>4, <2>1, <2>2 DEF AskFlag
<1>5. ASSUME NEW liveEnabled \in BOOLEAN, AskClock(liveEnabled) PROVE RnInv'
  <2> DEFINE ready == ~gate.halted /\ PaperRuns >= MinPaperRuns /\ liveEnabled
  <2>1. gate' = [gate EXCEPT !.at = "answered", !.ready = ready]
    BY <1>5 DEF AskClock
  <2>2. ready => track >= MinPaperRuns
    <3>1. DOMAIN runs = 1..Len(runs)
      BY DEF RnInv, RnType
    <3>2. PaperRuns = Cardinality(PaperRows)
      BY <3>1 DEF PaperRuns, PaperRows
    <3> QED BY <3>2 DEF RnInv
  <2>3. ready \in BOOLEAN
    OBVIOUS
  <2> HIDE DEF ready
  <2>4. gate' = [at |-> "answered", halted |-> gate.halted, ready |-> ready] /\ gate.halted \in BOOLEAN
    BY <2>1 DEF RnInv, RnType
  <2>5. gate' \in [at : {"idle", "count", "answered"}, halted : BOOLEAN, ready : BOOLEAN] /\ (gate'.ready => ready)
    BY <2>3, <2>4, Zenon
  <2>6. UNCHANGED <<runs, loop, did, track, mishaps>> /\ halted' \in BOOLEAN
    BY <1>5 DEF AskClock, RnInv, RnType
  <2> QED BY <1>2, <2>2, <2>5, <2>6
<1>6. CASE UNCHANGED runnerVars
  BY <1>2, <1>6 DEF runnerVars, RnInv, RnType
<1> QED BY <1>1, <1>3, <1>4, <1>5, <1>6 DEF RunnerNext

\* The runs table says what happened, whatever raises, is refused or dies, and the
\* readiness clock counts realistic ticks that came to a complete end and nothing else.
THEOREM HonestRuns == RunnerSpec => []RunsAreHonest
<1>1. ASSUME RnInv PROVE RunsAreHonest
  <2>1. DOMAIN runs = 1..Len(runs) /\ DOMAIN Steps = 1..6
    BY <1>1, PendingMarks DEF RnInv, RnType
  <2>2. RowsTellTheTruth
    <3>1. \A i \in Heartbeats : runs[i].outcome = "complete" => {1, 2, 3, 4} \subseteq did[i]
      BY <1>1, <2>1 DEF Heartbeats, RnInv, RowTrue
    <3>2. \A i \in DOMAIN runs, k \in DOMAIN Steps : runs[i].steps[k] = "ok" => k \in did[i]
      BY <1>1, <2>1 DEF RnInv, RowTrue
    <3>3. Cardinality({i \in DOMAIN runs : runs[i].outcome = "running" /\ ~Held(i)}) <= mishaps
      BY <1>1, <2>1 DEF RnInv, Orphans
    <3> QED BY <3>1, <3>2, <3>3 DEF RowsTellTheTruth
  <2>3. ClockIsEarned
    BY <1>1, <2>1 DEF RnInv, ClockIsEarned, PaperRuns, PaperRows
  <2> QED BY <2>2, <2>3 DEF RunsAreHonest
<1> QED BY <1>1, RnInit, RnNext, PTL DEF RunnerSpec

----------------------------------------------------------------------------
(* The backup.  Nothing locks the files, so the proof cannot follow the    *)
(* order in which pages are copied, changed and compared.  It rests on one *)
(* thing instead: while nothing is restored the pages of a file only grow  *)
(* (a page is the number of the commit that wrote it), so a page that is   *)
(* as it was copied when it is compared has been so in between as well,    *)
(* and in particular at the moment the copying ended.                      *)

Logs == UNION {[S -> Nat] : S \in SUBSET Pages}

BkType ==
    /\ file \in [Dbs -> [Pages -> Nat]] /\ log \in [Dbs -> Logs]
    /\ copy \in [Dbs -> [Pages -> Nat]] /\ moment \in [Dbs -> [Pages -> Nat]]
    /\ user \in [Users -> [at : {"idle", "open", "update"}, db : Dbs \cup {"none"}]]
    /\ \A u \in Users : user[u].at # "idle" => user[u].db \in Dbs
    /\ job \in [at : {"idle", "copy", "verify", "verified", "failed", "dead"},
                db : 1..Len(Databases), page : Pages, ok : BOOLEAN]
    /\ restored \subseteq Dbs /\ atRest \subseteq Dbs /\ commits \in Nat
    /\ committed \in [Dbs -> SUBSET [Pages -> Nat]]

\* A copied page is no newer than the file's, which is no newer than the log's.
PagesGrow ==
    \A d \in Dbs, p \in Pages :
        /\ copy[d][p] <= file[d][p] /\ file[d][p] <= commits
        /\ p \in DOMAIN log[d] => file[d][p] <= log[d][p] /\ log[d][p] <= commits

\* The page p of the k-th database comes before the one the job is at.
Before(k, p) == k < job.db \/ (k = job.db /\ p < job.page)

\* What verify_backup has compared so far was the same at the moment the copying ended.
SoFarTheSame ==
    /\ \A d \in Dbs, p \in Pages : copy[d][p] <= moment[d][p] /\ moment[d][p] <= file[d][p]
    /\ \A k \in 1..Len(Databases), p \in Pages :
           Before(k, p) => copy[Databases[k]][p] = moment[Databases[k]][p]

BkInv ==
    /\ BkType
    /\ restored # {} => job.at \in {"verified", "idle"}
    /\ restored = {} => PagesGrow /\ \A d \in Dbs : Content(d) \in committed[d]
    /\ \A d \in atRest : moment[d] \in committed[d]
    /\ job.at = "verify" => SoFarTheSame
    /\ job.at = "verified" => copy = moment
    /\ \A d \in restored : file[d] = copy[d]

LEMMA TheDatabases ==
    /\ Len(Databases) \in Nat /\ 1 \in 1..Len(Databases)
    /\ \A k \in 1..Len(Databases) : Databases[k] \in Dbs
    /\ \A d \in Dbs : \E k \in 1..Len(Databases) : Databases[k] = d
BY BackupConstants DEF Dbs, Range

\* A log over a file.
LEMMA OverIs ==
    ASSUME NEW l \in Logs, NEW f \in [Pages -> Nat]
    PROVE  /\ Over(l, f) \in [Pages -> Nat]
           /\ \A p \in Pages : Over(l, f)[p] = IF p \in DOMAIN l THEN l[p] ELSE f[p]
<1>1. DOMAIN l \subseteq Pages /\ \A p \in DOMAIN l : l[p] \in Nat
  BY DEF Logs
<1> QED BY <1>1 DEF Over

LEMMA BkInit == BackupInit => BkInv
<1> SUFFICES ASSUME BackupInit PROVE BkInv
  OBVIOUS
<1>1. Empty \in [Pages -> Nat] /\ \A p \in Pages : Empty[p] = 0
  BY DEF Empty
<1>2. NoLog \in Logs /\ DOMAIN NoLog = {}
  BY DEF NoLog, Logs
<1>3. Min(Pages) \in Pages
  BY MinIs, BackupConstants
<1>4. NoJob \in [at : {"idle", "copy", "verify", "verified", "failed", "dead"},
                 db : 1..Len(Databases), page : Pages, ok : BOOLEAN]
  BY <1>3, TheDatabases, Zenon DEF NoJob
<1>5. BkType
  BY <1>1, <1>2, <1>4 DEF BackupInit, BkType, Nobody
<1>6. PagesGrow
  BY <1>1, <1>2 DEF BackupInit, PagesGrow
<1>7. \A d \in Dbs : Content(d) \in committed[d]
  <2> SUFFICES ASSUME NEW d \in Dbs PROVE Content(d) = Empty
    BY DEF BackupInit
  <2>1. Content(d) = Over(NoLog, Empty)
    BY DEF BackupInit, Content
  <2> QED BY <1>1, <1>2, <2>1, OverIs
<1> QED BY <1>5, <1>6, <1>7 DEF BackupInit, BkInv, NoJob

----------------------------------------------------------------------------
\* The programs beside the job.

JobRecord == [at : {"idle", "copy", "verify", "verified", "failed", "dead"},
              db : 1..Len(Databases), page : Pages, ok : BOOLEAN]

\* A step of a program that lets no page of a file shrink.
LEMMA ProgramStep ==
    ASSUME BkInv, restored = {}, UNCHANGED jobState, BkType', PagesGrow',
           \A d \in Dbs, p \in Pages : file[d][p] <= file'[d][p],
           \A d \in Dbs : Content(d)' \in committed'[d],
           \A d \in Dbs : committed[d] \subseteq committed'[d]
    PROVE  BkInv'
<1>1. UNCHANGED <<job, copy, restored, moment, atRest>>
  BY DEF jobState
<1>2. BkType /\ BkType'
  BY DEF BkInv
<1>3. \A d \in atRest' : moment'[d] \in committed'[d]
  BY <1>1, <1>2 DEF BkInv, BkType
<1>4. job'.at = "verify" => SoFarTheSame'
  <2>1. \A d \in Dbs, p \in Pages : moment[d][p] \in Nat /\ file[d][p] \in Nat /\ file'[d][p] \in Nat
    BY <1>2 DEF BkType
  <2>2. \A d \in Dbs, p \in Pages : moment[d][p] <= file[d][p] => moment[d][p] <= file'[d][p]
    BY <2>1
  <2> QED BY <1>1, <2>2 DEF BkInv, SoFarTheSame, Before
<1> QED BY <1>1, <1>2, <1>3, <1>4 DEF BkInv

LEMMA OpenCloseKeep ==
    ASSUME BkInv, restored = {}, NEW u \in Users,
           (\E d \in Dbs : Open(u, d)) \/ Close(u) \/ UserCrash(u)
    PROVE  BkInv'
<1>1. UNCHANGED <<file, log, committed, commits>> /\ UNCHANGED jobState
  BY DEF Open, Close, UserCrash, dbState, jobState
<1>2. UNCHANGED <<job, copy, restored, moment, atRest>>
  BY <1>1 DEF jobState
<1>3. BkType
  BY DEF BkInv
<1>4. PICK n \in [at : {"idle", "open", "update"}, db : Dbs \cup {"none"}] :
          user' = [user EXCEPT ![u] = n] /\ (n.at # "idle" => n.db \in Dbs)
  <2>1. CASE \E d \in Dbs : Open(u, d)
    BY <2>1 DEF Open
  <2>2. Nobody \in [at : {"idle", "open", "update"}, db : Dbs \cup {"none"}] /\ Nobody.at = "idle"
    BY DEF Nobody
  <2>3. CASE Close(u)
    <3>1. user[u].db \in Dbs /\ user[u] \in [at : {"idle", "open", "update"}, db : Dbs \cup {"none"}]
      BY <1>3, <2>3 DEF Close, BkType
    <3>2. [user[u] EXCEPT !.at = "update"] = [at |-> "update", db |-> user[u].db]
      BY <3>1
    <3>3. user' = [user EXCEPT ![u] = [user[u] EXCEPT !.at = "update"]] \/ user' = [user EXCEPT ![u] = Nobody]
      BY <2>3 DEF Close
    <3> QED BY <2>2, <3>1, <3>2, <3>3
  <2>4. CASE UserCrash(u)
    BY <2>2, <2>4 DEF UserCrash
  <2> QED BY <2>1, <2>3, <2>4
<1>5. BkType'
  BY <1>1, <1>2, <1>3, <1>4 DEF BkType
<1>6. PagesGrow' /\ \A d \in Dbs : Content(d)' \in committed'[d]
  BY <1>1, <1>2 DEF BkInv, PagesGrow, Content
<1>7. \A d \in Dbs, p \in Pages : file[d][p] <= file'[d][p]
  BY <1>1, <1>3 DEF BkType
<1> QED BY <1>1, <1>5, <1>6, <1>7, ProgramStep

LEMMA CommitKeeps ==
    ASSUME BkInv, restored = {}, NEW u \in Users, NEW written \in SUBSET Pages, Commit(u, written)
    PROVE  BkInv'
<1> DEFINE d == user[u].db
           new == [p \in written |-> commits + 1]
           pages == Over(new, log[d])
<1>0. BkType /\ d \in Dbs /\ PagesGrow /\ commits \in Nat /\ commits' = commits + 1
  BY DEF BkInv, BkType, Commit
<1>1. /\ log' = [log EXCEPT ![d] = pages]
      /\ committed' = [committed EXCEPT ![d] = committed[d] \cup {Over(pages, file[d])}]
      /\ UNCHANGED <<file, user>> /\ UNCHANGED jobState
  BY DEF Commit
<1>2. UNCHANGED <<job, copy, restored, moment, atRest>>
  BY <1>1 DEF jobState
<1>3. /\ DOMAIN log[d] \subseteq Pages
      /\ \A p \in DOMAIN log[d] : log[d][p] \in Nat /\ file[d][p] <= log[d][p] /\ log[d][p] <= commits
  BY <1>0 DEF BkType, Logs, PagesGrow
<1>4. /\ pages \in Logs /\ DOMAIN pages \subseteq Pages
      /\ \A p \in DOMAIN pages : pages[p] = commits + 1 \/ (p \in DOMAIN log[d] /\ pages[p] = log[d][p])
  <2>1. DOMAIN pages = written \cup DOMAIN log[d]
    BY DEF Over
  <2>2. \A p \in DOMAIN pages : pages[p] = IF p \in written THEN commits + 1 ELSE log[d][p]
    BY DEF Over
  <2>3. pages = [p \in DOMAIN pages |-> pages[p]]
    BY DEF Over
  <2> HIDE DEF pages
  <2>4. pages \in [DOMAIN pages -> Nat]
    BY <1>0, <1>3, <2>1, <2>2, <2>3
  <2> QED BY <1>3, <2>1, <2>2, <2>4 DEF Logs
<1> HIDE DEF pages
<1>5. BkType'
  <2>1. log' \in [Dbs -> Logs]
    BY <1>0, <1>1, <1>4 DEF BkType
  <2>2. Over(pages, file[d]) \in [Pages -> Nat]
    BY <1>0, <1>4, OverIs DEF BkType
  <2>3. committed' \in [Dbs -> SUBSET [Pages -> Nat]]
    BY <1>0, <1>1, <2>2 DEF BkType
  <2> QED BY <1>0, <1>1, <1>2, <2>1, <2>3 DEF BkType
<1>6. PagesGrow'
  <2> SUFFICES ASSUME NEW e \in Dbs, NEW p \in Pages
               PROVE  /\ copy[e][p] <= file[e][p] /\ file[e][p] <= commits + 1
                      /\ p \in DOMAIN log'[e] => file[e][p] <= log'[e][p] /\ log'[e][p] <= commits + 1
    BY <1>0, <1>1, <1>2 DEF PagesGrow
  <2>1. /\ copy[e][p] \in Nat /\ file[e][p] \in Nat
        /\ copy[e][p] <= file[e][p] /\ file[e][p] <= commits
    BY <1>0 DEF BkType, PagesGrow
  <2>2. CASE e = d
    <3>1. log'[e] = pages
      BY <1>0, <1>1, <2>2 DEF BkType
    <3> HIDE DEF d
    <3>2. p \in DOMAIN pages => file[e][p] <= pages[p] /\ pages[p] <= commits + 1
      <4>1. CASE pages[p] = commits + 1
        BY <1>0, <2>1, <4>1
      <4>2. CASE p \in DOMAIN log[d] /\ pages[p] = log[d][p]
        BY <1>0, <1>3, <2>1, <2>2, <4>2
      <4> QED BY <1>4, <4>1, <4>2
    <3> QED BY <1>0, <2>1, <3>1, <3>2
  <2>3. CASE e # d
    <3>1. log'[e] = log[e] /\ (p \in DOMAIN log[e] => log[e][p] \in Nat /\ file[e][p] <= log[e][p] /\ log[e][p] <= commits)
      BY <1>0, <1>1, <2>3 DEF BkType, Logs, PagesGrow
    <3> QED BY <1>0, <2>1, <3>1
  <2> QED BY <2>2, <2>3
<1>7. \A e \in Dbs : Content(e)' \in committed'[e] /\ committed[e] \subseteq committed'[e]
  <2> SUFFICES ASSUME NEW e \in Dbs
               PROVE  Over(log'[e], file[e]) \in committed'[e] /\ committed[e] \subseteq committed'[e]
    BY <1>1 DEF Content
  <2> HIDE DEF d
  <2>1. CASE e = d
    <3>1. log'[d] = pages
      BY <1>0, <1>1 DEF BkType
    <3>2. committed'[d] = committed[d] \cup {Over(pages, file[d])}
      BY <1>0, <1>1 DEF BkType
    <3> QED BY <2>1, <3>1, <3>2
  <2>2. CASE e # d
    <3>1. log'[e] = log[e] /\ committed'[e] = committed[e]
      BY <1>0, <1>1, <2>2 DEF BkType
    <3> QED BY <3>1 DEF BkInv, Content
  <2> QED BY <2>1, <2>2
<1>8. \A e \in Dbs, p \in Pages : file[e][p] <= file'[e][p]
  BY <1>0, <1>1 DEF BkType
<1> QED BY <1>1, <1>5, <1>6, <1>7, <1>8, ProgramStep

LEMMA CheckpointKeeps ==
    ASSUME BkInv, restored = {}, NEW u \in Users, (\E p \in Pages : UpdatePage(u, p)) \/ DropLog(u)
    PROVE  BkInv'
<1> DEFINE d == user[u].db
<1>0. BkType /\ d \in Dbs /\ PagesGrow /\ commits \in Nat /\ UNCHANGED <<committed, commits>> /\ UNCHANGED jobState
  BY DEF BkInv, BkType, UpdatePage, DropLog
<1>1. UNCHANGED <<job, copy, restored, moment, atRest>>
  BY <1>0 DEF jobState
<1>2. log[d] \in Logs /\ file[d] \in [Pages -> Nat] /\ DOMAIN log[d] \subseteq Pages
      /\ \A p \in DOMAIN log[d] : log[d][p] \in Nat /\ file[d][p] <= log[d][p] /\ log[d][p] <= commits
  BY <1>0 DEF BkType, Logs, PagesGrow
<1>3. ASSUME NEW q \in Pages, UpdatePage(u, q) PROVE BkInv'
  <2> DEFINE f == [file[d] EXCEPT ![q] = log[d][q]]
  <2>1. file' = [file EXCEPT ![d] = f] /\ q \in DOMAIN log[d] /\ UNCHANGED <<log, user>>
    BY <1>3 DEF UpdatePage
  <2>2. f \in [Pages -> Nat] /\ \A p \in Pages : f[p] = IF p = q THEN log[d][q] ELSE file[d][p]
    BY <1>2, <2>1
  <2> HIDE DEF f, d
  <2>3. file' \in [Dbs -> [Pages -> Nat]] /\ \A e \in Dbs : file'[e] = IF e = d THEN f ELSE file[e]
    BY <1>0, <2>1, <2>2 DEF BkType
  <2>4. BkType'
    BY <1>0, <1>1, <2>1, <2>3 DEF BkType
  <2>5. ASSUME NEW e \in Dbs, NEW p \in Pages
        PROVE  /\ copy[e][p] \in Nat /\ file[e][p] \in Nat /\ file[e][p] <= file'[e][p]
               /\ copy[e][p] <= file'[e][p] /\ file'[e][p] <= commits
               /\ p \in DOMAIN log[e] => file'[e][p] <= log[e][p] /\ log[e][p] <= commits
    <3>1. /\ copy[e][p] \in Nat /\ file[e][p] \in Nat
          /\ copy[e][p] <= file[e][p] /\ file[e][p] <= commits
          /\ p \in DOMAIN log[e] => file[e][p] <= log[e][p] /\ log[e][p] <= commits
      BY <1>0 DEF BkType, PagesGrow
    <3>2. CASE e = d /\ p = q
      <4>1. file'[e][p] = log[d][q] /\ log[d][q] \in Nat
        BY <1>2, <2>1, <2>2, <2>3, <3>2
      <4> QED BY <1>0, <1>2, <2>1, <3>1, <3>2, <4>1
    <3>3. CASE ~ (e = d /\ p = q)
      <4>1. file'[e][p] = file[e][p]
        BY <2>2, <2>3, <3>3
      <4> QED BY <3>1, <4>1
    <3> QED BY <3>2, <3>3
  <2>6. PagesGrow'
    BY <1>0, <1>1, <2>1, <2>5 DEF PagesGrow
  <2>7. ASSUME NEW e \in Dbs PROVE Content(e)' = Content(e)
    <3>1. CASE e = d
      <4>1. Over(log[d], f) = Over(log[d], file[d])
        <5>1. Over(log[d], f) \in [Pages -> Nat] /\ Over(log[d], file[d]) \in [Pages -> Nat]
          BY <1>2, <2>2, OverIs
        <5>2. \A p \in Pages : Over(log[d], f)[p] = Over(log[d], file[d])[p]
          BY <1>2, <2>1, <2>2, OverIs
        <5> QED BY <5>1, <5>2
      <4> QED BY <2>1, <2>3, <3>1, <4>1 DEF Content
    <3>2. CASE e # d
      BY <2>1, <2>3, <3>2 DEF Content
    <3> QED BY <3>1, <3>2
  <2>8. \A e \in Dbs : Content(e)' \in committed'[e] /\ committed[e] \subseteq committed'[e]
    BY <1>0, <2>7 DEF BkInv
  <2> QED BY <1>0, <2>4, <2>5, <2>6, <2>8, ProgramStep
<1>4. CASE DropLog(u)
  <2>1. /\ log' = [log EXCEPT ![d] = NoLog] /\ user' = [user EXCEPT ![u] = Nobody] /\ file' = file
        /\ \A p \in DOMAIN log[d] : file[d][p] = log[d][p]
    BY <1>4 DEF DropLog
  <2>2. NoLog \in Logs /\ DOMAIN NoLog = {}
    BY DEF NoLog, Logs
  <2>3. log' \in [Dbs -> Logs] /\ \A e \in Dbs : log'[e] = IF e = d THEN NoLog ELSE log[e]
    BY <1>0, <2>1, <2>2 DEF BkType
  <2>4. BkType'
    <3>1. Nobody \in [at : {"idle", "open", "update"}, db : Dbs \cup {"none"}] /\ Nobody.at = "idle"
      BY DEF Nobody
    <3>2. /\ user' \in [Users -> [at : {"idle", "open", "update"}, db : Dbs \cup {"none"}]]
          /\ \A v \in Users : user'[v].at # "idle" => user'[v].db \in Dbs
      BY <1>0, <2>1, <3>1 DEF BkType
    <3> QED BY <1>0, <1>1, <2>1, <2>3, <3>2 DEF BkType
  <2>5. PagesGrow'
    BY <1>0, <1>1, <2>1, <2>2, <2>3 DEF PagesGrow
  <2>6. ASSUME NEW e \in Dbs PROVE Content(e)' = Content(e)
    <3>1. CASE e = d
      <4>1. Over(NoLog, file[d]) = Over(log[d], file[d])
        <5>1. Over(NoLog, file[d]) \in [Pages -> Nat] /\ Over(log[d], file[d]) \in [Pages -> Nat]
          BY <1>2, <2>2, OverIs
        <5>2. \A p \in Pages : Over(NoLog, file[d])[p] = Over(log[d], file[d])[p]
          BY <1>2, <2>1, <2>2, OverIs
        <5> QED BY <5>1, <5>2
      <4> QED BY <2>1, <2>3, <3>1, <4>1 DEF Content
    <3>2. CASE e # d
      BY <2>1, <2>3, <3>2 DEF Content
    <3> QED BY <3>1, <3>2
  <2>7. \A e \in Dbs : Content(e)' \in committed'[e] /\ committed[e] \subseteq committed'[e]
    BY <1>0, <2>6 DEF BkInv
  <2>8. \A e \in Dbs, p \in Pages : file[e][p] <= file'[e][p]
    BY <1>0, <2>1 DEF BkType
  <2> QED BY <1>0, <2>4, <2>5, <2>7, <2>8, ProgramStep
<1> QED BY <1>3, <1>4

----------------------------------------------------------------------------
\* The weekly job.

LEMMA WalkGoesOn ==
    ASSUME BkType, NEW then \in {"verify", "verified"}
    PROVE  /\ Walk(then) \in JobRecord
           /\ \/ /\ Walk(then).at = job.at
                 /\ \A k \in 1..Len(Databases), p \in Pages :
                        k < Walk(then).db \/ (k = Walk(then).db /\ p < Walk(then).page) =>
                            Before(k, p) \/ (k = job.db /\ p = job.page)
              \/ /\ Walk(then).at = then /\ Ends
                 /\ \A k \in 1..Len(Databases), p \in Pages :
                        /\ Before(k, p) \/ (k = job.db /\ p = job.page)
                        /\ ~ (k < Walk(then).db \/ (k = Walk(then).db /\ p < Walk(then).page))
<1> DEFINE later == {p \in Pages : p > job.page}
           w == Walk(then)
<1>0. /\ job \in JobRecord /\ job.db \in 1..Len(Databases) /\ job.page \in Pages /\ Pages \subseteq Nat
      /\ Len(Databases) \in Nat /\ 1 \in 1..Len(Databases)
  BY BackupConstants, TheDatabases DEF BkType, JobRecord
<1>1. Min(Pages) \in Pages /\ \A p \in Pages : Min(Pages) <= p
  BY MinIs, BackupConstants
<1>2. CASE later # {}
  <2>1. Min(later) \in later /\ \A p \in later : Min(later) <= p
    <3> HIDE DEF later
    <3>1. later \subseteq Nat
      BY <1>0 DEF later
    <3> QED BY <1>2, <3>1, MinIs
  <2>2. w = [job EXCEPT !.page = Min(later)]
    BY <1>2 DEF Walk
  <2>3. Min(later) \in Pages
    BY <2>1
  <2>4. w \in JobRecord /\ w.at = job.at /\ w.db = job.db /\ w.page = Min(later)
    BY <1>0, <2>2, <2>3 DEF JobRecord
  <2>5. ASSUME NEW p \in Pages, p < Min(later) PROVE p <= job.page
    <3>1. p \in Nat /\ Min(later) \in Nat /\ job.page \in Nat
      BY <1>0, <2>3
    <3>2. p \notin later
      BY <2>1, <2>5, <3>1
    <3> QED BY <3>1, <3>2
  <2> HIDE DEF later, w
  <2>6. ASSUME NEW k \in 1..Len(Databases), NEW p \in Pages, k < w.db \/ (k = w.db /\ p < w.page)
        PROVE  Before(k, p) \/ (k = job.db /\ p = job.page)
    <3>1. p \in Nat /\ job.page \in Nat
      BY <1>0
    <3>2. k = job.db => p <= job.page
      BY <1>0, <2>4, <2>5, <2>6
    <3> QED BY <2>4, <2>6, <3>1, <3>2 DEF Before
  <2> QED BY <2>4, <2>6 DEF w
<1>3. ASSUME later = {}, NEW p \in Pages PROVE p <= job.page
  <2>1. p \in Nat /\ job.page \in Nat
    BY <1>0
  <2>2. p \notin later
    BY <1>3
  <2> QED BY <2>1, <2>2
<1>4. CASE later = {} /\ job.db < Len(Databases)
  <2>1. w = [job EXCEPT !.page = Min(Pages), !.db = job.db + 1]
    BY <1>4 DEF Walk
  <2>2. job.db + 1 \in 1..Len(Databases)
    BY <1>0, <1>4
  <2>3. w \in JobRecord /\ w.at = job.at /\ w.db = job.db + 1 /\ w.page = Min(Pages)
    BY <1>0, <1>1, <2>1, <2>2 DEF JobRecord
  <2> HIDE DEF later, w
  <2>4. ASSUME NEW k \in 1..Len(Databases), NEW p \in Pages, k < w.db \/ (k = w.db /\ p < w.page)
        PROVE  Before(k, p) \/ (k = job.db /\ p = job.page)
    <3>1. p \in Nat /\ job.page \in Nat /\ Min(Pages) \in Nat /\ Min(Pages) <= p /\ p <= job.page
      BY <1>0, <1>1, <1>3, <1>4
    <3>2. k < job.db + 1
      BY <2>3, <2>4, <3>1
    <3> QED BY <1>0, <3>1, <3>2 DEF Before
  <2> QED BY <2>3, <2>4 DEF w
<1>5. CASE later = {} /\ ~ (job.db < Len(Databases))
  <2>1. w = [job EXCEPT !.page = Min(Pages), !.db = 1, !.at = then]
    BY <1>5 DEF Walk
  <2>2. w \in JobRecord /\ w.at = then /\ w.db = 1 /\ w.page = Min(Pages)
    BY <1>0, <1>1, <2>1 DEF JobRecord
  <2>3. job.db = Len(Databases)
    BY <1>0, <1>5
  <2>4. Max(Pages) = job.page
    <3>1. \A p \in Pages : job.page >= p
      BY <1>0, <1>3, <1>5
    <3>2. Max(Pages) \in Pages /\ \A p \in Pages : Max(Pages) >= p
      BY <1>0, <3>1 DEF Max
    <3>3. Max(Pages) \in Nat /\ job.page \in Nat /\ Max(Pages) >= job.page /\ job.page >= Max(Pages)
      BY <1>0, <3>1, <3>2
    <3> QED BY <3>3
  <2> HIDE DEF later, w
  <2>5. ASSUME NEW k \in 1..Len(Databases), NEW p \in Pages
        PROVE  /\ Before(k, p) \/ (k = job.db /\ p = job.page)
               /\ ~ (k < w.db \/ (k = w.db /\ p < w.page))
    <3>1. p \in Nat /\ job.page \in Nat /\ p <= job.page /\ Min(Pages) \in Nat /\ Min(Pages) <= p
      BY <1>0, <1>1, <1>3, <1>5
    <3> QED BY <1>0, <2>2, <2>3, <3>1 DEF Before
  <2> QED BY <2>2, <2>3, <2>4, <2>5 DEF Ends, w
<1> QED BY <1>2, <1>4, <1>5

LEMMA CopyKeeps ==
    ASSUME BkInv, CopyPage
    PROVE  BkInv'
<1> DEFINE d == Databases[job.db]
           q == job.page
<1>0. /\ BkType /\ job.at = "copy" /\ restored = {} /\ d \in Dbs /\ q \in Pages /\ PagesGrow
      /\ \A e \in Dbs : Content(e) \in committed[e]
  BY TheDatabases DEF BkInv, BkType, CopyPage
<1>1. /\ copy' = [copy EXCEPT ![d][q] = file[d][q]] /\ job' = Walk("verify")
      /\ IF Ends THEN moment' = file /\ atRest' = {e \in Dbs : DOMAIN log[e] = {}} ELSE UNCHANGED <<moment, atRest>>
      /\ UNCHANGED <<file, log, committed, restored, user, commits>>
  BY DEF CopyPage, dbState
<1> HIDE DEF d, q
<1>2. /\ copy' \in [Dbs -> [Pages -> Nat]]
      /\ \A e \in Dbs, p \in Pages : copy'[e][p] = IF e = d /\ p = q THEN file[d][q] ELSE copy[e][p]
  <2> DEFINE c == [copy[d] EXCEPT ![q] = file[d][q]]
  <2>1. copy' = [copy EXCEPT ![d] = c] /\ copy \in [Dbs -> [Pages -> Nat]] /\ file[d][q] \in Nat
    BY <1>0, <1>1 DEF BkType
  <2>2. c \in [Pages -> Nat] /\ \A p \in Pages : c[p] = IF p = q THEN file[d][q] ELSE copy[d][p]
    BY <1>0, <2>1
  <2> HIDE DEF c
  <2>3. copy' \in [Dbs -> [Pages -> Nat]] /\ \A e \in Dbs : copy'[e] = IF e = d THEN c ELSE copy[e]
    BY <1>0, <2>1, <2>2
  <2> QED BY <2>2, <2>3
<1>3. ASSUME NEW e \in Dbs, NEW p \in Pages PROVE copy'[e][p] <= file[e][p]
  <2>1. copy[e][p] \in Nat /\ file[e][p] \in Nat /\ copy[e][p] <= file[e][p]
    BY <1>0 DEF BkType, PagesGrow
  <2>2. copy'[e][p] = file[e][p] \/ copy'[e][p] = copy[e][p]
    BY <1>2
  <2> QED BY <2>1, <2>2
<1>4. /\ job' \in JobRecord /\ job'.at \in {"copy", "verify"}
      /\ job'.at = "verify" => /\ Ends
                               /\ \A k \in 1..Len(Databases), p \in Pages :
                                      ~ (k < job'.db \/ (k = job'.db /\ p < job'.page))
  BY <1>0, <1>1, WalkGoesOn
<1>5. BkType'
  <2>1. moment' \in [Dbs -> [Pages -> Nat]] /\ atRest' \subseteq Dbs
    BY <1>0, <1>1 DEF BkType
  <2> QED BY <1>0, <1>1, <1>2, <1>4, <2>1 DEF BkType, JobRecord
<1>6. PagesGrow'
  BY <1>0, <1>1, <1>3 DEF PagesGrow
<1>7. \A e \in Dbs : Content(e)' \in committed'[e]
  BY <1>0, <1>1 DEF Content
<1>8. ASSUME NEW e \in atRest' PROVE moment'[e] \in committed'[e]
  <2>1. CASE Ends
    <3>1. e \in Dbs /\ DOMAIN log[e] = {} /\ moment'[e] = file[e]
      BY <1>1, <1>8, <2>1
    <3>2. Over(log[e], file[e]) = file[e]
      <4>1. log[e] \in Logs /\ file[e] \in [Pages -> Nat]
        BY <1>0, <3>1 DEF BkType
      <4>2. Over(log[e], file[e]) \in [Pages -> Nat] /\ \A p \in Pages : Over(log[e], file[e])[p] = file[e][p]
        BY <3>1, <4>1, OverIs
      <4> QED BY <4>1, <4>2
    <3> QED BY <1>0, <1>1, <3>1, <3>2 DEF Content
  <2>2. CASE ~Ends
    BY <1>1, <1>8, <2>2 DEF BkInv
  <2> QED BY <2>1, <2>2
<1>9. ASSUME job'.at = "verify" PROVE SoFarTheSame'
  <2>1. moment' = file /\ file' = file
    BY <1>1, <1>4, <1>9
  <2>2. \A e \in Dbs, p \in Pages : copy'[e][p] <= moment'[e][p] /\ moment'[e][p] <= file'[e][p]
    <3>1. \A e \in Dbs, p \in Pages : file[e][p] \in Nat
      BY <1>0 DEF BkType
    <3>2. \A e \in Dbs, p \in Pages : file[e][p] <= file[e][p]
      BY <3>1
    <3> QED BY <1>3, <2>1, <3>2
  <2>3. \A k \in 1..Len(Databases), p \in Pages : ~ Before(k, p)'
    BY <1>4, <1>9 DEF Before
  <2> QED BY <2>2, <2>3 DEF SoFarTheSame
<1> QED BY <1>0, <1>1, <1>4, <1>5, <1>6, <1>7, <1>8, <1>9 DEF BkInv

LEMMA VerifyKeeps ==
    ASSUME BkInv, VerifyPage
    PROVE  BkInv'
<1> DEFINE d == Databases[job.db]
<1>0. /\ BkType /\ job.at = "verify" /\ restored = {} /\ SoFarTheSame /\ d \in Dbs /\ job.page \in Pages
      /\ UNCHANGED <<file, log, committed, copy, restored, moment, atRest, user, commits>>
  BY TheDatabases DEF BkInv, BkType, VerifyPage, dbState
<1>1. \/ job' = [job EXCEPT !.at = "failed"]
      \/ job' = Walk("verified") /\ copy[d][job.page] = file[d][job.page]
  BY DEF VerifyPage, Same
<1>2. job' \in JobRecord
  BY <1>0, <1>1, WalkGoesOn DEF BkType, JobRecord
<1>3. BkType'
  BY <1>0, <1>2 DEF BkType, JobRecord
<1>4. PagesGrow' /\ \A e \in Dbs : Content(e)' \in committed'[e]
  BY <1>0 DEF BkInv, PagesGrow, Content
<1>5. CASE job' = [job EXCEPT !.at = "failed"]
  <2>1. job'.at = "failed"
    BY <1>0, <1>5 DEF BkType
  <2> QED BY <1>0, <1>3, <1>4, <2>1 DEF BkInv
<1>6. CASE job' = Walk("verified") /\ copy[d][job.page] = file[d][job.page]
  <2>1. copy[d][job.page] = moment[d][job.page]
    <3>1. copy[d][job.page] \in Nat /\ moment[d][job.page] \in Nat
      BY <1>0 DEF BkType
    <3>2. copy[d][job.page] <= moment[d][job.page] /\ moment[d][job.page] <= copy[d][job.page]
      BY <1>0, <1>6 DEF SoFarTheSame
    <3> QED BY <3>1, <3>2
  <2>2. \A k \in 1..Len(Databases), p \in Pages :
            Before(k, p) \/ (k = job.db /\ p = job.page) => copy[Databases[k]][p] = moment[Databases[k]][p]
    BY <1>0, <2>1 DEF SoFarTheSame
  <2>3. CASE job'.at = "verify"
    <3>1. \A k \in 1..Len(Databases), p \in Pages :
              k < job'.db \/ (k = job'.db /\ p < job'.page) => Before(k, p) \/ (k = job.db /\ p = job.page)
      BY <1>0, <1>6, <2>3, WalkGoesOn
    <3>2. SoFarTheSame'
      BY <1>0, <2>2, <3>1 DEF SoFarTheSame, Before
    <3> QED BY <1>0, <1>3, <1>4, <2>3, <3>2 DEF BkInv
  <2>4. CASE job'.at # "verify"
    <3>1. job'.at = "verified" /\ \A k \in 1..Len(Databases), p \in Pages : Before(k, p) \/ (k = job.db /\ p = job.page)
      BY <1>0, <1>6, <2>4, WalkGoesOn
    <3>2. \A e \in Dbs, p \in Pages : copy[e][p] = moment[e][p]
      BY <2>2, <3>1, TheDatabases
    <3>3. copy = moment
      <4>1. \A e \in Dbs : copy[e] = moment[e]
        BY <1>0, <3>2 DEF BkType
      <4> QED BY <1>0, <4>1 DEF BkType
    <3> QED BY <1>0, <1>3, <1>4, <3>1, <3>3 DEF BkInv
  <2> QED BY <2>3, <2>4
<1> QED BY <1>1, <1>5, <1>6

LEMMA JobKeeps ==
    ASSUME BkInv, StartBackup \/ JobDies \/ NextWeek
    PROVE  BkInv'
<1>0. /\ BkType /\ UNCHANGED <<file, log, committed, copy, restored, moment, atRest, user, commits>>
  BY DEF BkInv, StartBackup, JobDies, NextWeek, dbState
<1>1. NoJob \in JobRecord /\ NoJob.at = "idle"
  <2>1. Min(Pages) \in Pages
    BY MinIs, BackupConstants
  <2>2. NoJob.at = "idle"
    BY DEF NoJob
  <2> QED BY <2>1, <2>2, TheDatabases, Zenon DEF NoJob, JobRecord
<1>2. /\ job' \in JobRecord /\ job'.at \in {"idle", "copy", "dead"}
      /\ restored # {} => job'.at = "idle"
  BY <1>0, <1>1 DEF StartBackup, JobDies, NextWeek, BkInv, BkType, JobRecord
<1>3. BkType'
  BY <1>0, <1>2 DEF BkType, JobRecord
<1> QED BY <1>0, <1>2, <1>3 DEF BkInv, PagesGrow, Content

LEMMA RestoreKeeps ==
    ASSUME BkInv, Restore
    PROVE  BkInv'
<1> DEFINE d == Databases[Cardinality(restored) + 1]
<1>0. /\ BkType /\ job.at = "verified" /\ copy = moment
      /\ file' = [file EXCEPT ![d] = copy[d]] /\ restored' = restored \cup {d}
      /\ UNCHANGED <<log, committed, job, copy, moment, atRest, user, commits>>
      /\ Cardinality(restored) < Len(Databases)
  BY DEF BkInv, Restore
<1>1. d \in Dbs
  <2>1. IsFiniteSet(restored)
    <3>1. IsFiniteSet(1..Len(Databases))
      BY FS_Interval, TheDatabases
    <3>2. Dbs = {Databases[i] : i \in 1..Len(Databases)}
      BY BackupConstants DEF Dbs, Range
    <3>3. IsFiniteSet(Dbs)
      <4> DEFINE f == [i \in 1..Len(Databases) |-> Databases[i]]
      <4>1. f \in Surjection(1..Len(Databases), Dbs)
        BY <3>2 DEF Surjection
      <4> QED BY <3>1, <4>1, FS_Surjection
    <3> QED BY <1>0, <3>3, FS_Subset DEF BkType
  <2>2. Cardinality(restored) \in Nat
    BY <2>1, FS_CardinalityType
  <2>3. Cardinality(restored) + 1 \in 1..Len(Databases)
    BY <1>0, <2>2, TheDatabases
  <2> QED BY <2>3, TheDatabases
<1> HIDE DEF d
<1>2. file' \in [Dbs -> [Pages -> Nat]] /\ \A e \in Dbs : file'[e] = IF e = d THEN copy[e] ELSE file[e]
  BY <1>0, <1>1 DEF BkType
<1>3. BkType'
  BY <1>0, <1>1, <1>2 DEF BkType
<1>4. \A e \in restored' : file'[e] = copy'[e]
  <2>1. restored \subseteq Dbs
    BY <1>0 DEF BkType
  <2> QED BY <1>0, <1>1, <1>2, <2>1 DEF BkInv
<1>5. restored' # {}
  BY <1>0
<1> QED BY <1>0, <1>3, <1>4, <1>5 DEF BkInv

----------------------------------------------------------------------------
\* BkInv is inductive.
LEMMA BkNext == BkInv /\ [BackupNext]_backupVars => BkInv'
<1> SUFFICES ASSUME BkInv, [BackupNext]_backupVars
             PROVE  BkInv'
  OBVIOUS
<1>1. CASE restored = {} /\ UserStep
  BY <1>1, OpenCloseKeep, CommitKeeps, CheckpointKeeps DEF UserStep
<1>2. CASE UNCHANGED backupVars
  BY <1>2 DEF backupVars, dbState, jobState, BkInv, BkType, PagesGrow, Content, SoFarTheSame, Before
<1> QED BY <1>1, <1>2, CopyKeeps, VerifyKeeps, JobKeeps, RestoreKeeps DEF BackupNext

\* What a backup that verified holds is the files side by side at one moment, whatever
\* opened, committed, checkpointed and died in between, for any databases and pages.
THEOREM VerifiedBackup == BackupSpec => []VerifiedIsOneMoment
<1>1. ASSUME BkInv PROVE VerifiedIsOneMoment
  <2> SUFFICES ASSUME Verified
               PROVE  /\ copy = moment
                      /\ \A d \in atRest : copy[d] \in committed[d]
                      /\ restored = Dbs => \A d \in Dbs : Content(d) = moment[d] \/ DOMAIN log[d] # {}
    BY DEF VerifiedIsOneMoment
  <2>1. copy = moment /\ \A d \in atRest : copy[d] \in committed[d]
    BY <1>1 DEF BkInv, Verified
  <2>2. ASSUME restored = Dbs, NEW d \in Dbs, DOMAIN log[d] = {} PROVE Content(d) = moment[d]
    <3>1. log[d] \in Logs /\ file[d] \in [Pages -> Nat] /\ file[d] = moment[d]
      BY <1>1, <2>1, <2>2 DEF BkInv, BkType
    <3>2. /\ Over(log[d], file[d]) \in [Pages -> Nat]
          /\ \A p \in Pages : Over(log[d], file[d])[p] = file[d][p]
      BY <2>2, <3>1, OverIs
    <3> QED BY <3>1, <3>2 DEF Content
  <2> QED BY <2>1, <2>2
<1> QED BY <1>1, BkInit, BkNext, PTL DEF BackupSpec
=============================================================================
