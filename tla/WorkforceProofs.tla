--------------------------- MODULE WorkforceProofs ---------------------------
(***************************************************************************)
(* Theorems about Workforce.tla, for any roster, any dependency graphs,    *)
(* any cap, retries and costs, pauses and crashes at any step.             *)
(*                                                                         *)
(* WfInv adds to the two safety properties what a run under way has in     *)
(* hand: the notes it has written and not yet reported, and the licence    *)
(* its first try got, which its retries go on using.                       *)
(* ChainInv is about a desk and its own upstreams; that the order of a     *)
(* graph is one (OrderIsLine) and what follows for all ancestors are       *)
(* inductions, by the least number where a claim fails.                    *)
(***************************************************************************)
EXTENDS Workforce, NumberLemmas

Cycles == {"idle", "all", "dag", "supervised", "evidence"}
Ended == {"none", "ok", "empty", "error", "paused", "skipped"}

DeskType ==
    /\ audit \in [Ids -> [last : Ended, n : Nat]] /\ notes \in [Ids -> Nat]
    /\ mode \in Cycles /\ busy \in BOOLEAN /\ wrote \in Nat /\ tries \in Nat
    /\ result \in [Ids -> Ended]
    /\ spent \in Nat /\ burned \in Nat /\ failures \in Nat
    /\ still \subseteq paused /\ paused \subseteq Desks

\* A run has written what it has not yet reported; between runs there is no such note.
NotesInv ==
    /\ ~busy => wrote = 0
    /\ \A d \in Ids : audit[d].n + (IF busy /\ Desk = d THEN wrote ELSE 0) <= notes[d]

\* A supervised desk that runs, or is to be tried again, was let in under the cap and
\* out of quarantine; only a supervisor tries again.
LicenceInv ==
    /\ mode = "supervised" /\ (busy \/ tries > 0) => spent < Cap /\ Desk \notin quarantined
    /\ mode # "supervised" => tries = 0
    /\ mode = "idle" => ~busy

WfInv == DeskType /\ NotesInv /\ LicenceInv /\ CostIsCapped /\ PauseHolds

----------------------------------------------------------------------------
LEMMA WfInvInit == Init => WfInv
<1> SUFFICES ASSUME Init PROVE WfInv
  OBVIOUS
<1>1. DeskType
  BY DEF Init, DeskType, Cycles, Ended
<1>2. NotesInv /\ LicenceInv /\ PauseHolds
  BY DEF Init, NotesInv, LicenceInv, PauseHolds
<1>3. CostIsCapped
  <2>1. MaxCost * 0 = 0 /\ Cap \in Nat
    BY WorkforceConstants
  <2> QED BY <2>1 DEF Init, CostIsCapped
<1> QED BY <1>1, <1>2, <1>3 DEF WfInv

\* A cycle begins with new meters.
LEMMA WfInvBegin ==
    ASSUME WfInv, NEW m \in Cycles \ {"idle"}, NEW g, NEW order, Begin(m, g, order)
    PROVE  WfInv'
<1>1. /\ mode = "idle" /\ mode' = m /\ ~busy /\ wrote = 0 /\ tries = 0
      /\ UNCHANGED <<paused, audit, notes, busy, wrote, tries>>
      /\ result' = [d \in Ids |-> "none"] /\ still' = paused
      /\ spent' = 0 /\ burned' = 0 /\ failures' = 0
  BY DEF Begin, WfInv, NotesInv, LicenceInv
<1>2. DeskType'
  BY <1>1 DEF WfInv, DeskType, Ended
<1>3. NotesInv'
  BY <1>1 DEF WfInv, NotesInv
<1>4. LicenceInv'
  BY <1>1 DEF LicenceInv
<1>5. CostIsCapped'
  <2>1. MaxCost * 0 = 0 /\ Cap \in Nat
    BY WorkforceConstants
  <2> QED BY <1>1, <2>1 DEF CostIsCapped
<1>6. PauseHolds'
  <2>1. \A d \in still' : result'[d] = "none"
    BY <1>1, WorkforceConstants DEF WfInv, DeskType, Ids
  <2> QED BY <1>1, <2>1 DEF PauseHolds
<1> QED BY <1>2, <1>3, <1>4, <1>5, <1>6 DEF WfInv


\* What every way out of the current desk has in common.
LEMMA AdvanceDoes ==
    ASSUME WfInv, Advance
    PROVE  /\ tries' = 0 /\ tries' \in Nat /\ busy' = FALSE /\ wrote' = 0
           /\ mode' \in Cycles /\ mode' \in {"idle", mode}
BY DEF Advance, WfInv, DeskType, Cycles

\* The audit row of the current desk grows by what the run reports, at most what it wrote.
LEMMA RecordKeeps ==
    ASSUME WfInv, NEW s \in Ended, NEW n \in Nat, Record(s, n),
           n = 0 \/ (busy /\ n <= wrote),
           notes' = notes, ~busy', wrote' = 0
    PROVE  NotesInv' /\ audit' \in [Ids -> [last : Ended, n : Nat]]
<1>1. audit \in [Ids -> [last : Ended, n : Nat]] /\ notes \in [Ids -> Nat] /\ wrote \in Nat
  BY DEF WfInv, DeskType
<1>2. ASSUME NEW d \in Ids
      PROVE  audit'[d] \in [last : Ended, n : Nat] /\ audit'[d].n <= notes[d]
  <2>1. audit[d] \in [last : Ended, n : Nat] /\ audit[d].n \in Nat /\ notes[d] \in Nat
    BY <1>1
  <2>2. audit[d].n + (IF busy /\ Desk = d THEN wrote ELSE 0) <= notes[d]
    BY DEF WfInv, NotesInv
  <2>3. audit[d].n <= notes[d]
    BY <1>1, <2>1, <2>2
  <2>4. CASE d = Desk
    <3>1. audit'[d] = [last |-> s, n |-> audit[d].n + n]
      BY <1>1, <2>4 DEF Record
    <3>2. audit[d].n + n <= notes[d]
      BY <1>1, <2>1, <2>2, <2>3, <2>4
    <3> QED BY <2>1, <3>1, <3>2
  <2>5. CASE d # Desk
    <3>1. audit'[d] = audit[d]
      BY <1>1, <2>5 DEF Record
    <3> QED BY <2>1, <2>3, <3>1
  <2> QED BY <2>4, <2>5
<1>3. audit' \in [Ids -> [last : Ended, n : Nat]]
  <2>1. audit' = [audit EXCEPT ![Desk] = [last |-> s, n |-> @.n + n]]
    BY DEF Record
  <2>2. DOMAIN audit' = Ids /\ audit' = [d \in Ids |-> audit'[d]]
    BY <1>1, <2>1
  <2> QED BY <1>2, <2>2
<1>4. \A d \in Ids : audit'[d].n + (IF busy' /\ Desk' = d THEN wrote' ELSE 0) <= notes'[d]
  <2> TAKE d \in Ids
  <2>1. audit'[d].n \in Nat /\ audit'[d].n <= notes[d]
    BY <1>2
  <2> QED BY <2>1
<1> QED BY <1>3, <1>4 DEF NotesInv

\* The same when the run leaves no audit row.
LEMMA NoRecordKeeps ==
    ASSUME WfInv, audit' = audit, notes' = notes, ~busy', wrote' = 0
    PROVE  NotesInv' /\ audit' \in [Ids -> [last : Ended, n : Nat]]
<1>1. audit \in [Ids -> [last : Ended, n : Nat]] /\ notes \in [Ids -> Nat] /\ wrote \in Nat
  BY DEF WfInv, DeskType
<1>2. \A d \in Ids : audit'[d].n + (IF busy' /\ Desk' = d THEN wrote' ELSE 0) <= notes'[d]
  <2> TAKE d \in Ids
  <2>1. audit[d] \in [last : Ended, n : Nat] /\ audit[d].n \in Nat /\ notes[d] \in Nat
    BY <1>1
  <2>2. audit[d].n + (IF busy /\ Desk = d THEN wrote ELSE 0) <= notes[d]
    BY DEF WfInv, NotesInv
  <2> QED BY <1>1, <2>1, <2>2
<1> QED BY <1>1, <1>2 DEF NotesInv

\* The result of the current desk, and of no other, is set.
LEMMA EndsDoes ==
    ASSUME WfInv, NEW s \in Ended, Ends(s)
    PROVE  /\ result' \in [Ids -> Ended]
           /\ \A d \in Ids : result'[d] = IF d = Desk THEN s ELSE result[d]
<1>1. result \in [Ids -> Ended]
  BY DEF WfInv, DeskType
<1>2. \A d \in Ids : result'[d] = IF d = Desk THEN s ELSE result[d]
  BY <1>1 DEF Ends
<1> QED BY <1>1, <1>2 DEF Ends

\* A desk that ends other than by a run, or that nobody keeps paused, keeps the pause.
LEMMA PauseKept ==
    ASSUME WfInv, NEW s \in Ended, Ends(s), ~busy', still' = still, mode' \in {"idle", mode},
           mode \in {"all", "dag", "supervised"} =>
               s \in {"none", "paused", "skipped"} \/ Desk \notin still
    PROVE  PauseHolds'
<1>1. \A d \in Ids : result'[d] = IF d = Desk THEN s ELSE result[d]
  BY EndsDoes
<1>2. still \subseteq Ids
  BY WorkforceConstants DEF WfInv, DeskType, Ids
<1> QED BY <1>1, <1>2 DEF PauseHolds, WfInv

----------------------------------------------------------------------------
LEMMA WfInvStopOnCost == WfInv /\ StopOnCost => WfInv'
<1> SUFFICES ASSUME WfInv, StopOnCost PROVE WfInv'
  OBVIOUS
<1>1. /\ mode' = "idle" /\ ~busy /\ wrote = 0
      /\ UNCHANGED <<paused, audit, notes, deps, busy, wrote, tries, result, spent, burned, failures,
                     quarantined, cycles, turns, still>>
  BY DEF StopOnCost, WfInv, NotesInv
<1>2. DeskType'
  BY <1>1 DEF WfInv, DeskType, Cycles
<1>3. NotesInv'
  BY <1>1, NoRecordKeeps
<1>4. LicenceInv'
  <2>1. tries = 0
    BY DEF StopOnCost, OverBudget, WfInv, LicenceInv
  <2> QED BY <1>1, <2>1 DEF LicenceInv
<1>5. CostIsCapped'
  BY <1>1 DEF WfInv, CostIsCapped
<1>6. PauseHolds'
  BY <1>1 DEF PauseHolds
<1> QED BY <1>2, <1>3, <1>4, <1>5, <1>6 DEF WfInv

LEMMA WfInvPassQuarantined == WfInv /\ PassQuarantined => WfInv'
<1> SUFFICES ASSUME WfInv, PassQuarantined PROVE WfInv'
  OBVIOUS
<1>1. /\ Advance /\ ~busy
      /\ UNCHANGED <<paused, audit, notes, deps, result, spent, burned, failures, quarantined,
                     cycles, turns, still>>
  BY DEF PassQuarantined
<1>2. /\ tries' = 0 /\ tries' \in Nat /\ busy' = FALSE /\ wrote' = 0
      /\ mode' \in Cycles /\ mode' \in {"idle", mode}
  BY <1>1, AdvanceDoes
<1>3. NotesInv'
  BY <1>1, <1>2, NoRecordKeeps
<1>4. DeskType'
  BY <1>1, <1>2 DEF WfInv, DeskType
<1>5. LicenceInv'
  BY <1>2 DEF LicenceInv
<1>6. CostIsCapped'
  BY <1>1, <1>2 DEF WfInv, CostIsCapped
<1>7. PauseHolds'
  BY <1>1, <1>2 DEF WfInv, PauseHolds
<1> QED BY <1>3, <1>4, <1>5, <1>6, <1>7 DEF WfInv

LEMMA WfInvSkip == WfInv /\ Skip => WfInv'
<1> SUFFICES ASSUME WfInv, Skip PROVE WfInv'
  OBVIOUS
<1>1. /\ Record("skipped", 0) /\ Ends("skipped") /\ Advance /\ ~busy
      /\ UNCHANGED <<paused, notes, deps, spent, burned, failures, quarantined, cycles, turns, still>>
  BY DEF Skip
<1>2. /\ tries' = 0 /\ tries' \in Nat /\ busy' = FALSE /\ wrote' = 0
      /\ mode' \in Cycles /\ mode' \in {"idle", mode}
  BY <1>1, AdvanceDoes
<1>3. "skipped" \in Ended
  BY DEF Ended
<1>4. NotesInv' /\ audit' \in [Ids -> [last : Ended, n : Nat]]
  BY <1>1, <1>2, <1>3, RecordKeeps
<1>5. result' \in [Ids -> Ended] /\ PauseHolds'
  BY <1>1, <1>2, <1>3, EndsDoes, PauseKept
<1>6. DeskType'
  BY <1>1, <1>2, <1>4, <1>5 DEF WfInv, DeskType
<1>7. LicenceInv'
  BY <1>2 DEF LicenceInv
<1>8. CostIsCapped'
  BY <1>1, <1>2 DEF WfInv, CostIsCapped
<1> QED BY <1>4, <1>5, <1>6, <1>7, <1>8 DEF WfInv

LEMMA WfInvRunUnknown == WfInv /\ RunUnknown => WfInv'
<1> SUFFICES ASSUME WfInv, RunUnknown PROVE WfInv'
  OBVIOUS
<1>1. /\ Desk \notin Desks /\ Ends("error") /\ Advance /\ ~busy
      /\ UNCHANGED <<paused, audit, notes, deps, spent, burned, failures, quarantined, cycles, turns, still>>
  BY DEF RunUnknown, MayRun
<1>2. /\ tries' = 0 /\ tries' \in Nat /\ busy' = FALSE /\ wrote' = 0
      /\ mode' \in Cycles /\ mode' \in {"idle", mode}
  BY <1>1, AdvanceDoes
<1>3. "error" \in Ended /\ Desk \notin still
  BY <1>1 DEF Ended, WfInv, DeskType
<1>4. NotesInv' /\ audit' \in [Ids -> [last : Ended, n : Nat]]
  BY <1>1, <1>2, NoRecordKeeps
<1>5. result' \in [Ids -> Ended] /\ PauseHolds'
  BY <1>1, <1>2, <1>3, EndsDoes, PauseKept
<1>6. DeskType'
  BY <1>1, <1>2, <1>4, <1>5 DEF WfInv, DeskType
<1>7. LicenceInv'
  BY <1>2 DEF LicenceInv
<1>8. CostIsCapped'
  BY <1>1, <1>2 DEF WfInv, CostIsCapped
<1> QED BY <1>4, <1>5, <1>6, <1>7, <1>8 DEF WfInv

LEMMA WfInvRunPaused == WfInv /\ RunPaused => WfInv'
<1> SUFFICES ASSUME WfInv, RunPaused PROVE WfInv'
  OBVIOUS
<1>1. /\ Record("paused", 0) /\ Ends("paused") /\ Advance /\ ~busy
      /\ UNCHANGED <<paused, notes, deps, spent, burned, failures, quarantined, cycles, turns, still>>
  BY DEF RunPaused, MayRun
<1>2. /\ tries' = 0 /\ tries' \in Nat /\ busy' = FALSE /\ wrote' = 0
      /\ mode' \in Cycles /\ mode' \in {"idle", mode}
  BY <1>1, AdvanceDoes
<1>3. "paused" \in Ended
  BY DEF Ended
<1>4. NotesInv' /\ audit' \in [Ids -> [last : Ended, n : Nat]]
  BY <1>1, <1>2, <1>3, RecordKeeps
<1>5. result' \in [Ids -> Ended] /\ PauseHolds'
  BY <1>1, <1>2, <1>3, EndsDoes, PauseKept
<1>6. DeskType'
  BY <1>1, <1>2, <1>4, <1>5 DEF WfInv, DeskType
<1>7. LicenceInv'
  BY <1>2 DEF LicenceInv
<1>8. CostIsCapped'
  BY <1>1, <1>2 DEF WfInv, CostIsCapped
<1> QED BY <1>4, <1>5, <1>6, <1>7, <1>8 DEF WfInv

----------------------------------------------------------------------------
\* A desk starts: the supervisor looked at the cap and the quarantine when it was first
\* tried, and neither can change against it before it ends.
LEMMA WfInvStartDesk == WfInv /\ StartDesk => WfInv'
<1> SUFFICES ASSUME WfInv, StartDesk PROVE WfInv'
  OBVIOUS
<1>1. /\ mode # "idle" /\ ~busy /\ ~Quarantined /\ ~OverBudget /\ ~Held /\ Desk \in Desks
      /\ busy' = TRUE /\ spent' = IF mode = "evidence" THEN spent + 1 ELSE spent
      /\ UNCHANGED <<paused, audit, notes, mode, deps, todo, wrote, tries, result, burned, failures,
                     quarantined, cycles, turns, still>>
  BY DEF StartDesk, MayRun, Running
<1>2. Desk' = Desk
  BY <1>1 DEF Desk
<1>3. wrote = 0 /\ spent \in Nat /\ tries \in Nat /\ Cap \in Nat /\ MaxCost \in Nat
      /\ burned \in Nat /\ failures \in Nat
  BY <1>1, WorkforceConstants DEF WfInv, DeskType, NotesInv
<1>4. DeskType'
  BY <1>1, <1>3 DEF WfInv, DeskType
<1>5. NotesInv'
  <2>1. ASSUME NEW d \in Ids
        PROVE  audit'[d].n + (IF busy' /\ Desk' = d THEN wrote' ELSE 0) <= notes'[d]
    <3>1. audit[d].n + 0 <= notes[d]
      BY <1>1 DEF WfInv, NotesInv
    <3> QED BY <1>1, <1>3, <3>1
  <2> QED BY <1>1, <1>3, <2>1 DEF NotesInv
<1>6. LicenceInv'
  <2>1. mode = "supervised" => spent < Cap /\ Desk \notin quarantined
    <3>1. CASE tries = 0
      BY <1>1, <1>3, <3>1 DEF OverBudget, Quarantined
    <3>2. CASE tries > 0
      BY <3>2 DEF WfInv, LicenceInv
    <3> QED BY <1>3, <3>1, <3>2
  <2>2. mode = "supervised" => spent' = spent
    BY <1>1
  <2>3. mode # "supervised" => tries = 0
    BY DEF WfInv, LicenceInv
  <2> QED BY <1>1, <1>2, <2>1, <2>2, <2>3 DEF LicenceInv
<1>7. CostIsCapped'
  <2>1. /\ spent <= Cap \/ spent < Cap + MaxCost
        /\ mode = "evidence" => spent <= Cap
        /\ burned <= spent + MaxCost * failures
    BY DEF WfInv, CostIsCapped
  <2>2. MaxCost * failures \in Nat
    BY <1>3
  <2>3. CASE mode = "evidence"
    <3>1. spent' = spent + 1 /\ spent' <= Cap
      BY <1>1, <1>3, <2>3 DEF OverBudget
    <3>2. burned <= spent' + MaxCost * failures
      <4> HIDE DEF CostIsCapped
      <4> QED BY <1>3, <2>1, <2>2, <3>1
    <3> QED BY <1>1, <3>1, <3>2 DEF CostIsCapped
  <2>4. CASE mode # "evidence"
    BY <1>1, <2>1, <2>4 DEF CostIsCapped
  <2> QED BY <2>3, <2>4
<1>8. PauseHolds'
  <2>1. mode \in {"all", "dag", "supervised"} => Desk \notin still
    BY <1>1 DEF Held, WfInv, DeskType
  <2> QED BY <1>1, <1>2, <2>1 DEF WfInv, PauseHolds
<1> QED BY <1>4, <1>5, <1>6, <1>7, <1>8 DEF WfInv

\* A note is on record before the run that wrote it reports it.
LEMMA WfInvWriteNote == WfInv /\ WriteNote => WfInv'
<1> SUFFICES ASSUME WfInv, WriteNote PROVE WfInv'
  OBVIOUS
<1>1. /\ busy /\ wrote' = wrote + 1 /\ notes' = [notes EXCEPT ![Desk] = @ + 1]
      /\ UNCHANGED <<paused, audit, mode, deps, todo, busy, tries, result, spent, burned, failures,
                     quarantined, cycles, turns, still>>
  BY DEF WriteNote
<1>2. Desk' = Desk
  BY <1>1 DEF Desk
<1>3. audit \in [Ids -> [last : Ended, n : Nat]] /\ notes \in [Ids -> Nat] /\ wrote \in Nat
  BY DEF WfInv, DeskType
<1>4. notes' \in [Ids -> Nat] /\ wrote' \in Nat
  <2>1. ASSUME NEW d \in Ids PROVE notes'[d] \in Nat
    <3>1. notes[d] \in Nat /\ notes'[d] = IF d = Desk THEN notes[d] + 1 ELSE notes[d]
      BY <1>1, <1>3
    <3> QED BY <3>1
  <2>2. notes' = [d \in Ids |-> notes'[d]]
    BY <1>1, <1>3
  <2>3. notes' \in [Ids -> Nat]
    BY <2>1, <2>2
  <2> QED BY <1>1, <1>3, <2>3
<1>5. DeskType'
  BY <1>1, <1>4 DEF WfInv, DeskType
<1>6. NotesInv'
  <2>1. ASSUME NEW d \in Ids
        PROVE  audit'[d].n + (IF busy' /\ Desk' = d THEN wrote' ELSE 0) <= notes'[d]
    <3>1. audit[d] \in [last : Ended, n : Nat] /\ audit[d].n \in Nat /\ notes[d] \in Nat
      BY <1>3
    <3>2. audit[d].n + (IF Desk = d THEN wrote ELSE 0) <= notes[d]
      BY <1>1 DEF WfInv, NotesInv
    <3>3. CASE Desk = d
      <4>1. notes'[d] = notes[d] + 1
        BY <1>1, <1>3, <3>3
      <4> QED BY <1>1, <1>2, <1>3, <3>1, <3>2, <3>3, <4>1
    <3>4. CASE Desk # d
      <4>1. notes'[d] = notes[d]
        BY <1>1, <1>3, <3>4
      <4> QED BY <1>1, <1>2, <3>1, <3>2, <3>4, <4>1
    <3> QED BY <3>3, <3>4
  <2> QED BY <1>1, <2>1 DEF NotesInv
<1>7. LicenceInv' /\ CostIsCapped' /\ PauseHolds'
  BY <1>1, <1>2 DEF WfInv, LicenceInv, CostIsCapped, PauseHolds
<1> QED BY <1>5, <1>6, <1>7 DEF WfInv

\* What a run may end with.
LEMMA ReportsAreEnded == \A d : Reports(d) \subseteq Ended
BY DEF Reports, Ended

\* A run that was let in under the cap takes the meter past it by less than what it costs.
LEMMA WfInvFinish == WfInv /\ Finish => WfInv'
<1> SUFFICES ASSUME WfInv, Finish PROVE WfInv'
  OBVIOUS
<1>1. PICK c \in Costs, s \in Reports(Desk) :
          /\ Audited(s, wrote) /\ Ends(s)
          /\ burned' = burned + c /\ spent' = spent + c
  BY DEF Finish
<1>2. /\ busy /\ Advance
      /\ UNCHANGED <<paused, notes, deps, failures, quarantined, cycles, turns, still>>
  BY DEF Finish
<1>3. /\ tries' = 0 /\ tries' \in Nat /\ busy' = FALSE /\ wrote' = 0
      /\ mode' \in Cycles /\ mode' \in {"idle", mode}
  BY <1>2, AdvanceDoes
<1>4. s \in Ended
  BY ReportsAreEnded
<1>5. /\ spent \in Nat /\ Cap \in Nat /\ MaxCost \in Nat /\ burned \in Nat /\ failures \in Nat
      /\ wrote \in Nat
  BY WorkforceConstants DEF WfInv, DeskType
<1>6. c \in Nat /\ c <= MaxCost /\ (mode # "supervised" => c = 0)
  BY <1>5 DEF Costs
<1>7. NotesInv' /\ audit' \in [Ids -> [last : Ended, n : Nat]]
  <2>1. CASE mode = "evidence"
    <3>1. audit' = audit
      BY <1>1, <2>1 DEF Audited
    <3> QED BY <1>2, <1>3, <3>1, NoRecordKeeps
  <2>2. CASE mode # "evidence"
    <3>1. Record(s, wrote)
      BY <1>1, <2>2 DEF Audited
    <3>2. wrote <= wrote
      BY <1>5
    <3> QED BY <1>2, <1>3, <1>4, <1>5, <3>1, <3>2, RecordKeeps
  <2> QED BY <2>1, <2>2
<1>8. result' \in [Ids -> Ended] /\ PauseHolds'
  <2>1. mode \in {"all", "dag", "supervised"} => Desk \notin still
    BY <1>2 DEF WfInv, PauseHolds
  <2> QED BY <1>1, <1>2, <1>3, <1>4, <2>1, EndsDoes, PauseKept
<1>9. DeskType'
  <2>1. spent' \in Nat /\ burned' \in Nat
    BY <1>1, <1>5, <1>6
  <2> QED BY <1>2, <1>3, <1>7, <1>8, <2>1 DEF WfInv, DeskType
<1>10. LicenceInv'
  BY <1>3 DEF LicenceInv
<1>11. CostIsCapped'
  <2>1. /\ spent <= Cap \/ spent < Cap + MaxCost
        /\ mode = "evidence" => spent <= Cap
        /\ burned <= spent + MaxCost * failures
        /\ mode = "supervised" => spent < Cap
    BY <1>2 DEF WfInv, CostIsCapped, LicenceInv
  <2>2. MaxCost * failures \in Nat
    BY <1>5
  <2>3. burned' <= spent' + MaxCost * failures
    BY <1>1, <1>5, <1>6, <2>1, <2>2
  <2>4. spent' <= Cap \/ spent' < Cap + MaxCost
    <3>1. CASE mode = "supervised"
      BY <1>1, <1>5, <1>6, <2>1, <3>1
    <3>2. CASE mode # "supervised"
      BY <1>1, <1>5, <1>6, <2>1, <3>2
    <3> QED BY <3>1, <3>2
  <2>5. mode' = "evidence" => spent' <= Cap
    BY <1>1, <1>3, <1>5, <1>6, <2>1
  <2> QED BY <1>2, <2>3, <2>4, <2>5 DEF CostIsCapped
<1> QED BY <1>7, <1>8, <1>9, <1>10, <1>11 DEF WfInv

\* What a run that raises leaves, whoever ran it.
LEMMA RaiseDoes ==
    ASSUME WfInv, Raise
    PROVE  /\ busy /\ busy' = FALSE /\ wrote' = 0
           /\ tries' \in Nat /\ mode' \in Cycles /\ mode' \in {"idle", mode}
           /\ mode = "evidence" => mode' = "idle"
           /\ \/ tries' = 0
              \/ /\ mode = "supervised" /\ mode' = mode /\ UNCHANGED <<todo, quarantined>>
BY DEF Raise, Advance, WfInv, DeskType, Cycles

\* A run that raises is charged nothing: what it burned is what the failures bound.
LEMMA WfInvRaise == WfInv /\ Raise => WfInv'
<1> SUFFICES ASSUME WfInv, Raise PROVE WfInv'
  OBVIOUS
<1>1. PICK c \in Costs : burned' = burned + c
  BY DEF Raise
<1>2. /\ Audited("error", 0) /\ Ends("error")
      /\ failures' = IF mode = "supervised" THEN failures + 1 ELSE failures
      /\ UNCHANGED <<paused, notes, deps, spent, cycles, turns, still>>
  BY DEF Raise
<1>3. /\ busy /\ busy' = FALSE /\ wrote' = 0
      /\ tries' \in Nat /\ mode' \in Cycles /\ mode' \in {"idle", mode}
      /\ mode = "evidence" => mode' = "idle"
      /\ \/ tries' = 0
         \/ /\ mode = "supervised" /\ mode' = mode /\ UNCHANGED <<todo, quarantined>>
  BY RaiseDoes
<1>4. "error" \in Ended
  BY DEF Ended
<1>5. /\ spent \in Nat /\ Cap \in Nat /\ MaxCost \in Nat /\ burned \in Nat /\ failures \in Nat
  BY WorkforceConstants DEF WfInv, DeskType
<1>6. c \in Nat /\ c <= MaxCost /\ (mode # "supervised" => c = 0)
  BY <1>5 DEF Costs
<1>7. NotesInv' /\ audit' \in [Ids -> [last : Ended, n : Nat]]
  <2>1. CASE mode = "evidence"
    <3>1. audit' = audit
      BY <1>2, <2>1 DEF Audited
    <3> QED BY <1>2, <1>3, <3>1, NoRecordKeeps
  <2>2. CASE mode # "evidence"
    <3>1. Record("error", 0)
      BY <1>2, <2>2 DEF Audited
    <3> QED BY <1>2, <1>3, <1>4, <3>1, RecordKeeps
  <2> QED BY <2>1, <2>2
<1>8. result' \in [Ids -> Ended] /\ PauseHolds'
  <2>1. mode \in {"all", "dag", "supervised"} => Desk \notin still
    BY <1>3 DEF WfInv, PauseHolds
  <2> QED BY <1>2, <1>3, <1>4, <2>1, EndsDoes, PauseKept
<1>9. DeskType'
  <2>1. burned' \in Nat /\ failures' \in Nat
    BY <1>1, <1>2, <1>5, <1>6
  <2> QED BY <1>2, <1>3, <1>7, <1>8, <2>1 DEF WfInv, DeskType
<1>10. LicenceInv'
  <2>1. CASE tries' = 0
    BY <1>3, <2>1 DEF LicenceInv
  <2>2. CASE mode = "supervised" /\ mode' = mode /\ UNCHANGED <<todo, quarantined>>
    <3>1. spent < Cap /\ Desk \notin quarantined
      BY <1>3, <2>2 DEF WfInv, LicenceInv
    <3>2. Desk' = Desk
      BY <2>2 DEF Desk
    <3> QED BY <1>2, <1>3, <2>2, <3>1, <3>2 DEF LicenceInv
  <2> QED BY <1>3, <2>1, <2>2
<1>11. CostIsCapped'
  <2>1. /\ spent <= Cap \/ spent < Cap + MaxCost
        /\ burned <= spent + MaxCost * failures
    BY DEF WfInv, CostIsCapped
  <2>2. burned' <= spent' + MaxCost * failures'
    <3>1. MaxCost * failures \in Nat
      BY <1>5
    <3>2. CASE mode = "supervised"
      <4>1. MaxCost * (failures + 1) = MaxCost * failures + MaxCost
        BY <1>5
      <4>2. failures' = failures + 1 /\ spent' = spent
        BY <1>2, <3>2
      <4>3. MaxCost * failures' = MaxCost * failures + MaxCost
        BY <4>1, <4>2
      <4> QED BY <1>1, <1>5, <1>6, <2>1, <3>1, <4>2, <4>3
    <3>3. CASE mode # "supervised"
      <4>1. failures' = failures /\ spent' = spent /\ c = 0
        BY <1>2, <1>6, <3>3
      <4> QED BY <1>1, <1>5, <2>1, <3>1, <4>1
    <3> QED BY <3>2, <3>3
  <2>3. mode' # "evidence"
    BY <1>3
  <2> QED BY <1>2, <2>1, <2>2, <2>3 DEF CostIsCapped
<1> QED BY <1>7, <1>8, <1>9, <1>10, <1>11 DEF WfInv

\* The founder pauses and resumes at any moment; who resumes a desk no longer keeps it paused.
LEMMA WfInvSetPaused == WfInv /\ SetPaused => WfInv'
<1> SUFFICES ASSUME WfInv, SetPaused PROVE WfInv'
  OBVIOUS
<1>1. UNCHANGED <<audit, notes, mode, deps, todo, busy, wrote, tries, result, spent, burned, failures,
                  quarantined>>
  BY DEF SetPaused, cycleVars
<1>2. Desk' = Desk
  BY <1>1 DEF Desk
<1>3. paused' \subseteq Desks /\ still' \subseteq paused' /\ still' \subseteq still
  BY DEF SetPaused, WfInv, DeskType
<1>4. DeskType'
  BY <1>1, <1>3 DEF WfInv, DeskType
<1>5. NotesInv' /\ LicenceInv' /\ CostIsCapped' /\ PauseHolds'
  BY <1>1, <1>2, <1>3 DEF WfInv, NotesInv, LicenceInv, CostIsCapped, PauseHolds
<1> QED BY <1>4, <1>5 DEF WfInv

\* The notes of a run that died stay on record, and nothing reports them.
LEMMA WfInvCrash == WfInv /\ Crash => WfInv'
<1> SUFFICES ASSUME WfInv, Crash PROVE WfInv'
  OBVIOUS
<1>1. /\ mode' = "idle" /\ busy' = FALSE /\ wrote' = 0 /\ tries' = 0
      /\ UNCHANGED <<paused, audit, notes, deps, result, spent, burned, failures, cycles, still>>
  BY DEF Crash
<1>2. DeskType'
  BY <1>1 DEF WfInv, DeskType, Cycles
<1>3. NotesInv'
  BY <1>1, NoRecordKeeps
<1>4. LicenceInv' /\ CostIsCapped' /\ PauseHolds'
  BY <1>1 DEF WfInv, LicenceInv, CostIsCapped, PauseHolds
<1> QED BY <1>2, <1>3, <1>4 DEF WfInv

LEMMA WfInvStep == WfInv /\ [Next]_vars => WfInv'
<1> SUFFICES ASSUME WfInv, [Next]_vars PROVE WfInv'
  OBVIOUS
<1>1. CASE RunAll \/ RunDag \/ RunCycle \/ RunEvidence
  <2>1. {"all", "dag", "supervised", "evidence"} \subseteq Cycles \ {"idle"}
    BY DEF Cycles
  <2>2. PICK m, g, order : m \in Cycles \ {"idle"} /\ Begin(m, g, order)
    BY <1>1, <2>1 DEF RunAll, RunDag, RunCycle, RunEvidence
  <2> QED BY <2>2, WfInvBegin
<1>2. CASE Step
  BY <1>2, WfInvStopOnCost, WfInvPassQuarantined, WfInvSkip, WfInvRunUnknown, WfInvRunPaused,
     WfInvStartDesk, WfInvWriteNote, WfInvFinish, WfInvRaise DEF Step
<1>3. CASE SetPaused \/ Crash
  BY <1>3, WfInvSetPaused, WfInvCrash
<1>4. CASE UNCHANGED vars
  <2>1. Desk' = Desk
    BY <1>4 DEF vars, cycleVars, Desk
  <2> QED
    BY <1>4, <2>1 DEF vars, cycleVars, WfInv, DeskType, NotesInv, LicenceInv, CostIsCapped, PauseHolds
<1> QED BY <1>1, <1>2, <1>3, <1>4 DEF Next

\* What every reachable state of the desks has, and what each step keeps.
THEOREM WorkforceShape == Spec => []WfInv
<1> QED BY WfInvInit, WfInvStep, PTL DEF Spec

\* Whichever runs raise, are retried or die between two notes, the audit reports no
\* evidence that is not on record, the meter passes the cap by less than one run, and what
\* it missed is bounded by the failures (run_desk, write_evidence, CostMeter).
THEOREM MetersStayHonest == Spec => []MetersAreHonest
<1>1. WfInv => MetersAreHonest
  <2> SUFFICES ASSUME WfInv PROVE MetersAreHonest
    OBVIOUS
  <2>1. ASSUME NEW d \in Ids PROVE audit[d].n <= notes[d]
    <3>1. audit[d] \in [last : Ended, n : Nat] /\ notes[d] \in Nat /\ wrote \in Nat
      BY DEF WfInv, DeskType
    <3>2. audit[d].n + (IF busy /\ Desk = d THEN wrote ELSE 0) <= notes[d]
      BY DEF WfInv, NotesInv
    <3> QED BY <3>1, <3>2
  <2> QED BY <2>1 DEF MetersAreHonest, AuditNeverOverclaims, WfInv
<1> QED BY <1>1, WorkforceShape, PTL

\* What the founder keeps paused, or the supervisor has put in quarantine, does not run:
\* not as a retry, not in a later cycle, whatever is paused or resumed meanwhile
\* (is_paused in run_desk, Supervisor.quarantined).
THEOREM StoppedStayStopped == Spec => []StoppedDesksStayStopped
<1>1. WfInv => StoppedDesksStayStopped
  BY DEF StoppedDesksStayStopped, QuarantineHolds, WfInv, LicenceInv
<1> QED BY <1>1, WorkforceShape, PTL
----------------------------------------------------------------------------
(* The order of a graph.  A cycle that follows one has its desks in a line *)
(* where nobody waits for a desk behind.                                   *)

\* The first n of the concatenations that FlattenSeq makes.
Flattened(ss, n, g) == g = [i \in 1..n |-> IF i = 1 THEN ss[i] ELSE g[i - 1] \o ss[i]]

LEMMA FlattenedExist ==
    ASSUME NEW ss, NEW m \in Nat \ {0}
    PROVE  \E g : Flattened(ss, m, g)
<1> SUFFICES ASSUME ~\E g : Flattened(ss, m, g) PROVE FALSE
  OBVIOUS
<1> DEFINE S == {n \in Nat \ {0} : ~\E g : Flattened(ss, n, g)}
<1>1. S \subseteq Nat /\ S # {}
  OBVIOUS
<1> HIDE DEF S
<1>2. PICK n \in S : \A y \in S : n <= y
  BY <1>1, LeastNumber
<1>3. n \in Nat \ {0} /\ ~\E g : Flattened(ss, n, g)
  BY DEF S
<1>4. Flattened(ss, 1, [i \in 1..1 |-> ss[1]])
  BY DEF Flattened
<1>5. n # 1
  BY <1>3, <1>4
<1>6. n - 1 \in Nat \ {0} /\ n - 1 \notin S
  BY <1>2, <1>3, <1>5
<1>7. PICK g : Flattened(ss, n - 1, g)
  BY <1>6 DEF S
<1> DEFINE h == [i \in 1..n |-> IF i = n THEN g[n - 1] \o ss[n] ELSE g[i]]
<1>8. Flattened(ss, n, h)
  <2>1. ASSUME NEW i \in 1..n PROVE h[i] = IF i = 1 THEN ss[i] ELSE h[i - 1] \o ss[i]
    <3>1. CASE i = n
      <4>1. h[i - 1] = g[n - 1] /\ i # 1
        BY <3>1, <1>3, <1>5
      <4> QED BY <3>1, <4>1
    <3>2. CASE i # n
      <4>1. i \in 1..(n - 1) /\ h[i] = g[i] /\ (i # 1 => h[i - 1] = g[i - 1])
        BY <3>2, <1>3, <1>5
      <4>2. g[i] = IF i = 1 THEN ss[i] ELSE g[i - 1] \o ss[i]
        BY <4>1, <1>7 DEF Flattened
      <4> QED BY <4>1, <4>2
    <3> QED BY <3>1, <3>2
  <2> HIDE DEF h
  <2>2. h = [i \in 1..n |-> h[i]]
    BY DEF h
  <2> QED BY <2>1, <2>2 DEF Flattened
<1> QED BY <1>3, <1>8

\* f lists what the first n sequences of ss have, in their order and no more.
Placed(ss, n, f) ==
    /\ \A i \in DOMAIN f : \E b \in 1..n : \E p \in DOMAIN ss[b] : f[i] = ss[b][p]
    /\ \A b \in 1..n : \A p \in DOMAIN ss[b] : \E i \in DOMAIN f : f[i] = ss[b][p]
    /\ \A i, j \in DOMAIN f : i < j =>
          \E b, c \in 1..n : \E p \in DOMAIN ss[b], q \in DOMAIN ss[c] :
             f[i] = ss[b][p] /\ f[j] = ss[c][q] /\ (b < c \/ (b = c /\ p < q))

LEMMA PlacedMore ==
    ASSUME NEW T, NEW n \in Nat, NEW ss, NEW f \in Seq(T), ss[n + 1] \in Seq(T), Placed(ss, n, f)
    PROVE  Placed(ss, n + 1, f \o ss[n + 1])
<1> DEFINE t == ss[n + 1]
           h == f \o t
           a == Len(f)
<1>1. /\ a \in Nat /\ DOMAIN f = 1..a
      /\ DOMAIN t = 1..Len(t) /\ Len(t) \in Nat /\ DOMAIN h = 1..(a + Len(t))
      /\ \A i \in 1..a : h[i] = f[i]
      /\ \A i \in 1..Len(t) : h[a + i] = t[i]
      /\ \A i \in DOMAIN h : i > a => i - a \in DOMAIN t /\ h[i] = t[i - a]
  OBVIOUS
<1>2. n + 1 \in 1..(n + 1) /\ 1..n \subseteq 1..(n + 1) /\ \A b \in 1..n : b < n + 1
  OBVIOUS
<1> HIDE DEF h, a
<1>3. ASSUME NEW i \in DOMAIN h
      PROVE  \/ i \in DOMAIN f /\ h[i] = f[i]
             \/ i > a /\ i - a \in DOMAIN t /\ h[i] = t[i - a]
  BY <1>1
<1>4. ASSUME NEW i \in DOMAIN h
      PROVE  \E b \in 1..(n + 1) : \E p \in DOMAIN ss[b] : h[i] = ss[b][p]
  <2>1. CASE i \in DOMAIN f /\ h[i] = f[i]
    <3>1. PICK b \in 1..n : \E p \in DOMAIN ss[b] : f[i] = ss[b][p]
      BY <2>1 DEF Placed
    <3> QED BY <1>2, <2>1, <3>1
  <2>2. CASE i - a \in DOMAIN t /\ h[i] = t[i - a]
    BY <1>2, <2>2
  <2> QED BY <1>3, <2>1, <2>2
<1>5. ASSUME NEW b \in 1..(n + 1), NEW p \in DOMAIN ss[b]
      PROVE  \E i \in DOMAIN h : h[i] = ss[b][p]
  <2>1. CASE b = n + 1
    <3>1. a + p \in DOMAIN h /\ h[a + p] = t[p]
      BY <1>1, <2>1
    <3> QED BY <2>1, <3>1
  <2>2. CASE b # n + 1
    <3>1. PICK i \in DOMAIN f : f[i] = ss[b][p]
      BY <2>2 DEF Placed
    <3>2. i \in DOMAIN h /\ h[i] = f[i]
      BY <1>1
    <3> QED BY <3>1, <3>2
  <2> QED BY <2>1, <2>2
<1>6. ASSUME NEW i \in DOMAIN h, NEW j \in DOMAIN h, i < j
      PROVE  \E b, c \in 1..(n + 1) : \E p \in DOMAIN ss[b], q \in DOMAIN ss[c] :
                h[i] = ss[b][p] /\ h[j] = ss[c][q] /\ (b < c \/ (b = c /\ p < q))
  <2>1. CASE j \in DOMAIN f
    <3>1. i \in DOMAIN f /\ h[i] = f[i] /\ h[j] = f[j]
      BY <1>1, <1>6, <2>1
    <3> QED BY <1>2, <1>6, <2>1, <3>1 DEF Placed
  <2>2. CASE j \notin DOMAIN f /\ i \in DOMAIN f
    <3>1. j - a \in DOMAIN t /\ h[j] = t[j - a] /\ h[i] = f[i]
      BY <1>1, <1>3, <2>2
    <3>2. PICK b \in 1..n : \E p \in DOMAIN ss[b] : f[i] = ss[b][p]
      BY <2>2 DEF Placed
    <3>3. b < n + 1 /\ b \in 1..(n + 1) /\ n + 1 \in 1..(n + 1)
      BY <1>2
    <3> QED BY <3>1, <3>2, <3>3
  <2>3. CASE j \notin DOMAIN f /\ i \notin DOMAIN f
    <3>1. /\ j - a \in DOMAIN t /\ h[j] = t[j - a]
          /\ i - a \in DOMAIN t /\ h[i] = t[i - a]
      BY <1>3, <2>3
    <3>2. i - a < j - a
      BY <1>1, <1>6
    <3> QED BY <1>2, <3>1, <3>2
  <2> QED BY <2>1, <2>2, <2>3
<1>7. Placed(ss, n + 1, h)
  BY <1>4, <1>5, <1>6 DEF Placed
<1> QED BY <1>7 DEF h

LEMMA FlattenPlaces ==
    ASSUME NEW T, NEW ss \in Seq(Seq(T))
    PROVE  FlattenSeq(ss) \in Seq(T) /\ Placed(ss, Len(ss), FlattenSeq(ss))
<1> DEFINE m == Len(ss)
<1>1. m \in Nat /\ \A i \in 1..m : ss[i] \in Seq(T)
  OBVIOUS
<1>2. CASE m = 0
  <2>1. ss = <<>> /\ FlattenSeq(ss) = ss
    BY <1>2 DEF FlattenSeq
  <2>2. ss \in Seq(T) /\ DOMAIN ss = {} /\ 1..0 = {}
    BY <2>1
  <2>3. Placed(ss, 0, ss)
    BY <2>2 DEF Placed
  <2> QED BY <1>2, <2>1, <2>2, <2>3
<1>3. CASE m # 0
  <2> DEFINE g == CHOOSE g : g = [i \in 1..m |-> IF i = 1 THEN ss[i] ELSE g[i - 1] \o ss[i]]
  <2>1. FlattenSeq(ss) = g[m]
    BY <1>3 DEF FlattenSeq
  <2>2. Flattened(ss, m, g)
    <3>1. m \in Nat \ {0}
      BY <1>1, <1>3
    <3> HIDE DEF m
    <3>2. \E x : x = [i \in 1..m |-> IF i = 1 THEN ss[i] ELSE x[i - 1] \o ss[i]]
      BY <3>1, FlattenedExist DEF Flattened
    <3> QED BY <3>2 DEF Flattened
  <2> HIDE DEF g, m
  <2>3. ASSUME NEW i \in 1..m PROVE g[i] = IF i = 1 THEN ss[i] ELSE g[i - 1] \o ss[i]
    BY <2>2 DEF Flattened
  <2> DEFINE S == {i \in 1..m : ~(g[i] \in Seq(T) /\ Placed(ss, i, g[i]))}
  <2>4. S = {}
    <3> SUFFICES ASSUME S # {} PROVE FALSE
      OBVIOUS
    <3>1. S \subseteq Nat
      OBVIOUS
    <3> HIDE DEF S
    <3>2. PICK i \in S : \A y \in S : i <= y
      BY <3>1, LeastNumber
    <3>3. i \in 1..m /\ ~(g[i] \in Seq(T) /\ Placed(ss, i, g[i]))
      BY DEF S
    <3>4. CASE i = 1
      <4>1. g[i] = ss[1] /\ ss[1] \in Seq(T) /\ DOMAIN ss[1] \subseteq Int
        BY <1>1, <2>3, <3>3, <3>4
      <4>2. Placed(ss, 1, ss[1])
        BY <4>1 DEF Placed
      <4> QED BY <3>3, <3>4, <4>1, <4>2
    <3>5. CASE i # 1
      <4>1. i - 1 \in 1..m /\ i - 1 \notin S /\ i - 1 \in Nat /\ (i - 1) + 1 = i
        BY <1>1, <3>2, <3>3, <3>5
      <4>2. g[i - 1] \in Seq(T) /\ Placed(ss, i - 1, g[i - 1])
        BY <4>1 DEF S
      <4>3. g[i] = g[i - 1] \o ss[i] /\ ss[i] \in Seq(T)
        BY <1>1, <2>3, <3>3, <3>5
      <4> DEFINE k == i - 1
                 f == g[i - 1]
      <4>4. /\ k \in Nat /\ k + 1 = i /\ f \in Seq(T) /\ Placed(ss, k, f) /\ ss[k + 1] \in Seq(T)
            /\ g[i] = f \o ss[k + 1]
        BY <4>1, <4>2, <4>3
      <4> HIDE DEF k, f
      <4>5. Placed(ss, k + 1, f \o ss[k + 1]) /\ f \o ss[k + 1] \in Seq(T)
        BY <4>4, PlacedMore
      <4> QED BY <3>3, <4>4, <4>5
    <3> QED BY <3>4, <3>5
  <2>5. m \in 1..m
    BY <1>1, <1>3
  <2> QED BY <2>1, <2>4, <2>5 DEF m
<1> QED BY <1>2, <1>3

\* The desks of a set in order: each once, and no other.
LEMMA InOrderLists ==
    ASSUME NEW S
    PROVE  /\ InOrder(S) \in Seq(Ids) /\ IsInjective(InOrder(S)) /\ Range(InOrder(S)) = S \cap Ids
<1> DEFINE ss == [n \in 1..Len(Nodes) |-> IF Nodes[n] \in S THEN <<Nodes[n]>> ELSE <<>>]
           f == InOrder(S)
<1>1. /\ Len(Nodes) \in Nat /\ DOMAIN Nodes = 1..Len(Nodes)
      /\ \A n \in 1..Len(Nodes) : Nodes[n] \in Ids
      /\ \A n, k \in 1..Len(Nodes) : Nodes[n] = Nodes[k] => n = k
  BY WorkforceConstants DEF Ids, Range, IsInjective
<1>2. ss \in Seq(Seq(Ids)) /\ Len(ss) = Len(Nodes)
  <2>1. \A n \in 1..Len(Nodes) : <<Nodes[n]>> \in Seq(Ids) /\ <<>> \in Seq(Ids)
    BY <1>1
  <2>2. ss \in [1..Len(Nodes) -> Seq(Ids)]
    BY <2>1
  <2> HIDE DEF ss
  <2> QED BY <1>1, <2>2
<1>3. ASSUME NEW n \in 1..Len(Nodes), NEW p \in DOMAIN ss[n]
      PROVE  p = 1 /\ ss[n][p] = Nodes[n] /\ Nodes[n] \in S
  OBVIOUS
<1>4. ASSUME NEW n \in 1..Len(Nodes), Nodes[n] \in S
      PROVE  1 \in DOMAIN ss[n] /\ ss[n][1] = Nodes[n]
  BY <1>4
<1>5. f = FlattenSeq(ss)
  BY DEF InOrder
<1> HIDE DEF ss, f
<1>6. f \in Seq(Ids) /\ Placed(ss, Len(Nodes), f)
  BY <1>2, <1>5, FlattenPlaces
<1>7. ASSUME NEW i \in DOMAIN f PROVE f[i] \in S \cap Ids
  <2>1. PICK b \in 1..Len(Nodes) : \E p \in DOMAIN ss[b] : f[i] = ss[b][p]
    BY <1>6 DEF Placed
  <2> QED BY <1>1, <1>3, <2>1
<1>8. ASSUME NEW d \in S \cap Ids PROVE \E i \in DOMAIN f : f[i] = d
  <2>1. PICK n \in 1..Len(Nodes) : Nodes[n] = d
    BY <1>1 DEF Ids, Range
  <2>2. 1 \in DOMAIN ss[n] /\ ss[n][1] = d
    BY <1>4, <2>1
  <2> QED BY <1>6, <2>2 DEF Placed
<1>9. ASSUME NEW i \in DOMAIN f, NEW j \in DOMAIN f, i < j PROVE f[i] # f[j]
  <2>1. PICK b, c \in 1..Len(Nodes) :
           \E p \in DOMAIN ss[b], q \in DOMAIN ss[c] :
              f[i] = ss[b][p] /\ f[j] = ss[c][q] /\ (b < c \/ (b = c /\ p < q))
    BY <1>6, <1>9 DEF Placed
  <2>2. f[i] = Nodes[b] /\ f[j] = Nodes[c] /\ b < c
    BY <1>3, <2>1
  <2> QED BY <1>1, <2>2
<1>10. IsInjective(f)
  <2>1. \A i, j \in DOMAIN f : i \in Int /\ j \in Int
    BY <1>6
  <2>2. \A i, j \in DOMAIN f : i < j \/ j < i \/ i = j
    BY <2>1
  <2> QED BY <1>9, <2>2 DEF IsInjective
<1>11. Range(f) = S \cap Ids
  BY <1>7, <1>8 DEF Range
<1> QED BY <1>6, <1>10, <1>11 DEF f

\* What is left after each rank up to the n-th.
Left(g, n, r) == r = [k \in 0..n |-> IF k = 0 THEN Ids ELSE r[k - 1] \ Ready(g, r[k - 1])]

LEMMA LeftExist ==
    ASSUME NEW g, NEW m \in Nat
    PROVE  \E r : Left(g, m, r)
<1> SUFFICES ASSUME ~\E r : Left(g, m, r) PROVE FALSE
  OBVIOUS
<1> DEFINE S == {n \in Nat : ~\E r : Left(g, n, r)}
<1>1. S \subseteq Nat /\ S # {}
  OBVIOUS
<1> HIDE DEF S
<1>2. PICK n \in S : \A y \in S : n <= y
  BY <1>1, LeastNumber
<1>3. n \in Nat /\ ~\E r : Left(g, n, r)
  BY DEF S
<1>4. Left(g, 0, [k \in 0..0 |-> Ids])
  BY DEF Left
<1>5. n # 0
  BY <1>3, <1>4
<1>6. n - 1 \in Nat /\ n - 1 \notin S
  BY <1>2, <1>3, <1>5
<1>7. PICK r : Left(g, n - 1, r)
  BY <1>6 DEF S
<1> DEFINE h == [k \in 0..n |-> IF k = n THEN r[n - 1] \ Ready(g, r[n - 1]) ELSE r[k]]
<1>8. Left(g, n, h)
  <2>1. ASSUME NEW k \in 0..n
        PROVE  h[k] = IF k = 0 THEN Ids ELSE h[k - 1] \ Ready(g, h[k - 1])
    <3>1. CASE k = n
      <4>1. h[k - 1] = r[n - 1] /\ k # 0
        BY <3>1, <1>3, <1>5
      <4> QED BY <3>1, <4>1
    <3>2. CASE k # n
      <4>1. k \in 0..(n - 1) /\ h[k] = r[k] /\ (k # 0 => h[k - 1] = r[k - 1])
        BY <3>2, <1>3, <1>5
      <4>2. r[k] = IF k = 0 THEN Ids ELSE r[k - 1] \ Ready(g, r[k - 1])
        BY <4>1, <1>7 DEF Left
      <4> QED BY <4>1, <4>2
    <3> QED BY <3>1, <3>2
  <2>2. h = [k \in 0..n |-> h[k]]
    OBVIOUS
  <2> HIDE DEF h
  <2> QED BY <2>1, <2>2 DEF Left
<1> QED BY <1>3, <1>8

LEMMA RemainingIs ==
    ASSUME NEW g, NEW k \in 0..Len(Nodes)
    PROVE  Remaining(g)[k] = IF k = 0 THEN Ids
                             ELSE Remaining(g)[k - 1] \ Ready(g, Remaining(g)[k - 1])
<1> DEFINE r == CHOOSE r : r = [n \in 0..Len(Nodes) |->
                                  IF n = 0 THEN Ids ELSE r[n - 1] \ Ready(g, r[n - 1])]
<1>1. Remaining(g) = r
  BY DEF Remaining
<1>2. \E x : x = [n \in 0..Len(Nodes) |-> IF n = 0 THEN Ids ELSE x[n - 1] \ Ready(g, x[n - 1])]
  <2> DEFINE m == Len(Nodes)
  <2>1. m \in Nat
    BY WorkforceConstants
  <2> HIDE DEF m
  <2>2. \E x : Left(g, m, x)
    BY <2>1, LeftExist
  <2>3. \E x : x = [n \in 0..m |-> IF n = 0 THEN Ids ELSE x[n - 1] \ Ready(g, x[n - 1])]
    BY <2>2 DEF Left
  <2> QED BY <2>3 DEF m
<1>3. r = [n \in 0..Len(Nodes) |-> IF n = 0 THEN Ids ELSE r[n - 1] \ Ready(g, r[n - 1])]
  BY <1>2
<1> HIDE DEF r
<1> QED BY <1>1, <1>3

\* Later ranks leave less.
LEMMA RemainingShrinks ==
    ASSUME NEW g, NEW i \in 0..Len(Nodes), NEW j \in 0..Len(Nodes), i <= j
    PROVE  Remaining(g)[j] \subseteq Remaining(g)[i]
<1> DEFINE S == {k \in i..Len(Nodes) : ~(Remaining(g)[k] \subseteq Remaining(g)[i])}
<1>0. Len(Nodes) \in Nat
  BY WorkforceConstants
<1>1. S = {}
  <2> SUFFICES ASSUME S # {} PROVE FALSE
    OBVIOUS
  <2>1. S \subseteq Nat
    BY <1>0
  <2> HIDE DEF S
  <2>2. PICK k \in S : \A y \in S : k <= y
    BY <2>1, LeastNumber
  <2>3. k \in i..Len(Nodes) /\ ~(Remaining(g)[k] \subseteq Remaining(g)[i])
    BY DEF S
  <2>4. k # i
    BY <2>3
  <2>5. k - 1 \in i..Len(Nodes) /\ k - 1 \notin S /\ k \in 0..Len(Nodes) /\ k # 0
    BY <1>0, <2>2, <2>3, <2>4
  <2>6. Remaining(g)[k - 1] \subseteq Remaining(g)[i]
    BY <2>5 DEF S
  <2>7. Remaining(g)[k] \subseteq Remaining(g)[k - 1]
    <3>1. k \in 0..Len(Nodes) /\ k # 0
      BY <2>5
    <3>2. Remaining(g)[k] = Remaining(g)[k - 1] \ Ready(g, Remaining(g)[k - 1])
      BY <3>1, RemainingIs
    <3> QED BY <3>2
  <2> QED BY <2>3, <2>6, <2>7
<1> QED BY <1>0, <1>1

\* In a graph without a cycle every desk has a rank.
LEMMA RankExists ==
    ASSUME NEW g, IsAcyclic(g), NEW d \in Ids
    PROVE  \E n \in 1..Len(Nodes) : d \in Ready(g, Remaining(g)[n - 1])
<1> DEFINE S == {n \in 0..Len(Nodes) : d \notin Remaining(g)[n]}
<1>0. Len(Nodes) \in Nat
  BY WorkforceConstants
<1>1. S \subseteq Nat /\ S # {}
  BY <1>0 DEF IsAcyclic
<1> HIDE DEF S
<1>2. PICK n \in S : \A y \in S : n <= y
  BY <1>1, LeastNumber
<1>3. n \in 0..Len(Nodes) /\ d \notin Remaining(g)[n]
  BY DEF S
<1>4. n # 0
  BY <1>3, RemainingIs
<1>5. n - 1 \in 0..Len(Nodes) /\ n - 1 \notin S /\ n \in 1..Len(Nodes)
  BY <1>0, <1>2, <1>3, <1>4
<1>6. d \in Remaining(g)[n - 1] /\ d \notin Remaining(g)[n - 1] \ Ready(g, Remaining(g)[n - 1])
  BY <1>3, <1>4, <1>5, RemainingIs DEF S
<1> QED BY <1>5, <1>6

\* In a line nobody stands twice, and nobody waits for a desk behind him, or for himself.
InLine(line, g) ==
    /\ line \in Seq(Ids) /\ IsInjective(line)
    /\ \A i, j \in DOMAIN line : i <= j => line[j] \notin g[line[i]]

\* topological_order lines up every desk of a graph without a cycle.
LEMMA OrderIsLine ==
    ASSUME NEW g \in [Ids -> SUBSET Ids], IsAcyclic(g)
    PROVE  InLine(TopologicalOrder(g), g) /\ Range(TopologicalOrder(g)) = Ids
<1> DEFINE rank(n) == Ready(g, Remaining(g)[n - 1])
           ss == [n \in 1..Len(Nodes) |-> InOrder(rank(n))]
           f == TopologicalOrder(g)
<1>0. Len(Nodes) \in Nat
  BY WorkforceConstants
<1>1. f = FlattenSeq(ss)
  BY DEF TopologicalOrder
<1>2. ss \in Seq(Seq(Ids)) /\ Len(ss) = Len(Nodes)
  <2>1. \A n \in 1..Len(Nodes) : InOrder(rank(n)) \in Seq(Ids)
    BY InOrderLists
  <2>2. ss \in [1..Len(Nodes) -> Seq(Ids)]
    BY <2>1
  <2> HIDE DEF ss
  <2> QED BY <1>0, <2>2
<1>3. ASSUME NEW n \in 1..Len(Nodes)
      PROVE  ss[n] \in Seq(Ids) /\ IsInjective(ss[n]) /\ Range(ss[n]) = rank(n) \cap Ids
  <2>1. ss[n] = InOrder(rank(n))
    OBVIOUS
  <2> HIDE DEF ss, rank
  <2> QED BY <2>1, InOrderLists
<1> HIDE DEF ss, f
<1>4. f \in Seq(Ids) /\ Placed(ss, Len(Nodes), f)
  BY <1>1, <1>2, FlattenPlaces
<1>5. ASSUME NEW b \in 1..Len(Nodes), NEW c \in 1..Len(Nodes), b <= c,
             NEW d \in rank(b), NEW e \in rank(c)
      PROVE  e \notin g[d] /\ (b < c => d # e)
  <2>1. b - 1 \in 0..Len(Nodes) /\ c - 1 \in 0..Len(Nodes) /\ b - 1 <= c - 1 /\ b \in 0..Len(Nodes)
    BY <1>0, <1>5
  <2>2. Remaining(g)[c - 1] \subseteq Remaining(g)[b - 1]
    BY <2>1, RemainingShrinks
  <2>3. e \in Remaining(g)[c - 1] /\ g[d] \cap Remaining(g)[b - 1] = {}
    BY DEF Ready
  <2>4. ASSUME b < c PROVE d # e
    <3>1. b <= c - 1
      BY <1>0, <2>4
    <3>2. Remaining(g)[c - 1] \subseteq Remaining(g)[b]
      BY <2>1, <3>1, RemainingShrinks
    <3>3. b # 0
      BY <1>0
    <3>4. Remaining(g)[b] = Remaining(g)[b - 1] \ rank(b)
      BY <2>1, <3>3, RemainingIs
    <3> QED BY <2>3, <3>2, <3>4
  <2> QED BY <2>2, <2>3, <2>4
<1>6. ASSUME NEW i \in DOMAIN f, NEW j \in DOMAIN f, i < j
      PROVE  f[j] \notin g[f[i]] /\ f[i] # f[j]
  <2>1. PICK b, c \in 1..Len(Nodes) :
           \E p \in DOMAIN ss[b], q \in DOMAIN ss[c] :
              f[i] = ss[b][p] /\ f[j] = ss[c][q] /\ (b < c \/ (b = c /\ p < q))
    BY <1>4, <1>6 DEF Placed
  <2>2. PICK p \in DOMAIN ss[b], q \in DOMAIN ss[c] :
           f[i] = ss[b][p] /\ f[j] = ss[c][q] /\ (b < c \/ (b = c /\ p < q))
    BY <2>1
  <2>3. f[i] \in rank(b) /\ f[j] \in rank(c)
    BY <1>3, <2>2 DEF Range
  <2>4. b <= c
    BY <2>2
  <2>5. f[j] \notin g[f[i]] /\ (b < c => f[i] # f[j])
    BY <1>5, <2>3, <2>4
  <2>6. CASE b = c
    <3>1. p # q /\ IsInjective(ss[b]) /\ DOMAIN ss[b] \subseteq Int
      BY <1>3, <2>2, <2>6
    <3> QED BY <2>2, <2>5, <2>6, <3>1 DEF IsInjective
  <2> QED BY <2>2, <2>5, <2>6
<1>7. ASSUME NEW i \in DOMAIN f PROVE f[i] \notin g[f[i]]
  <2>1. PICK b \in 1..Len(Nodes) : \E p \in DOMAIN ss[b] : f[i] = ss[b][p]
    BY <1>4 DEF Placed
  <2>2. f[i] \in rank(b) /\ b <= b
    BY <1>0, <1>3, <2>1 DEF Range
  <2> QED BY <1>5, <2>2
<1>8. \A i, j \in DOMAIN f : i < j \/ j < i \/ i = j
  <2>1. \A i, j \in DOMAIN f : i \in Int /\ j \in Int
    BY <1>4
  <2> QED BY <2>1
<1>9. IsInjective(f)
  BY <1>6, <1>8 DEF IsInjective
<1>10. \A i, j \in DOMAIN f : i <= j => f[j] \notin g[f[i]]
  <2>1. \A i, j \in DOMAIN f : i <= j => i < j \/ i = j
    <3>1. \A i, j \in DOMAIN f : i \in Int /\ j \in Int
      BY <1>4
    <3> QED BY <3>1
  <2> QED BY <1>6, <1>7, <2>1
<1>11. ASSUME NEW d \in Ids PROVE \E i \in DOMAIN f : f[i] = d
  <2>1. PICK n \in 1..Len(Nodes) : d \in rank(n)
    BY RankExists
  <2>2. PICK p \in DOMAIN ss[n] : ss[n][p] = d
    BY <1>3, <2>1 DEF Range
  <2> QED BY <1>4, <2>2 DEF Placed
<1>12. Range(f) = Ids
  <2>1. \A i \in DOMAIN f : f[i] \in Ids
    BY <1>4
  <2> QED BY <1>11, <2>1 DEF Range
<1> QED BY <1>4, <1>9, <1>10, <1>12 DEF InLine, f
----------------------------------------------------------------------------
(* What a failure touches.  ChainInv is about a desk and its own upstreams *)
(* only; FailureIsContained about all of its ancestors.                    *)

Good == {"ok", "empty", "paused"}
Ran == Good \cup {"error"}

\* A cycle along a graph has the desks without a result in a line, and a desk that runs has
\* its upstreams done; the other cycles know no graph.
LineInv ==
    /\ deps \in [Ids -> SUBSET Ids]
    /\ mode \in {"all", "supervised", "evidence"} => deps = NoDeps
    /\ mode = "dag" =>
          /\ IsAcyclic(deps) /\ InLine(todo, deps)
          /\ \A d \in Ids : result[d] = "none" <=> d \in Range(todo)
          /\ busy => todo # <<>> /\ \A u \in deps[Desk] : result[u] \in Good

UpstreamInv ==
    \A d \in Ids :
        /\ result[d] \in Ran => \A u \in deps[d] : result[u] \in Good
        /\ result[d] = "skipped" => IsAcyclic(deps) /\ \E u \in deps[d] : result[u] \in Bad

ChainInv == LineInv /\ UpstreamInv

\* Who goes to the head of the line is at most behind those who left it.
LEMMA TailInLine ==
    ASSUME NEW g, NEW line, InLine(line, g), line # <<>>
    PROVE  /\ InLine(Tail(line), g) /\ Range(Tail(line)) = Range(line) \ {Head(line)}
           /\ Head(line) \in Range(line) /\ Head(line) \in Ids
           /\ g[Head(line)] \cap Range(line) = {}
<1> DEFINE t == Tail(line)
           n == Len(line)
<1>1. /\ n \in Nat /\ n > 0 /\ DOMAIN line = 1..n /\ line[1] = Head(line)
      /\ t \in Seq(Ids) /\ DOMAIN t = 1..(n - 1) /\ \A i \in 1..(n - 1) : t[i] = line[i + 1]
      /\ \A i \in 1..n : line[i] \in Ids
  BY DEF InLine
<1> HIDE DEF t, n
<1>2. \A i \in DOMAIN t : i + 1 \in DOMAIN line /\ t[i] = line[i + 1] /\ i \in Int
  BY <1>1
<1>3. IsInjective(t)
  BY <1>2 DEF IsInjective, InLine
<1>4. \A i, j \in DOMAIN t : i <= j => t[j] \notin g[t[i]]
  BY <1>2 DEF InLine
<1>5. \A i \in DOMAIN line : i = 1 \/ (i - 1 \in DOMAIN t /\ t[i - 1] = line[i])
  BY <1>1
<1>6. 1 \in DOMAIN line /\ \A i \in DOMAIN t : i + 1 # 1
  BY <1>1
<1>7. \A i \in DOMAIN line : line[i] = line[1] => i = 1
  BY <1>6 DEF InLine, IsInjective
<1>8. Range(t) = Range(line) \ {line[1]}
  <2>1. ASSUME NEW x \in Range(t) PROVE x \in Range(line) \ {line[1]}
    <3>1. PICK i \in DOMAIN t : x = t[i]
      BY DEF Range
    <3> QED BY <1>2, <1>6, <1>7, <3>1 DEF Range
  <2>2. ASSUME NEW x \in Range(line) \ {line[1]} PROVE x \in Range(t)
    <3>1. PICK i \in DOMAIN line : x = line[i]
      BY DEF Range
    <3> QED BY <1>5, <3>1 DEF Range
  <2> QED BY <2>1, <2>2
<1>9. \A i \in DOMAIN line : line[i] \notin g[line[1]]
  <2>1. \A i \in DOMAIN line : 1 <= i
    BY <1>1
  <2> QED BY <1>6, <2>1 DEF InLine
<1>10. line[1] \in Range(line) /\ line[1] \in Ids /\ g[line[1]] \cap Range(line) = {}
  BY <1>1, <1>6, <1>9 DEF Range
<1>11. InLine(t, g)
  BY <1>1, <1>3, <1>4 DEF InLine
<1> QED BY <1>1, <1>8, <1>10, <1>11 DEF t

\* The desk whose turn it is has no result, and its upstreams have theirs.
LEMMA TurnInv ==
    ASSUME WfInv, ChainInv, mode = "dag", todo # <<>>
    PROVE  /\ Desk \in Ids /\ result[Desk] = "none" /\ deps[Desk] \subseteq Ids
           /\ \A u \in deps[Desk] : result[u] \in Good \cup Bad
<1>1. /\ Desk \in Range(todo) /\ Desk \in Ids /\ deps[Desk] \cap Range(todo) = {}
  BY TailInLine DEF ChainInv, LineInv, Desk
<1>2. deps[Desk] \subseteq Ids /\ result \in [Ids -> Ended]
  BY <1>1 DEF ChainInv, LineInv, WfInv, DeskType
<1>3. ASSUME NEW u \in deps[Desk] PROVE result[u] \in Good \cup Bad
  <2>1. result[u] # "none" /\ result[u] \in Ended
    BY <1>1, <1>2 DEF ChainInv, LineInv
  <2> QED BY <2>1 DEF Ended, Good, Bad
<1> QED BY <1>1, <1>2, <1>3 DEF ChainInv, LineInv

\* Nothing ends, and the cycle goes on where it is, or is over.
LEMMA ChainQuiet ==
    ASSUME ChainInv, deps' = deps, result' = result,
           mode' = "idle" \/ UNCHANGED <<mode, todo, busy>> \/ (mode # "dag" /\ mode' = mode)
    PROVE  ChainInv'
<1>1. UpstreamInv'
  BY DEF ChainInv, UpstreamInv
<1>2. LineInv'
  <2>1. CASE mode' = "idle"
    BY <2>1 DEF ChainInv, LineInv
  <2>2. CASE UNCHANGED <<mode, todo, busy>>
    <3>1. Desk' = Desk
      BY <2>2 DEF Desk
    <3> QED BY <2>2, <3>1 DEF ChainInv, LineInv
  <2>3. CASE mode # "dag" /\ mode' = mode
    BY <2>3 DEF ChainInv, LineInv
  <2> QED BY <2>1, <2>2, <2>3
<1> QED BY <1>1, <1>2 DEF ChainInv

\* The current desk ends, in a cycle that knows no graph.
LEMMA ChainFree ==
    ASSUME WfInv, ChainInv, mode \notin {"idle", "dag"}, NEW s \in Ran, Ends(s),
           deps' = deps, mode' \in {"idle", mode}
    PROVE  ChainInv'
<1>1. deps = NoDeps /\ \A d \in Ids : deps[d] = {}
  BY DEF ChainInv, LineInv, NoDeps, WfInv, DeskType, Cycles
<1>2. s \in Ended
  BY DEF Ran, Good, Ended
<1>3. \A d \in Ids : result'[d] = IF d = Desk THEN s ELSE result[d]
  BY <1>2, EndsDoes
<1>4. UpstreamInv'
  BY <1>1, <1>3 DEF ChainInv, UpstreamInv, Ran, Good
<1>5. LineInv'
  BY DEF ChainInv, LineInv
<1> QED BY <1>4, <1>5 DEF ChainInv

\* The current desk of a graph ends, and the line goes on with the one after it.
LEMMA ChainEnds ==
    ASSUME WfInv, ChainInv, mode = "dag", todo # <<>>, NEW s, Ends(s),
           \/ s \in Ran /\ \A u \in deps[Desk] : result[u] \in Good
           \/ s = "skipped" /\ \E u \in deps[Desk] : result[u] \in Bad,
           deps' = deps, todo' = Tail(todo), ~busy', mode' \in {"idle", mode}
    PROVE  ChainInv'
<1>1. /\ Desk \in Ids /\ result[Desk] = "none" /\ deps \in [Ids -> SUBSET Ids] /\ IsAcyclic(deps)
  BY TurnInv DEF ChainInv, LineInv
<1>2. s \in Ended /\ s # "none"
  BY DEF Ran, Good, Ended
<1>3. \A d \in Ids : result'[d] = IF d = Desk THEN s ELSE result[d]
  BY <1>2, EndsDoes
<1>4. "none" \notin Good /\ "none" \notin Bad /\ "skipped" \notin Ran
  BY DEF Good, Bad, Ran
<1>5. UpstreamInv'
  <2> SUFFICES ASSUME NEW d \in Ids
               PROVE  /\ result'[d] \in Ran => \A u \in deps[d] : result'[u] \in Good
                      /\ result'[d] = "skipped" => IsAcyclic(deps) /\ \E u \in deps[d] : result'[u] \in Bad
    BY DEF UpstreamInv
  <2>1. \A u \in deps[d] : u \in Ids
    BY <1>1
  <2>2. \A u \in deps[d] : result[u] \in Good \cup Bad => result'[u] = result[u]
    BY <1>1, <1>3, <1>4, <2>1
  <2>3. CASE d = Desk
    BY <1>1, <1>3, <1>4, <2>2, <2>3
  <2>4. CASE d # Desk
    <3>1. result'[d] = result[d]
      BY <1>3, <2>4
    <3> QED BY <2>2, <3>1 DEF ChainInv, UpstreamInv
  <2> QED BY <2>3, <2>4
<1>6. LineInv'
  <2>1. CASE mode' = "idle"
    BY <2>1 DEF ChainInv, LineInv
  <2>2. CASE mode' = "dag"
    <3>1. /\ InLine(Tail(todo), deps) /\ Range(Tail(todo)) = Range(todo) \ {Desk}
      BY TailInLine DEF ChainInv, LineInv, Desk
    <3>2. \A d \in Ids : result'[d] = "none" <=> d \in Range(todo')
      BY <1>2, <1>3, <3>1 DEF ChainInv, LineInv
    <3> QED BY <1>1, <2>2, <3>1, <3>2 DEF LineInv
  <2> QED BY <2>1, <2>2
<1> QED BY <1>5, <1>6 DEF ChainInv

LEMMA ChainBegin ==
    ASSUME NEW m, NEW g \in [Ids -> SUBSET Ids], NEW order, Begin(m, g, order), WfInv,
           \/ m # "dag" /\ g = NoDeps
           \/ m = "dag" /\ IsAcyclic(g) /\ order = TopologicalOrder(g)
    PROVE  ChainInv'
<1>1. /\ deps' = g /\ mode' = m /\ todo' = order /\ \A d \in Ids : result'[d] = "none"
      /\ busy' = busy /\ ~busy
  BY DEF Begin, WfInv, LicenceInv
<1>2. UpstreamInv'
  BY <1>1 DEF UpstreamInv, Ran, Good
<1>3. m = "dag" => InLine(order, g) /\ Range(order) = Ids /\ IsAcyclic(g)
  BY OrderIsLine DEF NoDeps
<1>4. LineInv'
  <2>1. CASE m # "dag" /\ g = NoDeps
    BY <1>1, <2>1 DEF LineInv
  <2>2. CASE m = "dag"
    BY <1>1, <1>3, <2>2 DEF LineInv
  <2> QED BY <2>1, <2>2
<1> QED BY <1>2, <1>4 DEF ChainInv

LEMMA ChainInit == Init => ChainInv
<1> SUFFICES ASSUME Init PROVE ChainInv
  OBVIOUS
<1>1. /\ deps = NoDeps /\ mode = "idle" /\ \A d \in Ids : result[d] = "none"
  BY DEF Init
<1>2. UpstreamInv
  BY <1>1 DEF UpstreamInv, Ran, Good
<1>3. LineInv
  BY <1>1 DEF LineInv, NoDeps
<1> QED BY <1>2, <1>3 DEF ChainInv

\* A desk that may run, and does not, or will, has upstreams that are all done.
LEMMA MayRunChain ==
    ASSUME WfInv, ChainInv, MayRun, mode = "dag"
    PROVE  \A u \in deps[Desk] : result[u] \in Good
<1>1. todo # <<>> /\ ~UpstreamFailed
  BY DEF MayRun, Running
<1>2. \A u \in deps[Desk] : result[u] \in Good \cup Bad
  BY <1>1, TurnInv
<1> QED BY <1>1, <1>2 DEF UpstreamFailed, Bad

\* How each step of a desk ends, or does not end, it.
LEMMA ChainStep ==
    ASSUME WfInv, ChainInv, Step
    PROVE  ChainInv'
<1> USE DEF Ran, Good
<1>0. {"ok", "empty", "error", "paused"} \subseteq Ran
  OBVIOUS
<1>1. CASE StopOnCost
  BY <1>1, ChainQuiet DEF StopOnCost
<1>2. CASE PassQuarantined
  BY <1>2, ChainQuiet DEF PassQuarantined, Quarantined, Advance
<1>3. CASE Skip
  <2>1. /\ mode = "dag" /\ todo # <<>> /\ Ends("skipped") /\ deps' = deps /\ todo' = Tail(todo)
        /\ ~busy' /\ mode' \in {"idle", mode} /\ \E u \in deps[Desk] : result[u] \in Bad
    BY <1>3 DEF Skip, Running, UpstreamFailed, Advance, Bad
  <2> QED BY <2>1, ChainEnds
<1>4. CASE RunUnknown \/ RunPaused
  <2>1. /\ MayRun /\ todo # <<>> /\ (Ends("error") \/ Ends("paused"))
        /\ deps' = deps /\ todo' = Tail(todo) /\ ~busy' /\ mode' \in {"idle", mode} /\ mode # "idle"
    BY <1>4 DEF RunUnknown, RunPaused, MayRun, Running, Advance
  <2>2. CASE mode = "dag"
    BY <1>0, <2>1, <2>2, MayRunChain, ChainEnds
  <2>3. CASE mode # "dag"
    BY <1>0, <2>1, <2>3, ChainFree
  <2> QED BY <2>2, <2>3
<1>5. CASE StartDesk
  <2>1. /\ MayRun /\ todo # <<>> /\ UNCHANGED <<deps, mode, todo, result>> /\ Desk' = Desk
    BY <1>5 DEF StartDesk, MayRun, Running, Desk
  <2>2. UpstreamInv'
    BY <2>1 DEF ChainInv, UpstreamInv
  <2>3. LineInv'
    BY <2>1, MayRunChain DEF ChainInv, LineInv
  <2> QED BY <2>2, <2>3 DEF ChainInv
<1>6. CASE WriteNote
  BY <1>6, ChainQuiet DEF WriteNote
<1>7. CASE Finish
  <2>1. PICK s \in Reports(Desk) : Ends(s)
    BY <1>7 DEF Finish
  <2>2. s \in Ran
    BY <2>1 DEF Reports
  <2>3. /\ busy /\ deps' = deps /\ todo' = Tail(todo) /\ ~busy' /\ mode' \in {"idle", mode} /\ mode # "idle"
    BY <1>7 DEF Finish, Advance, WfInv, LicenceInv
  <2>4. CASE mode = "dag"
    <3>1. todo # <<>> /\ \A u \in deps[Desk] : result[u] \in Good
      BY <2>3, <2>4 DEF ChainInv, LineInv
    <3> QED BY <2>1, <2>2, <2>3, <2>4, <3>1, ChainEnds
  <2>5. CASE mode # "dag"
    BY <2>1, <2>2, <2>3, <2>5, ChainFree
  <2> QED BY <2>4, <2>5
<1>8. CASE Raise
  <2>1. busy /\ deps' = deps /\ Ends("error") /\ mode # "idle" /\ mode' \in {"idle", mode}
    BY <1>8 DEF Raise, Advance, WfInv, LicenceInv
  <2>2. CASE mode = "dag"
    <3>1. todo' = Tail(todo) /\ ~busy'
      BY <1>8, <2>2 DEF Raise, Advance
    <3>2. todo # <<>> /\ \A u \in deps[Desk] : result[u] \in Good
      BY <2>1, <2>2 DEF ChainInv, LineInv
    <3> QED BY <1>0, <2>1, <2>2, <3>1, <3>2, ChainEnds
  <2>3. CASE mode # "dag"
    BY <1>0, <2>1, <2>3, ChainFree
  <2> QED BY <2>2, <2>3
<1> QED BY <1>1, <1>2, <1>3, <1>4, <1>5, <1>6, <1>7, <1>8 DEF Step

LEMMA ChainNext == WfInv /\ ChainInv /\ [Next]_vars => ChainInv'
<1> SUFFICES ASSUME WfInv, ChainInv, [Next]_vars PROVE ChainInv'
  OBVIOUS
<1>1. CASE RunAll \/ RunCycle \/ RunEvidence
  <2>1. NoDeps \in [Ids -> SUBSET Ids]
    BY DEF NoDeps
  <2>2. PICK m, order : m # "dag" /\ Begin(m, NoDeps, order)
    BY <1>1 DEF RunAll, RunCycle, RunEvidence
  <2> QED BY <2>1, <2>2, ChainBegin
<1>2. CASE RunDag
  <2>1. PICK g \in Graphs : IsAcyclic(g) /\ Begin("dag", g, TopologicalOrder(g))
    BY <1>2 DEF RunDag
  <2>2. g \in [Ids -> SUBSET Ids]
    BY WorkforceConstants DEF Ids
  <2> QED BY <2>1, <2>2, ChainBegin
<1>3. CASE Step
  BY <1>3, ChainStep
<1>4. CASE SetPaused \/ Crash \/ UNCHANGED vars
  BY <1>4, ChainQuiet DEF SetPaused, Crash, vars, cycleVars
<1> QED BY <1>1, <1>2, <1>3, <1>4 DEF Next

----------------------------------------------------------------------------
\* The upstreams of d at up to n + 1 edges.
Ups(d, n, up) ==
    up = [k \in 0..n |-> IF k = 0 THEN deps[d] ELSE up[k - 1] \cup UNION {deps[u] : u \in up[k - 1]}]

LEMMA UpsExist ==
    ASSUME NEW d, NEW m \in Nat
    PROVE  \E up : Ups(d, m, up)
<1> SUFFICES ASSUME ~\E up : Ups(d, m, up) PROVE FALSE
  OBVIOUS
<1> DEFINE S == {n \in Nat : ~\E up : Ups(d, n, up)}
           more(near) == near \cup UNION {deps[u] : u \in near}
<1>1. S \subseteq Nat /\ S # {}
  OBVIOUS
<1> HIDE DEF S
<1>2. PICK n \in S : \A y \in S : n <= y
  BY <1>1, LeastNumber
<1>3. n \in Nat /\ ~\E up : Ups(d, n, up)
  BY DEF S
<1>4. Ups(d, 0, [k \in 0..0 |-> deps[d]])
  BY DEF Ups
<1>5. n # 0
  BY <1>3, <1>4
<1>6. n - 1 \in Nat /\ n - 1 \notin S
  BY <1>2, <1>3, <1>5
<1>7. PICK up : up = [k \in 0..(n - 1) |-> IF k = 0 THEN deps[d] ELSE more(up[k - 1])]
  BY <1>6 DEF S, Ups
<1> HIDE DEF more
<1> DEFINE h == [k \in 0..n |-> IF k = n THEN more(up[n - 1]) ELSE up[k]]
<1>8. h = [k \in 0..n |-> IF k = 0 THEN deps[d] ELSE more(h[k - 1])]
  <2>1. ASSUME NEW k \in 0..n
        PROVE  h[k] = IF k = 0 THEN deps[d] ELSE more(h[k - 1])
    <3>1. CASE k = n
      <4>1. h[k - 1] = up[n - 1] /\ k # 0
        BY <3>1, <1>3, <1>5
      <4> QED BY <3>1, <4>1
    <3>2. CASE k # n
      <4>1. k \in 0..(n - 1) /\ h[k] = up[k] /\ (k # 0 => h[k - 1] = up[k - 1])
        BY <3>2, <1>3, <1>5
      <4>2. up[k] = IF k = 0 THEN deps[d] ELSE more(up[k - 1])
        BY <4>1, <1>7
      <4> QED BY <4>1, <4>2
    <3> QED BY <3>1, <3>2
  <2>2. h = [k \in 0..n |-> h[k]]
    OBVIOUS
  <2> HIDE DEF h
  <2> QED BY <2>1, <2>2
<1>9. Ups(d, n, h)
  BY <1>8 DEF Ups, more
<1> QED BY <1>3, <1>9

\* Ancestor is the last of them.
LEMMA AncestorIs ==
    ASSUME NEW d, NEW m, m = Len(Nodes)
    PROVE  m \in Nat /\ \E up : Ups(d, m, up) /\ Ancestor(d) = up[m]
<1>1. m \in Nat
  BY WorkforceConstants
<1> DEFINE up == CHOOSE up : up = [k \in 0..m |->
                    IF k = 0 THEN deps[d] ELSE up[k - 1] \cup UNION {deps[u] : u \in up[k - 1]}]
<1>2. Ancestor(d) = up[m]
  BY DEF Ancestor
<1>3. \E x : Ups(d, m, x)
  BY <1>1, UpsExist
<1>4. Ups(d, m, up)
  BY <1>3 DEF Ups
<1> HIDE DEF up
<1> QED BY <1>1, <1>2, <1>4

\* Whatever ran had all its ancestors done.
LEMMA AncestorsDone ==
    ASSUME ChainInv, NEW d \in Ids, result[d] \in Ran, NEW u \in Ancestor(d)
    PROVE  result[u] \in Good
<1> DEFINE m == Len(Nodes)
<1>1. m \in Nat /\ \E up : Ups(d, m, up) /\ Ancestor(d) = up[m]
  BY AncestorIs
<1> HIDE DEF m
<1>2. PICK up : Ups(d, m, up) /\ Ancestor(d) = up[m]
  BY <1>1
<1> DEFINE done == {x \in Ids : result[x] \in Good}
           S == {k \in 0..m : ~(up[k] \subseteq done)}
<1>3. \A x \in done : deps[x] \subseteq done
  BY DEF ChainInv, UpstreamInv, LineInv, Ran
<1>4. S = {}
  <2> SUFFICES ASSUME S # {} PROVE FALSE
    OBVIOUS
  <2>1. S \subseteq Nat
    OBVIOUS
  <2> HIDE DEF S
  <2>2. PICK k \in S : \A y \in S : k <= y
    BY <2>1, LeastNumber
  <2>3. k \in 0..m /\ ~(up[k] \subseteq done)
    BY DEF S
  <2>4. CASE k = 0
    <3>1. up[k] = deps[d]
      BY <1>2, <2>3, <2>4 DEF Ups
    <3>2. deps[d] \subseteq done
      BY DEF ChainInv, UpstreamInv, LineInv
    <3> QED BY <2>3, <3>1, <3>2
  <2>5. CASE k # 0
    <3>1. k - 1 \in 0..m /\ k - 1 \notin S
      BY <1>1, <2>2, <2>3, <2>5
    <3>2. up[k - 1] \subseteq done
      BY <3>1 DEF S
    <3>3. up[k] = up[k - 1] \cup UNION {deps[x] : x \in up[k - 1]}
      BY <1>2, <2>3, <2>5 DEF Ups
    <3> QED BY <1>3, <2>3, <3>2, <3>3
  <2> QED BY <2>4, <2>5
<1>5. m \in 0..m
  BY <1>1
<1> QED BY <1>2, <1>4, <1>5

\* Of what was skipped an ancestor failed: an upstream that was skipped itself has an
\* earlier rank.
LEMMA SkipsAreCaused ==
    ASSUME ChainInv, NEW d \in Ids, result[d] = "skipped"
    PROVE  \E u \in Ancestor(d) : result[u] = "error"
<1> DEFINE m == Len(Nodes)
<1>1. m \in Nat /\ \E up : Ups(d, m, up) /\ Ancestor(d) = up[m]
  BY AncestorIs
<1>2. PICK b \in 1..m : d \in Ready(deps, Remaining(deps)[b - 1])
  BY RankExists DEF ChainInv, UpstreamInv
<1>3. \A i, j \in 0..m : i <= j => Remaining(deps)[j] \subseteq Remaining(deps)[i]
  BY RemainingShrinks
<1>4. /\ Remaining(deps)[0] = Ids
      /\ \A k \in 1..m : Remaining(deps)[k] =
            Remaining(deps)[k - 1] \ Ready(deps, Remaining(deps)[k - 1])
  <2>1. 0 \in 0..Len(Nodes) /\ \A k \in 1..Len(Nodes) : k \in 0..Len(Nodes) /\ k # 0
    BY <1>1
  <2> QED BY <2>1, RemainingIs
<1>5. \A x \in Ids : \E c \in 1..m : x \in Ready(deps, Remaining(deps)[c - 1])
  <2>1. IsAcyclic(deps)
    BY DEF ChainInv, UpstreamInv
  <2> QED BY <2>1, RankExists
<1> DEFINE rem == Remaining(deps)
<1> HIDE DEF m, rem
<1>6. PICK up : Ups(d, m, up) /\ Ancestor(d) = up[m]
  BY <1>1
<1>7. /\ up[0] = deps[d]
      /\ \A k \in 1..m : up[k] = up[k - 1] \cup UNION {deps[x] : x \in up[k - 1]}
  <2>1. 0 \in 0..m /\ \A k \in 1..m : k \in 0..m /\ k # 0
    BY <1>1
  <2> QED BY <1>6, <2>1 DEF Ups
<1> SUFFICES ASSUME \A u \in up[m] : result[u] # "error" PROVE FALSE
  BY <1>6
<1>8. ASSUME NEW k \in 0..m PROVE up[k] \subseteq up[m]
  <2> DEFINE S == {j \in k..m : ~(up[k] \subseteq up[j])}
  <2>1. S = {}
    <3> SUFFICES ASSUME S # {} PROVE FALSE
      OBVIOUS
    <3>1. S \subseteq Nat
      BY <1>1
    <3> HIDE DEF S
    <3>2. PICK j \in S : \A y \in S : j <= y
      BY <3>1, LeastNumber
    <3>3. j \in k..m /\ ~(up[k] \subseteq up[j])
      BY DEF S
    <3>4. j # k /\ j \in 1..m /\ j - 1 \in k..m /\ j - 1 \notin S
      BY <1>1, <3>2, <3>3
    <3>5. up[k] \subseteq up[j - 1] /\ up[j - 1] \subseteq up[j]
      BY <1>7, <3>4 DEF S
    <3> QED BY <3>3, <3>5
  <2> QED BY <1>1, <2>1
<1> DEFINE Q(k) == \E u \in up[k] : u \in Ids /\ result[u] = "skipped" /\ u \notin rem[(b - 1) - k]
           S == {k \in 0..(b - 1) : ~Q(k)}
<1>9. ASSUME NEW x \in Ids, result[x] = "skipped", NEW k \in 0..m, deps[x] \subseteq up[k]
      PROVE  \E u \in deps[x] : u \in up[k] /\ u \in Ids /\ result[u] = "skipped"
  <2>1. PICK u \in deps[x] : result[u] \in Bad
    BY <1>9 DEF ChainInv, UpstreamInv
  <2>2. u \in Ids /\ u \in up[k] /\ result[u] # "error"
    BY <1>8, <1>9 DEF ChainInv, LineInv
  <2> QED BY <2>1, <2>2 DEF Bad
<1>10. b \in Nat /\ b >= 1 /\ b <= m /\ b - 1 \in Nat
  BY <1>1
<1>11. S = {}
  <2> SUFFICES ASSUME S # {} PROVE FALSE
    OBVIOUS
  <2>1. S \subseteq Nat
    OBVIOUS
  <2> HIDE DEF S
  <2>2. PICK k \in S : \A y \in S : k <= y
    BY <2>1, LeastNumber
  <2>3. k \in 0..(b - 1) /\ ~Q(k)
    BY DEF S
  <2>4. CASE k = 0
    <3>1. PICK u \in deps[d] : u \in up[0] /\ u \in Ids /\ result[u] = "skipped"
      <4>1. 0 \in 0..m /\ deps[d] \subseteq up[0]
        BY <1>1, <1>7
      <4> QED BY <1>9, <4>1
    <3>2. deps[d] \cap rem[b - 1] = {}
      BY <1>2 DEF Ready, rem
    <3>3. (b - 1) - 0 = b - 1
      BY <1>10
    <3> QED BY <2>3, <2>4, <3>1, <3>2, <3>3
  <2>5. CASE k # 0
    <3>1. k - 1 \in 0..(b - 1) /\ k - 1 \notin S /\ k \in 1..m /\ k \in 0..m
      BY <1>10, <1>1, <2>2, <2>3, <2>5
    <3> DEFINE j == (b - 1) - (k - 1)
    <3>2. j \in 1..m /\ (b - 1) - k = j - 1
      BY <1>10, <1>1, <2>3, <2>5
    <3>3. PICK u \in up[k - 1] : u \in Ids /\ result[u] = "skipped" /\ u \notin rem[j]
      BY <3>1 DEF S
    <3> HIDE DEF j
    <3>4. PICK v \in deps[u] : v \in up[k] /\ v \in Ids /\ result[v] = "skipped"
      <4>1. deps[u] \subseteq up[k]
        BY <1>7, <3>1, <3>3
      <4> QED BY <1>9, <3>1, <3>3, <4>1
    <3>5. PICK c \in 1..m : u \in Ready(deps, rem[c - 1])
      BY <1>5, <3>3 DEF rem
    <3>6. u \in rem[c - 1] /\ deps[u] \cap rem[c - 1] = {}
      BY <3>5 DEF Ready
    <3>7. c <= j
      <4> SUFFICES ASSUME c > j PROVE FALSE
        BY <1>1, <3>2
      <4>1. j \in 0..m /\ c - 1 \in 0..m /\ j <= c - 1
        BY <1>1, <3>2
      <4>2. rem[c - 1] \subseteq rem[j]
        BY <1>3, <4>1 DEF rem
      <4> QED BY <3>3, <3>6, <4>2
    <3>8. rem[j - 1] \subseteq rem[c - 1]
      <4>1. c - 1 \in 0..m /\ j - 1 \in 0..m /\ c - 1 <= j - 1
        BY <1>1, <3>2, <3>7
      <4> QED BY <1>3, <4>1 DEF rem
    <3>9. v \notin rem[j - 1]
      BY <3>4, <3>6, <3>8
    <3> QED BY <2>3, <3>2, <3>4, <3>9
  <2> QED BY <2>4, <2>5
<1>12. b - 1 \in 0..(b - 1) /\ (b - 1) - (b - 1) = 0
  BY <1>10
<1>13. Q(b - 1)
  BY <1>11, <1>12
<1>14. PICK u \in Ids : u \notin rem[0]
  BY <1>12, <1>13
<1> QED BY <1>4, <1>14 DEF rem

\* In a cycle along a graph whatever ran had every ancestor, at any distance, done and not
\* failed before it, and whatever was skipped has an ancestor that failed (run_dag,
\* topological_order).
THEOREM FailureContained == Spec => []FailureIsContained
<1>1. ChainInv => FailureIsContained
  <2>1. Ran = {"ok", "empty", "error", "paused"}
    BY DEF Ran, Good
  <2> QED BY <2>1, AncestorsDone, SkipsAreCaused DEF FailureIsContained, Good
<1> QED BY <1>1, ChainInit, ChainNext, WorkforceShape, PTL DEF Spec
=============================================================================
